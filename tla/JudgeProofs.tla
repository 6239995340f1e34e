-------------------------------- MODULE JudgeProofs --------------------------------
(***************************************************************************)
(* Theorems about JudgeRun, for any number of tests, reports of the runner *)
(* and faults.  In the invariant classify only has to give one of five     *)
(* verdicts; how it compares texts enters at the end (VerdictsAreRight).   *)
(***************************************************************************)
EXTENDS JudgeRun, ClassifyProofs

USE JudgeAssumption
  DEF Tests, Execs, Labels, Busy, JudgeVerdicts, FaultKinds, Used, dirVars, dbVars, Saved

(* classify gives a verdict, and never CE.                                 *)
LEMMA VerdictsOfClassify ==
  ASSUME NEW o, NEW text
  PROVE  classify(o, text) \in JudgeVerdicts \ {"CE"}
  BY DEF classify

(* Faults only wear on.                                                    *)
LEMMA FaultsWear ==
  ASSUME TypeOK, FaultsAccounted, UNCHANGED faults \/ \E k \in FaultKinds : Fault(k)
  PROVE  /\ faults' \in [FaultKinds -> Nat] /\ FaultsAccounted'
         /\ \A k \in FaultKinds : Used(k) => Used(k)'
<1>1. faults \in [FaultKinds -> Nat] /\ Faults \in [FaultKinds -> Nat]
  BY DEF TypeOK
<1>2. ASSUME NEW k \in FaultKinds, Fault(k)
      PROVE  /\ faults' \in [FaultKinds -> Nat]
             /\ \A j \in FaultKinds : faults'[j] <= faults[j]
  BY <1>1, <1>2 DEF Fault
<1>3. /\ faults' \in [FaultKinds -> Nat]
      /\ \A j \in FaultKinds : faults'[j] <= faults[j]
  BY <1>1, <1>2
<1> QED BY <1>1, <1>3 DEF FaultsAccounted

LEMMA Strike ==
  ASSUME TypeOK, FaultsAccounted, NEW k \in FaultKinds, Fault(k)
  PROVE  Used(k)'
  BY DEF TypeOK, FaultsAccounted, Fault

(* What reading may spoil of a report is its text.                         *)
LEMMA ReadingsKeep ==
  ASSUME TypeOK, NEW e \in Execs, did[e] # None, NEW o \in Readings(e)
  PROVE  /\ o.verdict = did[e].verdict /\ o.truncated = did[e].truncated
         /\ o.runtime = did[e].runtime /\ o.runtime \in Nat
<1>1. did[e] \in Outputs
  BY DEF TypeOK
<1>2. /\ did[e] = [verdict |-> did[e].verdict, stdout |-> did[e].stdout,
                   truncated |-> did[e].truncated, runtime |-> did[e].runtime]
      /\ did[e].runtime \in Nat
  BY <1>1
<1>3. o = did[e] \/ \E text : o = [did[e] EXCEPT !.stdout = text]
  BY DEF Readings
<1> QED BY <1>2, <1>3

(* A report that stays may be read as before, and a grade that was earned  *)
(* stays earned.                                                           *)
LEMMA ReadingsGrow ==
  ASSUME NEW e, did'[e] = did[e], unread \subseteq unread'
  PROVE  /\ Readings(e) \subseteq Readings(e)'
         /\ \A v : Graded(e, v) => Graded(e, v)'
<1>1. Readings(e) \subseteq Readings(e)'
  BY DEF Readings
<1> QED BY <1>1 DEF Graded

LEMMA ReadingsStay ==
  ASSUME did' = did, unread \subseteq unread'
  PROVE  /\ \A e : Readings(e) \subseteq Readings(e)'
         /\ \A e, v : Graded(e, v) => Graded(e, v)'
         /\ \A v : EarnedBy(v) => EarnedBy(v)'
<1>1. \A e : /\ Readings(e) \subseteq Readings(e)'
             /\ \A v : Graded(e, v) => Graded(e, v)'
  BY ReadingsGrow
<1> QED BY <1>1 DEF EarnedBy

(* The initial state.                                                      *)
LEMMA InitInv == Init => IndInv
<1> SUFFICES ASSUME Init PROVE IndInv
  OBVIOUS
<1>1. TypeOK
  <2>1. rows \in [Tests -> [verdict : JudgeVerdicts, runtime : Nat] \cup {None}]
    BY DEF Init
  <2>2. /\ did \in [Execs -> Outputs \cup {None}]
        /\ box \in [Execs -> {"none", "running", "exited", "failed"}]
    BY DEF Init
  <2>3. n \in Execs /\ peak \in Nat /\ faults \in [FaultKinds -> Nat]
    BY DEF Init
  <2> QED BY <2>1, <2>2, <2>3 DEF Init, TypeOK
<1>2. FaultsAccounted /\ OneContainer /\ InOrder
  BY DEF Init, FaultsAccounted, OneContainer, InOrder
<1>3. OwnResult /\ VerdictIsEarned
  BY DEF Init, OwnResult, VerdictIsEarned
<1>4. RowsInOrder /\ RowsFitAnswer
  BY DEF Init, RowsInOrder, RowsFitAnswer
<1> QED BY <1>1, <1>2, <1>3, <1>4 DEF IndInv

(* Run returns an error: nothing is claimed but what the rows say already. *)
LEMMA KeepsError ==
  ASSUME IndInv, Finish("error"), UNCHANGED <<n, expired, box, out, peak, dbVars, did, unread>>,
         UNCHANGED faults \/ \E k \in FaultKinds : Fault(k),
         \A e \in Execs : box[e] = "running" => e = n /\ expired
  PROVE  IndInv'
<1>1. /\ faults' \in [FaultKinds -> Nat] /\ FaultsAccounted'
      /\ \A k \in FaultKinds : Used(k) => Used(k)'
  BY FaultsWear DEF IndInv
<1>2. TypeOK'
  BY <1>1 DEF IndInv, TypeOK, Finish
<1>3. OneContainer' /\ InOrder'
  BY DEF IndInv, Finish, OneContainer, InOrder
<1>4. OwnResult' /\ VerdictIsEarned'
  BY DEF Finish, OwnResult, VerdictIsEarned
<1>5. RowsInOrder' /\ RowsFitAnswer'
  BY <1>1 DEF IndInv, Finish, RowsInOrder, RowsFitAnswer
<1> QED BY <1>1, <1>2, <1>3, <1>4, <1>5 DEF IndInv

LEMMA KeepsLoad ==
  ASSUME IndInv, Load
  PROVE  IndInv'
<1>1. /\ at = "load" /\ at' = "exec" /\ n = 0 /\ n' \in {0, 1} /\ NumTests > 0
      /\ UNCHANGED <<expired, box, result, stdout, out, peak, rows, ceStored, answer, did, unread, faults>>
  BY DEF IndInv, InOrder, Load, FirstExec
<1>2. TypeOK'
  BY <1>1 DEF IndInv, TypeOK
<1>3. FaultsAccounted' /\ OneContainer' /\ InOrder'
  BY <1>1 DEF IndInv, TypeOK, FaultsAccounted, OneContainer, InOrder
<1>4. OwnResult' /\ VerdictIsEarned'
  BY <1>1 DEF IndInv, TypeOK, OwnResult, VerdictIsEarned
<1>5. RowsInOrder' /\ RowsFitAnswer'
  BY <1>1 DEF IndInv, TypeOK, RowsInOrder, RowsFitAnswer
<1> QED BY <1>2, <1>3, <1>4, <1>5 DEF IndInv

LEMMA KeepsLaunch ==
  ASSUME IndInv, Launch
  PROVE  IndInv'
<1>1. /\ at = "exec" /\ at' = "wait" /\ box' = [box EXCEPT ![n] = "running"]
      /\ UNCHANGED <<n, expired, result, stdout, out, peak, rows, ceStored, answer, did, unread, faults>>
  BY DEF Launch
<1>2. TypeOK'
  BY <1>1 DEF IndInv, TypeOK
<1>3. FaultsAccounted' /\ OneContainer' /\ InOrder'
  BY <1>1 DEF IndInv, TypeOK, FaultsAccounted, OneContainer, InOrder
<1>4. OwnResult' /\ VerdictIsEarned'
  BY <1>1, ReadingsStay DEF IndInv, TypeOK, OwnResult, VerdictIsEarned
<1>5. RowsInOrder' /\ RowsFitAnswer'
  BY <1>1 DEF IndInv, TypeOK, RowsInOrder, RowsFitAnswer
<1> QED BY <1>2, <1>3, <1>4, <1>5 DEF IndInv

LEMMA KeepsContainerFails ==
  ASSUME IndInv, NEW e \in Execs, ContainerFails(e)
  PROVE  IndInv'
<1>1. /\ box[e] = "running" /\ box' = [box EXCEPT ![e] = "failed"] /\ Fault("docker")
      /\ UNCHANGED <<at, n, expired, result, stdout, out, peak, rows, ceStored, answer, did, unread>>
  BY DEF ContainerFails
<1>2. /\ faults' \in [FaultKinds -> Nat] /\ FaultsAccounted'
      /\ \A k \in FaultKinds : Used(k) => Used(k)'
  BY <1>1, FaultsWear DEF IndInv
<1>3. TypeOK'
  BY <1>1, <1>2 DEF IndInv, TypeOK
<1>4. OneContainer' /\ InOrder'
  BY <1>1 DEF IndInv, TypeOK, OneContainer, InOrder
<1>5. OwnResult' /\ VerdictIsEarned'
  <2>1. e = n
    BY <1>1 DEF IndInv, OneContainer
  <2> QED BY <1>1, <1>2, <2>1, ReadingsStay DEF IndInv, TypeOK, OwnResult, VerdictIsEarned
<1>6. RowsInOrder' /\ RowsFitAnswer'
  BY <1>1, <1>2 DEF IndInv, TypeOK, RowsInOrder, RowsFitAnswer
<1> QED BY <1>2, <1>3, <1>4, <1>5, <1>6 DEF IndInv

LEMMA KeepsExpire ==
  ASSUME IndInv, Expire
  PROVE  IndInv'
<1>1. /\ at # "returned" /\ expired' = TRUE
      /\ UNCHANGED <<at, n, box, result, stdout, out, peak, rows, ceStored, answer, did, unread, faults>>
  BY DEF Expire
<1>2. TypeOK'
  BY <1>1 DEF IndInv, TypeOK
<1>3. FaultsAccounted' /\ OneContainer' /\ InOrder'
  BY <1>1 DEF IndInv, TypeOK, FaultsAccounted, OneContainer, InOrder
<1>4. OwnResult' /\ VerdictIsEarned'
  BY <1>1, ReadingsStay DEF IndInv, TypeOK, OwnResult, VerdictIsEarned
<1>5. RowsInOrder' /\ RowsFitAnswer'
  BY <1>1 DEF IndInv, TypeOK, RowsInOrder, RowsFitAnswer
<1> QED BY <1>2, <1>3, <1>4, <1>5 DEF IndInv

(* The container reports.                                                  *)
LEMMA KeepsContainerEnds ==
  ASSUME IndInv, NEW e \in Execs, ContainerEnds(e)
  PROVE  IndInv'
<1>1. PICK o \in Outputs :
        /\ did' = [did EXCEPT ![e] = o]
        /\ IF at = "returned" THEN UNCHANGED <<result, stdout, faults>>
           ELSE /\ stdout' = o.stdout
                /\ \/ result' = o /\ UNCHANGED faults
                   \/ result' \in {result, Broken} /\ Fault("write")
  BY DEF ContainerEnds
<1>2. /\ box[e] = "running" /\ box' = [box EXCEPT ![e] = "exited"]
      /\ UNCHANGED <<at, n, expired, out, peak, rows, ceStored, answer, unread>>
  BY DEF ContainerEnds
<1>3. e = n /\ at \in {"wait", "returned"} /\ (at = "returned" => answer = "error")
  BY <1>2 DEF IndInv, OneContainer
<1>4. /\ faults' \in [FaultKinds -> Nat] /\ FaultsAccounted'
      /\ \A k \in FaultKinds : Used(k) => Used(k)'
  BY <1>1, FaultsWear DEF IndInv
<1>5. TypeOK'
  <2>1. result' \in Outputs \cup {None, Broken} /\ did' \in [Execs -> Outputs \cup {None}]
    BY <1>1 DEF IndInv, TypeOK
  <2> QED BY <1>2, <1>3, <1>4, <2>1 DEF IndInv, TypeOK
<1>6. OneContainer' /\ InOrder'
  BY <1>1, <1>2, <1>3 DEF IndInv, TypeOK, OneContainer, InOrder
<1>7. OwnResult'
  <2>1. CASE at = "wait" /\ UNCHANGED faults
    <3>1. (did'[n] = o /\ result' = o /\ stdout' = o.stdout) \/ Used("write")'
      BY <1>1, <1>3, <2>1, Strike DEF IndInv, TypeOK
    <3>2. \A t \in 1..(n - 1) : did'[t] = did[t]
      BY <1>1, <1>3 DEF IndInv, TypeOK
    <3>3. \A t \in 1..(n - 1) : Graded(t, "AC") => Graded(t, "AC")'
      BY <1>2, <3>2, ReadingsGrow
    <3> QED BY <1>2, <1>3, <1>4, <2>1, <3>1, <3>3 DEF IndInv, TypeOK, OwnResult
  <2>2. CASE at = "wait" /\ Fault("write")
    BY <2>2, Strike DEF IndInv, OwnResult
  <2>3. CASE at = "returned"
    BY <1>2, <2>3 DEF OwnResult
  <2> QED BY <1>1, <1>3, <2>1, <2>2, <2>3
<1>8. VerdictIsEarned'
  BY <1>2, <1>3 DEF IndInv, TypeOK, VerdictIsEarned
<1>9. RowsInOrder' /\ RowsFitAnswer'
  BY <1>2, <1>3, <1>4 DEF IndInv, TypeOK, RowsInOrder, RowsFitAnswer
<1> QED BY <1>4, <1>5, <1>6, <1>7, <1>8, <1>9 DEF IndInv

(* Exec returns what the directory holds.                                  *)
LEMMA KeepsReadResult ==
  ASSUME IndInv, ReadResult
  PROVE  IndInv'
<1>1. at = "wait" /\ box[n] = "exited" /\ UNCHANGED <<n, expired, box, peak, rows, ceStored, did>>
  BY DEF ReadResult, UseResult
<1>2. CASE NoResult
  BY <1>1, <1>2, KeepsError DEF IndInv, OneContainer, NoResult
<1>3. CASE TakeOutput
  <2>1. /\ at' = IF n = 0 THEN "compiled" ELSE "ran"
        /\ result \in Outputs /\ UNCHANGED <<result, stdout, answer>>
    BY <1>3 DEF IndInv, TypeOK, TakeOutput
  <2>2. /\ faults' \in [FaultKinds -> Nat] /\ FaultsAccounted'
        /\ \A k \in FaultKinds : Used(k) => Used(k)'
    BY <1>3, FaultsWear DEF IndInv, TakeOutput
  <2>3. /\ result = [verdict |-> result.verdict, stdout |-> result.stdout,
                     truncated |-> result.truncated, runtime |-> result.runtime]
        /\ result.runtime \in Nat
    BY <2>1
  <2>4. \/ out' = [result EXCEPT !.stdout = stdout] /\ UNCHANGED unread
        \/ unread' = unread \cup {n} /\ \E text \in Prefixes(stdout) : out' = [result EXCEPT !.stdout = text]
    BY <1>3 DEF TakeOutput
  <2>5. out'.runtime \in Nat
    BY <2>3, <2>4
  <2>6. TypeOK'
    BY <1>1, <2>1, <2>2, <2>4 DEF IndInv, TypeOK
  <2>7. OneContainer' /\ InOrder'
    BY <1>1, <2>1 DEF IndInv, TypeOK, OneContainer, InOrder
  <2>8. OwnResult' /\ VerdictIsEarned'
    <3>1. ASSUME ~Used("write")'
          PROVE  did[n] # None /\ out' \in Readings(n)'
      <4>1. did[n] # None /\ result = did[n] /\ stdout = did[n].stdout
        BY <1>1, <2>2, <3>1 DEF IndInv, OwnResult
      <4>2. CASE out' = [result EXCEPT !.stdout = stdout]
        <5>1. out' = did'[n]
          BY <1>1, <2>3, <4>1, <4>2
        <5> QED BY <1>1, <4>1, <5>1 DEF Readings
      <4>3. CASE unread' = unread \cup {n} /\ \E text \in Prefixes(stdout) : out' = [result EXCEPT !.stdout = text]
        BY <1>1, <4>1, <4>3 DEF Readings
      <4> QED BY <2>4, <4>2, <4>3
    <3>2. \A e, v : Graded(e, v) => Graded(e, v)'
      BY <1>1, <2>4, ReadingsStay
    <3>3. OwnResult'
      BY <1>1, <2>1, <2>2, <3>1, <3>2 DEF IndInv, TypeOK, OwnResult
    <3>4. VerdictIsEarned'
      BY <1>1, <2>1 DEF IndInv, TypeOK, VerdictIsEarned
    <3> QED BY <3>3, <3>4
  <2>9. RowsInOrder' /\ RowsFitAnswer'
    BY <1>1, <2>1, <2>2, <2>5 DEF IndInv, TypeOK, RowsInOrder, RowsFitAnswer
  <2> QED BY <2>2, <2>6, <2>7, <2>8, <2>9 DEF IndInv
<1> QED BY <1>2, <1>3 DEF ReadResult, UseResult

LEMMA KeepsCompiled ==
  ASSUME IndInv, Compiled
  PROVE  IndInv'
<1>1. /\ at = "compiled" /\ out.verdict = "OK" /\ at' = "exec" /\ n' = n + 1 /\ n = 0
      /\ n' = 1 /\ NumTests > 0
      /\ UNCHANGED <<expired, box, result, stdout, out, peak, rows, ceStored, answer, did, unread, faults>>
  BY DEF IndInv, TypeOK, InOrder, Compiled, NextExec
<1>2. TypeOK'
  BY <1>1 DEF IndInv, TypeOK
<1>3. FaultsAccounted' /\ OneContainer' /\ InOrder'
  BY <1>1 DEF IndInv, TypeOK, FaultsAccounted, OneContainer, InOrder
<1>4. OwnResult' /\ VerdictIsEarned'
  BY <1>1 DEF IndInv, TypeOK, OwnResult, VerdictIsEarned
<1>5. RowsInOrder' /\ RowsFitAnswer'
  BY <1>1 DEF IndInv, TypeOK, RowsInOrder, RowsFitAnswer
<1> QED BY <1>2, <1>3, <1>4, <1>5 DEF IndInv

LEMMA KeepsCompileError ==
  ASSUME IndInv, CompileError
  PROVE  IndInv'
<1>1. /\ at = "compiled" /\ n = 0 /\ out.verdict # "OK" /\ Finish("CE")
      /\ UNCHANGED <<n, expired, box, out, peak, rows, did, unread>>
  BY DEF IndInv, TypeOK, CompileError
<1>2. /\ ceStored' \in BOOLEAN /\ (UNCHANGED faults \/ Fault("db"))
      /\ expired \/ Fault("db") \/ ceStored'
  BY DEF IndInv, TypeOK, CompileError, BestEffort
<1>3. /\ faults' \in [FaultKinds -> Nat] /\ FaultsAccounted'
      /\ \A k \in FaultKinds : Used(k) => Used(k)'
  BY <1>2, FaultsWear DEF IndInv
<1>4. TypeOK'
  BY <1>1, <1>2, <1>3 DEF IndInv, TypeOK, Finish
<1>5. OneContainer' /\ InOrder'
  BY <1>1 DEF IndInv, TypeOK, Finish, OneContainer, InOrder
<1>6. VerdictIsEarned'
  <2>1. ASSUME ~Used("write")
        PROVE  did[0] # None /\ did[0].verdict # "OK" /\ \A t \in Tests : did[t] = None
    <3>1. did[0] # None /\ out \in Readings(0)
      BY <1>1, <2>1 DEF IndInv, OwnResult
    <3>2. did[0].verdict # "OK"
      BY <1>1, <3>1, ReadingsKeep DEF IndInv
    <3> QED BY <1>1, <3>1, <3>2 DEF IndInv, TypeOK, InOrder
  <2> QED BY <1>1, <1>3, <2>1 DEF Finish, VerdictIsEarned, EarnedBy
<1>7. OwnResult'
  BY <1>1 DEF Finish, OwnResult
<1>8. RowsInOrder' /\ RowsFitAnswer'
  <2>1. Saved = {}
    BY <1>1 DEF IndInv, TypeOK, RowsInOrder
  <2>2. Fault("db") => Used("db")'
    BY Strike DEF IndInv
  <2> QED BY <1>1, <1>2, <2>1, <2>2 DEF IndInv, TypeOK, Finish, RowsInOrder, RowsFitAnswer
<1> QED BY <1>3, <1>4, <1>5, <1>6, <1>7, <1>8 DEF IndInv

(* The longest of two run times.                                           *)
LEMMA MaxOfTwo ==
  ASSUME NEW a \in Nat, NEW b \in Nat
  PROVE  /\ Max({a, b}) \in Nat
         /\ Max({a, b}) >= a /\ Max({a, b}) >= b
         /\ Max({a, b}) \in {a, b}
<1>1. \E x \in {a, b} : \A y \in {a, b} : x >= y
  OBVIOUS
<1>2. Max({a, b}) = CHOOSE x \in {a, b} : \A y \in {a, b} : x >= y
  BY DEF Max
<1>3. Max({a, b}) \in {a, b} /\ \A y \in {a, b} : Max({a, b}) >= y
  BY <1>1, <1>2
<1> QED BY <1>3

(* A test is judged: its row may be saved, and Run goes on or returns.     *)
LEMMA KeepsJudgeTest ==
  ASSUME IndInv, JudgeTest
  PROVE  IndInv'
<1> DEFINE v == classify(out, Expected[n])
           row == [verdict |-> v, runtime |-> out.runtime]
<1>1. /\ at = "ran" /\ n \in Tests /\ NumTests \in Nat /\ NumTests > 0
      /\ out.runtime \in Nat /\ peak \in Nat /\ peak' = Max({peak, out.runtime})
      /\ UNCHANGED <<expired, box, out, ceStored, did, unread>>
  BY DEF IndInv, TypeOK, RowsInOrder, JudgeTest
<1>2. v \in JudgeVerdicts \ {"CE"}
  BY VerdictsOfClassify
<1>3. peak' \in Nat /\ peak' >= peak /\ peak' >= out.runtime
  BY <1>1, MaxOfTwo
<1>4. \/ /\ v = "AC" /\ n < NumTests /\ at' = "exec" /\ n' = n + 1
         /\ UNCHANGED <<result, stdout, answer>>
      \/ /\ ~(v = "AC" /\ n < NumTests) /\ at' = "returned" /\ answer' = v /\ n' = n
         /\ result' = None /\ stdout' = <<>>
  BY DEF JudgeTest, NextExec, Finish
<1>5. UNCHANGED faults \/ Fault("db")
  BY DEF JudgeTest, SaveTestResult, BestEffort
<1>6. /\ faults' \in [FaultKinds -> Nat] /\ FaultsAccounted'
      /\ \A k \in FaultKinds : Used(k) => Used(k)'
      /\ Fault("db") => Used("db")'
  BY <1>5, FaultsWear, Strike DEF IndInv
<1>7. row \in [verdict : JudgeVerdicts, runtime : Nat] /\ row # None
  <2>1. row \in [verdict : JudgeVerdicts, runtime : Nat]
    BY <1>1, <1>2
  <2> QED BY <2>1
<1>8. rows[n] = None /\ \A t \in Tests : rows[t] # None => t < n /\ rows[t].verdict = "AC"
  BY <1>1 DEF IndInv, TypeOK, RowsInOrder
<1>9. /\ rows' = [rows EXCEPT ![n] = row] \/ rows' = rows
      /\ rows' = [rows EXCEPT ![n] = row] \/ expired \/ Fault("db")
  BY <1>8 DEF JudgeTest, SaveTestResult, BestEffort, TestRow
<1> HIDE DEF v, row
<1>10. TypeOK'
  <2>1. rows' \in [Tests -> [verdict : JudgeVerdicts, runtime : Nat] \cup {None}]
    BY <1>7, <1>9 DEF IndInv, TypeOK
  <2>2. /\ at' \in Labels /\ n' \in Execs /\ at' \notin {"compiled", "ran"}
        /\ result' \in Outputs \cup {None, Broken}
        /\ answer' \in JudgeVerdicts \cup {None, "error"}
        /\ at' = "returned" <=> answer' # None
    BY <1>1, <1>2, <1>4 DEF IndInv, TypeOK
  <2> QED BY <1>1, <1>3, <1>6, <2>1, <2>2 DEF IndInv, TypeOK
<1>11. OneContainer' /\ InOrder'
  BY <1>1, <1>4 DEF IndInv, TypeOK, OneContainer, InOrder
<1>12. OwnResult' /\ VerdictIsEarned'
  <2> USE <1>1, <1>2, <1>6
  <2>1. ASSUME ~Used("write")
        PROVE  /\ Graded(n, v)
               /\ \A t \in 1..(n - 1) : Graded(t, "AC")
               /\ \A t \in (n + 1)..NumTests : did[t] = None
    <3>1. /\ did[n] # None /\ out \in Readings(n)
          /\ \A t \in 1..(n - 1) : Graded(t, "AC")
      BY <2>1 DEF IndInv, OwnResult
    <3>2. \A t \in (n + 1)..NumTests : did[t] = None
      BY DEF IndInv, InOrder
    <3> QED BY <3>1, <3>2 DEF v, Graded
  <2>0. /\ \A t, w : Graded(t, w) => Graded(t, w)'
        /\ \A w : EarnedBy(w) => EarnedBy(w)'
    BY ReadingsStay
  <2>2. CASE at' = "exec"
    <3>1. answer' = None /\ n' = n + 1 /\ v = "AC"
      BY <1>4, <2>2 DEF IndInv, TypeOK
    <3> QED BY <2>0, <2>1, <2>2, <3>1 DEF OwnResult, VerdictIsEarned
  <2>3. CASE at' = "returned"
    <3>1. answer' = v /\ (v = "AC" => n = NumTests)
      BY <1>4, <2>3
    <3>2. ~Used("write") => EarnedBy(v)
      <4>1. CASE v = "AC"
        BY <2>1, <3>1, <4>1 DEF EarnedBy
      <4>2. CASE v # "AC"
        BY <2>1, <4>2 DEF EarnedBy
      <4> QED BY <4>1, <4>2
    <3>3. VerdictIsEarned'
      BY <2>0, <3>1, <3>2 DEF VerdictIsEarned
    <3> QED BY <2>3, <3>3 DEF OwnResult
  <2> QED BY <1>4, <2>2, <2>3
<1>13. RowsInOrder' /\ RowsFitAnswer'
  <2>1. /\ \A t \in Tests : rows'[t] # None =>
             (t < n /\ rows'[t] = rows[t]) \/ (t = n /\ rows'[t] = row)
        /\ \A t \in Tests : rows[t] # None => rows'[t] # None
        /\ rows'[n] = row \/ expired \/ Used("db")'
    BY <1>1, <1>6, <1>7, <1>8, <1>9 DEF IndInv, TypeOK
  <2>2. row.verdict = v /\ row.runtime = out.runtime
    BY DEF row
  <2>3. \A t \in Tests : rows'[t] # None =>
          /\ rows'[t].runtime <= peak' /\ rows'[t].verdict \in {"AC", v}
    <3>1. \A t \in Tests : rows[t] # None => rows[t].runtime \in Nat /\ rows[t].runtime <= peak
      BY DEF IndInv, TypeOK, RowsFitAnswer
    <3> QED BY <1>1, <1>3, <1>8, <2>1, <2>2, <3>1
  <2>4. ~Used("db")' /\ ~expired => \A t \in 1..n : rows'[t] # None
    <3>1. ~Used("db") /\ ~expired => \A t \in 1..(n - 1) : rows[t] # None
      BY <1>1 DEF IndInv, RowsInOrder
    <3> QED BY <1>1, <1>6, <1>7, <2>1, <3>1
  <2>8. ASSUME ~Used("db")', ~expired
        PROVE  \E t \in Tests : rows'[t] # None /\ rows'[t].runtime = peak'
    <3>1. rows'[n] = row /\ row # None /\ row.runtime = out.runtime
      BY <1>7, <2>1, <2>2, <2>8
    <3>2. CASE peak' = out.runtime
      BY <1>1, <3>1, <3>2
    <3>3. CASE peak' # out.runtime
      <4>1. peak' = peak /\ peak # 0
        BY <1>1, <1>3, <3>3, MaxOfTwo
      <4>2. PICK t \in Tests : rows[t] # None /\ rows[t].runtime = peak
        BY <1>6, <2>8, <4>1 DEF IndInv, RowsFitAnswer
      <4>3. t # n
        BY <1>8, <4>2
      <4> QED BY <2>1, <2>2, <4>1, <4>2, <4>3
    <3> QED BY <3>2, <3>3
  <2>5. RowsInOrder'
    BY <1>1, <1>4, <1>6, <2>1, <2>3, <2>4 DEF RowsInOrder
  <2>6. ASSUME at' = "exec" PROVE RowsFitAnswer'
    <3>1. answer' = None
      BY <1>1, <1>4, <2>6 DEF IndInv, TypeOK
    <3> QED BY <1>1, <2>3, <2>8, <3>1 DEF RowsFitAnswer
  <2>7. ASSUME at' = "returned" PROVE RowsFitAnswer'
    <3>1. answer' = v /\ v # "CE" /\ (v = "AC" => n = NumTests)
      BY <1>1, <1>2, <1>4, <2>7
    <3>2. ~Used("db")' /\ ~expired => rows'[n] # None /\ rows'[n].verdict = v
      BY <1>1, <1>7, <2>1, <2>2
    <3> QED BY <1>1, <2>3, <2>4, <2>8, <3>1, <3>2 DEF RowsFitAnswer
  <2> QED BY <1>4, <2>5, <2>6, <2>7
<1> QED BY <1>6, <1>10, <1>11, <1>12, <1>13 DEF IndInv

(* Every step keeps the invariant.                                         *)
LEMMA NextInv == IndInv /\ [Next]_vars => IndInv'
<1> SUFFICES ASSUME IndInv, [Next]_vars PROVE IndInv'
  OBVIOUS
<1>1. CASE Load
  BY <1>1, KeepsLoad
<1>2. CASE LoadErr
  BY <1>2, KeepsError DEF IndInv, OneContainer, LoadErr
<1>3. CASE Launch
  BY <1>3, KeepsLaunch
<1>4. CASE LaunchErr
  BY <1>4, KeepsError DEF IndInv, OneContainer, LaunchErr
<1>5. CASE ExecErr
  BY <1>5, KeepsError DEF IndInv, OneContainer, ExecErr
<1>6. CASE ReadResult
  BY <1>6, KeepsReadResult
<1>7. CASE Compiled
  BY <1>7, KeepsCompiled
<1>8. CASE CompileError
  BY <1>8, KeepsCompileError
<1>9. CASE JudgeTest
  BY <1>9, KeepsJudgeTest
<1>10. CASE Expire
  BY <1>10, KeepsExpire
<1>11. ASSUME NEW e \in Execs, ContainerEnds(e) \/ ContainerFails(e)
       PROVE  IndInv'
  BY <1>11, KeepsContainerEnds, KeepsContainerFails
<1>12. CASE UNCHANGED vars
  <2>1. TypeOK' /\ FaultsAccounted' /\ OneContainer' /\ InOrder'
    BY <1>12 DEF vars, IndInv, TypeOK, FaultsAccounted, OneContainer, InOrder
  <2>2. OwnResult' /\ VerdictIsEarned'
    BY <1>12, ReadingsStay DEF vars, IndInv, OwnResult, VerdictIsEarned, Used
  <2>3. RowsInOrder' /\ RowsFitAnswer'
    BY <1>12 DEF vars, IndInv, RowsInOrder, RowsFitAnswer, Saved, Used
  <2> QED BY <2>1, <2>2, <2>3 DEF IndInv
<1> QED BY <1>1, <1>2, <1>3, <1>4, <1>5, <1>6, <1>7, <1>8, <1>9, <1>10, <1>11, <1>12
       DEF Next, RunStep

-----------------------------------------------------------------------------
(* The inductive invariant of one judge.Run: why its answer, its rows and  *)
(* the executions agree.                                                   *)
THEOREM JudgeInvariance == Spec => []IndInv
<1> QED BY InitInv, NextInv, PTL DEF Spec

(* The shape of the state of judge.Run.                                    *)
THEOREM JudgeTypesAreOK == Spec => []TypeOK
<1>1. IndInv => TypeOK
  BY DEF IndInv
<1> QED BY <1>1, JudgeInvariance, PTL

(* judge.Run gives no verdict that its executions did not report, as long  *)
(* as the runner could write its result.json; an output.txt that Exec could*)
(* not read changes nothing but which text was compared.                   *)
THEOREM EarnedVerdicts == Spec => []VerdictIsEarned
<1>1. IndInv => VerdictIsEarned
  BY DEF IndInv
<1> QED BY <1>1, JudgeInvariance, PTL

(* The result rows of a submission fit the verdict and the run time that   *)
(* Run returns, whichever of their statements is lost.                     *)
THEOREM RowsAgree == Spec => []RowsFitAnswer
<1>1. IndInv => RowsFitAnswer
  BY DEF IndInv
<1> QED BY <1>1, JudgeInvariance, PTL

(* Two containers of one job never share its directory.                    *)
THEOREM OneAtATime == Spec => []OneContainer
<1>1. IndInv => OneContainer
  BY DEF IndInv
<1> QED BY <1>1, JudgeInvariance, PTL

-----------------------------------------------------------------------------
(* The execution of test t really was right: it ran to its end, nothing of *)
(* its output was cut off and it looks like the expected output.           *)
EndedWell(t) == did[t] # None /\ did[t].verdict = "OK" /\ ~did[t].truncated

Right(t) == EndedWell(t) /\ SameOutput(did[t].stdout, Expected[t])

(* A submission is accepted only if every test was right; any other answer *)
(* but CE has a first test that was not, and no test after it was run.     *)
(* Where Exec could not read output.txt, it is certain of that test only   *)
(* that, if it was accepted, it ended well.                                *)
Passed(t) == EndedWell(t) /\ (t \notin unread => Right(t))

VerdictIsRight ==
  ~Used("write") =>
    /\ answer = "AC" => \A t \in Tests : Passed(t)
    /\ answer \in JudgeVerdicts \ {"AC", "CE"} =>
         \E t \in Tests : /\ did[t] # None /\ (t \notin unread => ~Right(t))
                          /\ \A u \in 1..(t - 1) : Passed(u)
                          /\ \A u \in (t + 1)..NumTests : did[u] = None

(* What judge.Run answers is right about what the executions printed, for  *)
(* texts of any length over any alphabet, as long as the runner could write*)
(* result.json and, for each test, Exec could read output.txt: Run, Exec,  *)
(* classify and normalize together.                                        *)
THEOREM VerdictsAreRight ==
  ASSUME NEW C, \A o \in Outputs : o.stdout \in Seq(C), \A t \in Tests : Expected[t] \in Seq(C)
  PROVE  Spec => []VerdictIsRight
<1>1. ASSUME IndInv, NEW t \in Tests, Graded(t, "AC")
      PROVE  EndedWell(t)
  <2>1. did[t] # None /\ t \in Execs /\ TypeOK
    BY <1>1 DEF IndInv, Graded
  <2>2. PICK o \in Readings(t) : classify(o, Expected[t]) = "AC"
    BY <1>1 DEF Graded
  <2>3. o.verdict = "OK" /\ ~o.truncated
    BY <2>2 DEF classify
  <2> QED BY <2>1, <2>3, ReadingsKeep DEF EndedWell
<1>2. ASSUME IndInv, NEW t \in Tests, t \notin unread, NEW v \in JudgeVerdicts, Graded(t, v)
      PROVE  v = "AC" <=> Right(t)
  <2>1. did[t] \in Outputs /\ did[t] # None /\ classify(did[t], Expected[t]) = v
    BY <1>2 DEF IndInv, TypeOK, Graded, Readings
  <2>2. normalize(did[t].stdout) = normalize(Expected[t]) <=> SameOutput(did[t].stdout, Expected[t])
    BY <2>1, NormalizeKeepsAppearance
  <2> QED BY <2>1, <2>2 DEF Right, EndedWell, classify
<1>3. ASSUME IndInv, NEW t \in Tests, Graded(t, "AC")
      PROVE  Passed(t)
  BY <1>1, <1>2, <1>3 DEF Passed
<1>4. IndInv => VerdictIsRight
  <2> SUFFICES ASSUME IndInv, ~Used("write") PROVE VerdictIsRight
    BY DEF VerdictIsRight
  <2>1. ASSUME answer = "AC", NEW t \in Tests
        PROVE  Passed(t)
    <3>1. EarnedBy("AC")
      BY <2>1 DEF IndInv, VerdictIsEarned
    <3>2. Graded(t, "AC")
      BY <3>1 DEF EarnedBy
    <3> QED BY <1>3, <3>2
  <2>2. ASSUME answer \in JudgeVerdicts \ {"AC", "CE"}
        PROVE  \E t \in Tests : /\ did[t] # None /\ (t \notin unread => ~Right(t))
                                /\ \A u \in 1..(t - 1) : Passed(u)
                                /\ \A u \in (t + 1)..NumTests : did[u] = None
    <3>1. EarnedBy(answer)
      BY <2>2 DEF IndInv, VerdictIsEarned
    <3>2. PICK t \in Tests : /\ Graded(t, answer)
                             /\ \A u \in 1..(t - 1) : Graded(u, "AC")
                             /\ \A u \in (t + 1)..NumTests : did[u] = None
      BY <2>2, <3>1 DEF EarnedBy
    <3>3. did[t] # None /\ (t \notin unread => ~Right(t))
      BY <1>2, <2>2, <3>2 DEF Graded
    <3>4. \A u \in 1..(t - 1) : u \in Tests
      OBVIOUS
    <3>5. \A u \in 1..(t - 1) : Passed(u)
      BY <1>3, <3>2, <3>4
    <3> QED BY <3>2, <3>3, <3>5
  <2> QED BY <2>1, <2>2 DEF VerdictIsRight
<1> QED BY <1>4, JudgeInvariance, PTL

-----------------------------------------------------------------------------
(* How far Run is from its end: four stages for each execution to come.    *)
Stage ==
  IF at = "load" THEN 4 ELSE IF at = "exec" THEN 3 ELSE IF at = "wait" THEN 2 ELSE 1

Distance == IF at = "returned" THEN 0 ELSE 4 * (NumTests - n) + Stage

(* Where a step of Run leads.                                              *)
LEMMA RunMoves ==
  ASSUME IndInv, RunStep
  PROVE  /\ at # "returned"
         /\ \/ at' = "returned"
            \/ at = "load" /\ at' = "exec" /\ n' \in {n, n + 1}
            \/ at = "exec" /\ at' = "wait" /\ n' = n
            \/ at = "wait" /\ at' \in {"compiled", "ran"} /\ n' = n
            \/ at \in {"compiled", "ran"} /\ at' = "exec" /\ n' = n + 1
<1>1. CASE Load
  <2>1. n = 0 /\ at = "load" /\ at' = "exec"
    BY <1>1 DEF Load, IndInv, InOrder
  <2>2. n' \in {0, 1}
    BY <1>1 DEF Load, FirstExec
  <2> QED BY <2>1, <2>2
<1>2. CASE LoadErr
  BY <1>2 DEF LoadErr, Finish
<1>3. CASE Launch
  BY <1>3 DEF Launch
<1>4. CASE LaunchErr
  BY <1>4 DEF LaunchErr, Finish
<1>5. CASE ExecErr
  BY <1>5 DEF ExecErr, Finish
<1>6. CASE ReadResult
  BY <1>6 DEF ReadResult, UseResult, NoResult, TakeOutput, Finish
<1>7. CASE Compiled
  BY <1>7 DEF Compiled, NextExec
<1>8. CASE CompileError
  BY <1>8 DEF CompileError, Finish
<1>9. CASE JudgeTest
  BY <1>9 DEF JudgeTest, NextExec, Finish
<1> QED BY <1>1, <1>2, <1>3, <1>4, <1>5, <1>6, <1>7, <1>8, <1>9 DEF RunStep

(* Every step of Run itself brings it nearer to its end, and no container, *)
(* fault or deadline takes it back: at most 4 * NumTests + 4 steps of Run  *)
(* are between the claim of a submission and the answer.                   *)
THEOREM RunIsBounded ==
  Spec => [][ /\ Distance \in 0..(4 * NumTests + 4)
              /\ RunStep => Distance' < Distance
              /\ ~RunStep => Distance' = Distance ]_vars
<1>1. ASSUME IndInv, IndInv', Next
      PROVE  /\ Distance \in 0..(4 * NumTests + 4)
             /\ RunStep => Distance' < Distance
             /\ ~RunStep => Distance' = Distance
  <2>1. n \in 0..NumTests /\ NumTests \in Nat /\ at \in Labels
    BY <1>1 DEF IndInv, TypeOK
  <2>2. n' \in 0..NumTests /\ at' \in Labels
    BY <1>1 DEF IndInv, TypeOK
  <2>3. Distance \in 0..(4 * NumTests + 4) /\ (at # "returned" => Distance > 0)
    BY <2>1 DEF Distance, Stage
  <2>4. ASSUME RunStep PROVE Distance' < Distance
    <3>1. CASE at' = "returned"
      BY <1>1, <2>3, <2>4, <3>1, RunMoves DEF Distance
    <3>2. CASE at' # "returned"
      BY <1>1, <2>1, <2>2, <2>4, <3>2, RunMoves DEF Distance, Stage
    <3> QED BY <3>1, <3>2
  <2>5. ASSUME ~RunStep PROVE Distance' = Distance
    <3>1. at' = at /\ n' = n
      BY <1>1, <2>5 DEF Next, Expire, ContainerEnds, ContainerFails
    <3> QED BY <3>1 DEF Distance, Stage
  <2> QED BY <2>3, <2>4, <2>5
<1> QED BY <1>1, JudgeInvariance, PTL DEF Spec

(* Execution e may be started: before the deadline, when no other container*)
(* of this job runs, and for a test only when all before it were accepted  *)
(* on what they really reported, as far as Exec could read it.             *)
Justified(e) ==
  /\ ~expired /\ answer = None
  /\ \A f \in Execs : box[f] # "running"
  /\ ~Used("write") => \A t \in Tests : t < e => Graded(t, "AC")

(* Run starts no other container (Exec and the loop over the tests): a     *)
(* wrong submission costs no further execution.                            *)
THEOREM LaunchesAreJustified ==
  Spec => [][\A e \in Execs : box[e] = "none" /\ box'[e] # "none" => Justified(e)]_vars
<1>1. ASSUME IndInv, Next, NEW e \in Execs, box[e] = "none", box'[e] # "none"
      PROVE  Justified(e)
  <2>1. Launch /\ e = n
    <3>1. box \in [Execs -> {"none", "running", "exited", "failed"}]
      BY <1>1 DEF IndInv, TypeOK
    <3>2. ASSUME NEW f \in Execs, ContainerEnds(f) \/ ContainerFails(f) PROVE FALSE
      BY <1>1, <3>1, <3>2 DEF ContainerEnds, ContainerFails
    <3>3. ASSUME Load \/ LoadErr \/ LaunchErr \/ ExecErr \/ ReadResult \/ Compiled \/ CompileError
                 \/ JudgeTest \/ Expire
          PROVE  FALSE
      BY <1>1, <3>3 DEF Load, LoadErr, LaunchErr, ExecErr, ReadResult, UseResult, Compiled,
         CompileError, JudgeTest, Expire
    <3>4. Launch
      BY <1>1, <3>2, <3>3 DEF Next, RunStep
    <3>5. n \in Execs /\ box' = [box EXCEPT ![n] = "running"]
      BY <1>1, <3>4 DEF Launch, IndInv, TypeOK
    <3>6. e = n
      BY <1>1, <3>1, <3>5
    <3> QED BY <3>4, <3>6
  <2>2. at = "exec" /\ ~expired
    BY <2>1 DEF Launch
  <2>3. answer = None
    BY <1>1, <2>2 DEF IndInv, TypeOK
  <2>4. \A f \in Execs : box[f] # "running"
    BY <1>1, <2>2 DEF IndInv, OneContainer
  <2>5. ASSUME ~Used("write"), NEW t \in Tests, t < e PROVE Graded(t, "AC")
    <3>1. t \in 1..(n - 1)
      BY <1>1, <2>1, <2>5 DEF IndInv, TypeOK
    <3> QED BY <1>1, <2>2, <2>5, <3>1 DEF IndInv, OwnResult
  <2> QED BY <2>2, <2>3, <2>4, <2>5 DEF Justified
<1>2. IndInv /\ Next => \A e \in Execs : box[e] = "none" /\ box'[e] # "none" => Justified(e)
  BY <1>1
<1> QED BY <1>2, JudgeInvariance, PTL DEF Spec

(* What is stored stays: a result row is never written twice, whatever was *)
(* lost or repeated, and once Run has returned neither its answer nor its  *)
(* rows nor the reported run time change, although a container it left     *)
(* behind may still end.                                                   *)
THEOREM ResultsAreFinal ==
  Spec => [][ /\ \A t \in Tests : rows[t] # None => rows'[t] = rows[t]
              /\ answer # None => UNCHANGED <<answer, rows, ceStored, peak, result, stdout>> ]_vars
<1>1. ASSUME IndInv, Next
      PROVE  /\ \A t \in Tests : rows[t] # None => rows'[t] = rows[t]
             /\ answer # None => UNCHANGED <<answer, rows, ceStored, peak, result, stdout>>
  <2>1. at = "returned" <=> answer # None
    BY <1>1 DEF IndInv, TypeOK
  <2>2. rows \in [Tests -> [verdict : JudgeVerdicts, runtime : Nat] \cup {None}]
    BY <1>1 DEF IndInv, TypeOK
  <2>3. CASE JudgeTest
    <3>1. at = "ran"
      BY <2>3 DEF JudgeTest
    <3>2. \E v : SaveTestResult(v)
      BY <2>3 DEF JudgeTest
    <3>3. rows' = rows \/ (rows[n] = None /\ \E r : rows' = [rows EXCEPT ![n] = r])
      BY <3>2 DEF SaveTestResult, BestEffort
    <3> QED BY <2>1, <2>2, <3>1, <3>3
  <2>4. ASSUME Load \/ LoadErr \/ Launch \/ LaunchErr \/ ExecErr \/ ReadResult \/ Compiled
               \/ CompileError
        PROVE  rows' = rows /\ at # "returned"
    BY <2>4 DEF Load, LoadErr, Launch, LaunchErr, ExecErr, ReadResult, UseResult, NoResult,
       TakeOutput, Compiled, CompileError
  <2>5. ASSUME Expire PROVE UNCHANGED <<rows, answer, ceStored, peak, result, stdout>>
    BY <2>5 DEF Expire
  <2>6. ASSUME NEW e \in Execs, ContainerEnds(e) \/ ContainerFails(e)
        PROVE  /\ UNCHANGED <<rows, answer, ceStored, peak>>
               /\ at = "returned" => UNCHANGED <<result, stdout>>
    BY <2>6 DEF ContainerEnds, ContainerFails
  <2> QED BY <1>1, <2>1, <2>3, <2>4, <2>5, <2>6 DEF Next, RunStep
<1> QED BY <1>1, JudgeInvariance, PTL DEF Spec
=============================================================================
