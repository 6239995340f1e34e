--------------------------------- MODULE JudgeRun ---------------------------------
(***************************************************************************)
(* judge.Run for one submission: load, compile if the language needs it,   *)
(* then one container per test case until the first one that is not AC.    *)
(* Executions are numbered: 0 is the compilation, t the t-th test case.    *)
(* All of them share one directory, through which DockerSandbox.Exec gets  *)
(* the runner's answer: result.json and output.txt stay there from one     *)
(* execution to the next.  The docker client is killed at the deadline of  *)
(* the job; the container is not.                                          *)
(***************************************************************************)
EXTENDS Classify

CONSTANTS
  NumTests,  \* test cases of the problem
  Expected,  \* their expected outputs
  Outputs,   \* what the runner may report of an execution
  None,      \* nothing yet
  Broken,    \* a result.json cut short
  Faults     \* bound: how often each kind of fault may strike

(* docker: docker run fails; write: the runner fails to write result.json; *)
(* read: Exec cannot read a file, because it is gone or the disk fails;    *)
(* db: a statement fails or its reply is lost.                             *)
FaultKinds == {"docker", "write", "read", "db"}

Tests == 1..NumTests
Execs == 0..NumTests

JudgeVerdicts == {"AC", "WA", "TLE", "MLE", "RE", "CE"}

ASSUME JudgeAssumption ==
  /\ NumTests \in Nat
  /\ Faults \in [FaultKinds -> Nat]
  /\ None \notin JudgeVerdicts \cup {Broken, "error"} \cup [verdict : JudgeVerdicts, runtime : Nat]
  /\ {None, Broken} \cap Outputs = {}
  /\ \A o \in Outputs :
       /\ o = [verdict |-> o.verdict, stdout |-> o.stdout,
               truncated |-> o.truncated, runtime |-> o.runtime]
       /\ o.runtime \in Nat

VARIABLES
  at,       \* where Run is
  n,        \* the execution it is at
  expired,  \* has the deadline of the job's context passed
  box,      \* the container of each execution
  result,   \* result.json in the directory: None, Broken or an output
  stdout,   \* output.txt in the directory
  out,      \* the Output that Exec returned
  peak,     \* maxRT: the longest run time so far
  rows,     \* the submission's rows of submission_test_results, by test
  ceStored, \* is compile_error set
  answer,   \* None, or what Run returned: a verdict or "error"
  did,      \* history: what each execution reported
  unread,   \* history: the executions whose output.txt Exec could not read
  faults    \* faults left

vars == <<at, n, expired, box, result, stdout, out, peak, rows, ceStored, answer, did, unread, faults>>
dirVars == <<result, stdout>>
dbVars  == <<rows, ceStored>>

Init ==
  /\ at = "load" /\ n = 0 /\ expired = FALSE
  /\ box = [e \in Execs |-> "none"]
  /\ result = None /\ stdout = <<>> /\ out = None
  /\ peak = 0 /\ rows = [t \in Tests |-> None] /\ ceStored = FALSE
  /\ answer = None
  /\ did = [e \in Execs |-> None] /\ unread = {}
  /\ faults = Faults

Fault(k) == faults[k] > 0 /\ faults' = [faults EXCEPT ![k] = @ - 1]

-----------------------------------------------------------------------------
(* Run returns; the deferred RemoveAll empties the directory.              *)
Finish(a) ==
  /\ at' = "returned" /\ answer' = a
  /\ result' = None /\ stdout' = <<>>

(* The languages table: only go has a command to compile with.             *)
FirstExec == [python |-> 1, go |-> 0]

(* Submission, language, problem and test cases are there, and so is a new *)
(* directory.                                                              *)
Load ==
  /\ at = "load" /\ ~expired /\ NumTests > 0
  /\ at' = "exec" /\ \E l \in DOMAIN FirstExec : n' = FirstExec[l]
  /\ UNCHANGED <<expired, box, dirVars, out, peak, dbVars, answer, did, unread, faults>>

(* A statement fails, the language is unknown, there is no problem or no   *)
(* test case, no directory...                                              *)
LoadErr ==
  /\ at = "load" /\ Finish("error")
  /\ UNCHANGED <<n, expired, box, out, peak, dbVars, did, unread, faults>>

(* Exec writes input.txt and starts docker run.                            *)
Launch ==
  /\ at = "exec" /\ ~expired /\ at' = "wait"
  /\ box' = [box EXCEPT ![n] = "running"]
  /\ UNCHANGED <<n, expired, dirVars, out, peak, dbVars, answer, did, unread, faults>>

LaunchErr ==
  /\ at = "exec" /\ Finish("error")
  /\ \/ expired /\ UNCHANGED faults
     \/ Fault("docker")
  /\ UNCHANGED <<n, expired, box, out, peak, dbVars, did, unread>>

(* The container ends by itself: the runner has captured the output and    *)
(* reported.  Its write may fail to open the file, or leave it cut short.  *)
ContainerEnds(e) ==
  /\ box[e] = "running" /\ box' = [box EXCEPT ![e] = "exited"]
  /\ \E o \in Outputs :
       /\ did' = [did EXCEPT ![e] = o]
       /\ IF at = "returned" THEN UNCHANGED <<dirVars, faults>>
          ELSE /\ stdout' = o.stdout
               /\ \/ result' = o /\ UNCHANGED faults
                  \/ result' \in {result, Broken} /\ Fault("write")
  /\ UNCHANGED <<at, n, expired, out, peak, dbVars, answer, unread>>

(* It is killed, or docker fails: docker run exits with an error.          *)
ContainerFails(e) ==
  /\ box[e] = "running" /\ box' = [box EXCEPT ![e] = "failed"]
  /\ Fault("docker")
  /\ UNCHANGED <<at, n, expired, dirVars, out, peak, dbVars, answer, did, unread>>

ExecErrWaits ==            \* mutant: exec.Command instead of CommandContext
  /\ at = "wait" /\ box[n] = "failed"
  /\ Finish("error")
  /\ UNCHANGED <<n, expired, box, out, peak, dbVars, did, unread, faults>>

(* The context kills the docker client; the container goes on.             *)
ExecErr ==
  /\ at = "wait" /\ (expired \/ box[n] = "failed")
  /\ Finish("error")
  /\ UNCHANGED <<n, expired, box, out, peak, dbVars, did, unread, faults>>

(* Without a result.json to parse Exec fails.                              *)
NoResult ==
  /\ Finish("error") /\ UNCHANGED <<out, unread>>
  /\ \/ result \in {None, Broken} /\ UNCHANGED faults
     \/ Fault("read")

(* The error of reading output.txt is dropped: Exec goes on with what it   *)
(* got of the text, nothing if the file is gone.                           *)
TakeOutput ==
  /\ result \notin {None, Broken}
  /\ \/ out' = [result EXCEPT !.stdout = stdout] /\ UNCHANGED <<unread, faults>>
     \/ /\ \E text \in Prefixes(stdout) : out' = [result EXCEPT !.stdout = text]
        /\ unread' = unread \cup {n} /\ Fault("read")
  /\ at' = IF n = 0 THEN "compiled" ELSE "ran"
  /\ UNCHANGED <<dirVars, answer>>

(* Exec reads both files.                                                  *)
UseResult ==
  /\ NoResult \/ TakeOutput
  /\ UNCHANGED <<n, expired, box, peak, dbVars, did>>

ReadAnyResult ==           \* mutant: the error of docker run is only logged
  at = "wait" /\ box[n] \in {"exited", "failed"} /\ UseResult

ReadResultEarly ==         \* mutant: cmd.Start instead of cmd.Run
  at = "wait" /\ box[n] \in {"running", "exited"} /\ UseResult

ReadResult == at = "wait" /\ box[n] = "exited" /\ UseResult

NextExec ==
  /\ at' = "exec" /\ n' = n + 1
  /\ UNCHANGED <<dirVars, answer>>

Compiled ==
  /\ at = "compiled" /\ out.verdict = "OK" /\ NextExec
  /\ UNCHANGED <<expired, box, out, peak, dbVars, did, unread, faults>>

(* A statement whose error is only logged: it takes effect, fails, or      *)
(* takes effect and its reply is lost.                                     *)
BestEffort(Effect, Skip) ==
  \/ ~expired /\ Effect /\ UNCHANGED faults
  \/ expired /\ Skip /\ UNCHANGED faults
  \/ Fault("db") /\ (Effect \/ Skip)

CompileError ==
  /\ at = "compiled" /\ out.verdict # "OK"
  /\ BestEffort(ceStored' = TRUE, UNCHANGED ceStored)
  /\ Finish("CE")
  /\ UNCHANGED <<n, expired, box, out, peak, rows, did, unread>>

TestRow(v) == [verdict |-> v, runtime |-> out.runtime]

(* ON CONFLICT DO NOTHING: a row that is there stays.                      *)
SaveTestResult(v) ==
  BestEffort(rows' = IF rows[n] = None THEN [rows EXCEPT ![n] = TestRow(v)] ELSE rows,
             UNCHANGED rows)

JudgeTestOneMore ==        \* mutant: off by one at the last test
  LET v == classify(out, Expected[n]) IN
  /\ at = "ran"
  /\ peak' = Max({peak, out.runtime})
  /\ SaveTestResult(v)
  /\ IF v = "AC" /\ n <= NumTests THEN NextExec ELSE Finish(v) /\ UNCHANGED n
  /\ UNCHANGED <<expired, box, out, ceStored, did, unread>>

JudgeTestPeakOfAC ==       \* mutant: the maximum skips the failing test
  LET v == classify(out, Expected[n]) IN
  /\ at = "ran"
  /\ peak' = IF v = "AC" THEN Max({peak, out.runtime}) ELSE peak
  /\ SaveTestResult(v)
  /\ IF v = "AC" /\ n < NumTests THEN NextExec ELSE Finish(v) /\ UNCHANGED n
  /\ UNCHANGED <<expired, box, out, ceStored, did, unread>>

JudgeTest ==
  LET v == classify(out, Expected[n]) IN
  /\ at = "ran"
  /\ peak' = Max({peak, out.runtime})
  /\ SaveTestResult(v)
  /\ IF v = "AC" /\ n < NumTests THEN NextExec ELSE Finish(v) /\ UNCHANGED n
  /\ UNCHANGED <<expired, box, out, ceStored, did, unread>>

(* The deadline of the job: two minutes after worker.process began.        *)
Expire ==
  /\ ~expired /\ expired' = TRUE /\ at # "returned"
  /\ UNCHANGED <<at, n, box, dirVars, out, peak, dbVars, answer, did, unread, faults>>

RunStep ==
  \/ Load \/ LoadErr \/ Launch \/ LaunchErr \/ ExecErr \/ ReadResult
  \/ Compiled \/ CompileError \/ JudgeTest

Next == RunStep \/ Expire \/ \E e \in Execs : ContainerEnds(e) \/ ContainerFails(e)

Spec == Init /\ [][Next]_vars

(* Run keeps running and the deadline comes.  A container may hang.        *)
FairSpec == Spec /\ WF_vars(RunStep) /\ WF_vars(Expire)

-----------------------------------------------------------------------------
Labels == {"load", "exec", "wait", "compiled", "ran", "returned"}

(* The shape of the state.                                                 *)
TypeOK ==
  /\ at \in Labels /\ n \in Execs /\ expired \in BOOLEAN
  /\ box \in [Execs -> {"none", "running", "exited", "failed"}]
  /\ result \in Outputs \cup {None, Broken}
  /\ at = "compiled" => n = 0
  /\ at = "ran" => n \in Tests
  /\ peak \in Nat /\ ceStored \in BOOLEAN
  /\ rows \in [Tests -> [verdict : JudgeVerdicts, runtime : Nat] \cup {None}]
  /\ answer \in JudgeVerdicts \cup {None, "error"}
  /\ at = "returned" <=> answer # None
  /\ did \in [Execs -> Outputs \cup {None}] /\ unread \subseteq Execs
  /\ faults \in [FaultKinds -> Nat]

Used(k) == faults[k] < Faults[k]

(* What Exec may make of the report of execution e: a failed read costs it *)
(* the end of the text, and nothing else.                                  *)
Readings(e) ==
  {did[e]} \cup
  IF e \in unread THEN {[did[e] EXCEPT !.stdout = text] : text \in Prefixes(did[e].stdout)}
  ELSE {}

Graded(t, v) == did[t] # None /\ \E o \in Readings(t) : classify(o, Expected[t]) = v

(* A verdict is earned by what the executions really reported: CE by the   *)
(* compilation, AC by every test, anything else by the first test that is  *)
(* not AC, after which nothing runs.  Two failures reach the verdict.  A   *)
(* result.json the runner could not write lets Exec take the previous      *)
(* execution's for an answer: then nothing is claimed.  An output.txt that *)
(* Exec could not read lets it compare a shorter text, so that AC and WA   *)
(* are earned by the beginning of an output only; CE, TLE, MLE and RE are  *)
(* not touched, and AC still needs every test to end well and uncut.       *)
EarnedBy(v) ==
  CASE v = "CE" -> did[0] # None /\ did[0].verdict # "OK" /\ \A t \in Tests : did[t] = None
    [] v = "AC" -> \A t \in Tests : Graded(t, "AC")
    [] OTHER -> \E t \in Tests :
         /\ Graded(t, v)
         /\ \A u \in 1..(t - 1) : Graded(u, "AC")
         /\ \A u \in (t + 1)..NumTests : did[u] = None

VerdictIsEarned == answer \in JudgeVerdicts /\ ~Used("write") => EarnedBy(answer)

(* What the user is shown fits together although each row is saved by a    *)
(* statement of its own that may be lost: no row ran longer than the run   *)
(* time reported, a row that is not AC is the verdict; unless a statement  *)
(* was lost, the run time reported is that of a row and an accepted        *)
(* submission has every row.                                               *)
Saved == {t \in Tests : rows[t] # None}

RowsFitAnswer ==
  /\ \A t \in Saved : rows[t].runtime <= peak
  /\ ~Used("db") /\ ~expired => peak = 0 \/ \E t \in Saved : rows[t].runtime = peak
  /\ answer \in JudgeVerdicts =>
       /\ \A t \in Saved : rows[t].verdict \in {"AC", answer}
       /\ answer = "CE" => Saved = {}
       /\ ~Used("db") /\ ~expired =>
            /\ answer = "AC" => Saved = Tests
            /\ answer \notin {"AC", "CE"} => \E t \in Saved : rows[t].verdict = answer
            /\ answer = "CE" => ceStored

(* Two containers never share the directory, and one that is left behind   *)
(* when Run returns is the doing of the deadline.                          *)
OneContainer ==
  \A e \in Execs : box[e] = "running" =>
    e = n /\ (at = "wait" \/ (at = "returned" /\ answer = "error" /\ expired))

(* Why they hold.  Executions are begun in order, one container after the  *)
(* other.                                                                  *)
Busy == {"exec", "wait", "compiled", "ran"}

InOrder ==
  /\ at \in {"wait", "compiled", "ran"} => box[n] # "none"
  /\ at \in {"compiled", "ran"} => box[n] = "exited"
  /\ \A e \in Execs :
       /\ e > n \/ (at \in {"load", "exec"} /\ e = n) => box[e] = "none"
       /\ box[e] \in {"none", "running"} => did[e] = None
  /\ at = "load" => n = 0
  /\ at \in Busy => NumTests > 0

(* As long as the runner could write, the files are those of the present   *)
(* execution, what Exec returns is what it could read of them, and every   *)
(* test passed so far was accepted on that.                                *)
OwnResult ==
  ~Used("write") =>
    /\ at = "wait" /\ box[n] = "exited" =>
         did[n] # None /\ result = did[n] /\ stdout = did[n].stdout
    /\ at \in {"compiled", "ran"} => did[n] # None /\ out \in Readings(n)
    /\ at \in Busy => \A t \in 1..(n - 1) : Graded(t, "AC")

(* Rows are written in order, while every test so far was accepted.        *)
RowsInOrder ==
  /\ at \in Busy =>
       /\ \A t \in Saved : t < n /\ rows[t].verdict = "AC"
       /\ ~Used("db") /\ ~expired => \A t \in 1..(n - 1) : t \in Saved
  /\ at = "load" => Saved = {}
  /\ at \in {"compiled", "ran"} => out.runtime \in Nat

FaultsAccounted == \A k \in FaultKinds : faults[k] <= Faults[k]

(* The inductive invariant of one run: what is above, and why it lasts.    *)
IndInv ==
  /\ TypeOK /\ FaultsAccounted /\ OneContainer /\ InOrder
  /\ OwnResult /\ VerdictIsEarned /\ RowsInOrder /\ RowsFitAnswer

(* Whatever the submitted program does, Run returns: a container that      *)
(* hangs is abandoned at the deadline.                                     *)
RunReturns == <>(at = "returned")
=============================================================================
