---------------------------------- MODULE Runner ----------------------------------
(***************************************************************************)
(* The runner, first process of a sandbox container: it starts the command *)
(* in a process group of its own, copies its output to a file of bounded   *)
(* size, kills the group when the wall clock runs out and reports how the  *)
(* command ended.  The goroutine that copies, the timer's callback and run *)
(* itself share memory without a lock.                                     *)
(***************************************************************************)
EXTENDS Naturals

CONSTANTS
  Limit,     \* bytes of output that are kept: output-kb
  MaxOutput  \* bound: bytes a command writes

ASSUME RunnerAssumption == Limit \in Nat /\ MaxOutput \in Nat

VARIABLES
  prog,      \* the command: "unborn", "running", or how it ended
  helper,    \* a process it leaves behind, holding its standard output
  produced,  \* bytes written by the two
  copied,    \* bytes the copying goroutine has read
  copier,    \* that goroutine: "on", or "off" after a write error
  written, truncated,  \* the fields of cappedWriter
  timer,     \* armed, stopped, or where its callback is
  timedOut,  \* the variable shared by the callback and run
  main,      \* where run is
  verdict    \* None before there is one

procVars   == <<prog, helper, produced>>
outputVars == <<copied, copier, written, truncated>>
timerVars  == <<timer, timedOut>>
mainVars   == <<main, verdict>>
vars == <<procVars, outputVars, timerVars, mainVars>>

Ended == {"zero", "nonzero", "hog", "killed"}  \* hog: peak RSS at the limit
Alive == prog = "running" \/ helper = "running"

Smaller(i, j) == IF i < j THEN i ELSE j

Init ==
  /\ prog = "unborn" /\ helper = "none" /\ produced = 0
  /\ copied = 0 /\ copier = "on" /\ written = 0 /\ truncated = FALSE
  /\ timer = "off" /\ timedOut = FALSE
  /\ main = "start" /\ verdict = "none"

-----------------------------------------------------------------------------
(* The command and its group.                                              *)

Produce ==
  /\ Alive /\ produced < MaxOutput /\ produced' = produced + 1
  /\ UNCHANGED <<prog, helper, outputVars, timerVars, mainVars>>

Spawn ==
  /\ prog = "running" /\ helper = "none" /\ helper' = "running"
  /\ UNCHANGED <<prog, produced, outputVars, timerVars, mainVars>>

HelperEnds ==
  /\ helper = "running" /\ helper' = "ended"
  /\ UNCHANGED <<prog, produced, outputVars, timerVars, mainVars>>

ProgEnds ==
  /\ prog = "running" /\ prog' \in {"zero", "nonzero", "hog"}
  /\ UNCHANGED <<helper, produced, outputVars, timerVars, mainVars>>

-----------------------------------------------------------------------------
(* The copying goroutine of cmd.Start: cappedWriter.Write of k bytes.      *)

WriteCountsFull(k) ==       \* mutant: a file that is just full counts as cut
  LET room == Limit - written IN
  /\ written' = written + Smaller(k, room)
  /\ truncated' = (truncated \/ k >= room)

Write(k) ==
  LET room == Limit - written IN
  /\ written' = written + Smaller(k, room)
  /\ truncated' = (truncated \/ k > room)

Copy ==
  /\ copier = "on"
  /\ \E k \in 1..(produced - copied) : copied' = copied + k /\ Write(k)
  /\ UNCHANGED <<procVars, copier, timerVars, mainVars>>

WritePartly(k) ==           \* the file takes fewer bytes than there is room for
  LET room == Limit - written IN
  /\ \E j \in 0..(Smaller(k, room) - 1) : written' = written + j
  /\ truncated' = (truncated \/ k > room)

(* The file cannot be written: io.Copy gives up and closes the pipe.  A    *)
(* full file is not written to, and cannot fail.                           *)
CopyErr ==
  /\ copier = "on" /\ copier' = "off"
  /\ \E k \in 1..(produced - copied) : copied' = copied + k /\ WritePartly(k)
  /\ UNCHANGED <<procVars, timerVars, mainVars>>

-----------------------------------------------------------------------------
(* The timer and its callback.                                             *)

Fire ==
  /\ timer = "armed" /\ timer' = "flag"
  /\ UNCHANGED <<procVars, outputVars, timedOut, mainVars>>

LeaderDies ==               \* mutant: kill(pid) instead of kill(-pid)
  /\ prog' = IF prog = "running" THEN "killed" ELSE prog
  /\ UNCHANGED <<helper, produced>>

GroupDies ==
  /\ prog' = IF prog = "running" THEN "killed" ELSE prog
  /\ helper' = IF helper = "running" THEN "ended" ELSE helper
  /\ UNCHANGED produced

SetFlag ==
  /\ timer = "flag" /\ timer' = "kill" /\ timedOut' = TRUE
  /\ UNCHANGED <<procVars, outputVars, mainVars>>

KillFirst ==                \* mutant: the flag is set after the kill
  \/ /\ timer = "flag" /\ timer' = "kill" /\ GroupDies
     /\ UNCHANGED <<timedOut, outputVars, mainVars>>
  \/ /\ timer = "kill" /\ timer' = "over" /\ timedOut' = TRUE
     /\ UNCHANGED <<procVars, outputVars, mainVars>>

Kill ==
  /\ timer = "kill" /\ timer' = "over" /\ GroupDies
  /\ UNCHANGED <<timedOut, outputVars, mainVars>>

Callback == SetFlag \/ Kill

-----------------------------------------------------------------------------
(* run.                                                                    *)

(* cmd.Start and AfterFunc.                                                *)
Start ==
  /\ main = "start" /\ main' = "wait"
  /\ prog' = "running" /\ timer' = "armed"
  /\ UNCHANGED <<helper, produced, outputVars, timedOut, verdict>>

(* No command, no output file, or the command does not start.              *)
StartErr ==
  /\ main = "start" /\ main' = "done" /\ verdict' = "RE"
  /\ UNCHANGED <<procVars, outputVars, timerVars>>

Copied == copier = "off" \/ (~Alive /\ copied = produced)

WaitForExitOnly ==          \* mutant: cmd.Process.Wait instead of cmd.Wait
  /\ main = "wait" /\ prog \in Ended /\ main' = "stop"
  /\ UNCHANGED <<procVars, outputVars, timerVars, verdict>>

(* cmd.Wait: the command has ended and its output has been copied up to    *)
(* the end, which comes when nobody holds the pipe any more.               *)
Wait ==
  /\ main = "wait" /\ prog \in Ended /\ Copied /\ main' = "stop"
  /\ UNCHANGED <<procVars, outputVars, timerVars, verdict>>

(* timer.Stop does not wait for a callback that has begun.                 *)
Stop ==
  /\ main = "stop" /\ main' = "switch"
  /\ timer' = IF timer = "armed" THEN "stopped" ELSE timer
  /\ UNCHANGED <<procVars, outputVars, timedOut, verdict>>

Decide ==
  /\ main = "switch" /\ main' = "done"
  /\ verdict' = CASE timedOut       -> "TLE"
                  [] prog = "hog"   -> "MLE"
                  [] prog = "zero"  -> "OK"
                  [] OTHER          -> "RE"
  /\ UNCHANGED <<procVars, outputVars, timerVars>>

Run == Start \/ StartErr \/ Wait \/ Stop \/ Decide

Command == Produce \/ Spawn \/ HelperEnds \/ ProgEnds

Next == Run \/ Fire \/ Callback \/ Copy \/ CopyErr \/ Command

Spec == Init /\ [][Next]_vars

(* The runner's goroutines run and time passes; the command may hang.      *)
FairSpec ==
  Spec /\ WF_vars(Run) /\ WF_vars(Fire) /\ WF_vars(Callback) /\ WF_vars(Copy)

-----------------------------------------------------------------------------
(* The shape of the state.                                                 *)
TypeOK ==
  /\ prog \in {"unborn", "running"} \cup Ended /\ helper \in {"none", "running", "ended"}
  /\ produced \in 0..MaxOutput /\ copied \in 0..produced
  /\ copier \in {"on", "off"}
  /\ written \in 0..Limit /\ truncated \in BOOLEAN
  /\ timer \in {"off", "armed", "stopped", "flag", "kill", "over"} /\ timedOut \in BOOLEAN
  /\ main \in {"start", "wait", "stop", "switch", "done"}
  /\ verdict \in {"none", "OK", "TLE", "MLE", "RE"}

(* A command the timer killed is reported as TLE, never as the crash its   *)
(* signal looks like, although callback and run race on timedOut; and TLE  *)
(* is never reported before the wall clock ran out.                        *)
KilledIsTLE ==
  main = "done" => /\ prog = "killed" => verdict = "TLE"
                   /\ verdict = "TLE" => timer \in {"kill", "over"}

(* A verdict is given on the whole output: all that the command and what   *)
(* it left behind wrote is in the file, or the file is full and truncated  *)
(* says so; a file that is exactly full is not truncated.  When writing    *)
(* the file failed, which run does not report, the file holds a beginning  *)
(* of the output, and truncated is still not set without cause.            *)
OutputIsWhole ==
  main = "done" =>
    /\ written <= Smaller(produced, Limit)
    /\ truncated => produced > Limit
    /\ copier = "on" => /\ written = Smaller(produced, Limit)
                        /\ produced > Limit => truncated

(* Why both hold: the flag precedes the kill and the kill precedes the end *)
(* of what it kills, the file mirrors what has been copied as long as it   *)
(* can be written, and once Wait has returned nobody is left to write.     *)
FlagBeforeKill ==
  /\ timedOut <=> timer \in {"kill", "over"}
  /\ prog = "killed" => timer = "over"
  /\ verdict = "TLE" => timedOut
  /\ main = "done" /\ prog = "killed" => verdict = "TLE"

FileMirrorsCopy ==
  /\ written <= Smaller(copied, Limit)
  /\ truncated => copied > Limit
  /\ copier = "on" => /\ written = Smaller(copied, Limit)
                      /\ copied > Limit => truncated

NobodyLeft ==
  /\ prog = "unborn" =>
       helper = "none" /\ produced = 0 /\ timer = "off" /\ main \in {"start", "done"}
  /\ main = "start" => prog = "unborn"
  /\ main \in {"stop", "switch", "done"} =>
       /\ prog # "running"
       /\ copier = "on" => ~Alive /\ copied = produced

IndInv == TypeOK /\ FlagBeforeKill /\ FileMirrorsCopy /\ NobodyLeft

(* Whatever the command does, also when it leaves a process behind that    *)
(* holds its output, run comes to its verdict.                             *)
RunEnds == <>(main = "done")
=============================================================================
