--------------------------- MODULE SubmissionPipeline ---------------------------
(***************************************************************************)
(* How a submission travels through GoSpoc: the API persists it as a       *)
(* "queued" row and appends an entry to a Redis stream, consumer           *)
(* goroutines of the worker processes read entries, claim rows, judge and  *)
(* settle them, and the API's sweeper re-appends entries for rows that     *)
(* stay queued.  Postgres rows survive every crash; the stream and its     *)
(* consumer group live in a Redis without a volume; processes lose their   *)
(* memory.  One action per statement sent to Postgres or Redis.            *)
(***************************************************************************)
EXTENDS Naturals, Sequences, FiniteSets

CONSTANTS
  Submissions,  \* submission ids
  Consumers,    \* consumer goroutines of all worker processes
  Workers,      \* worker processes
  WorkerOf,     \* the process a consumer runs in
  Verdicts,     \* what judge.Run may report (AC, WA, TLE, MLE, RE, CE)
  None,         \* no job, no report, SQL NULL
  MaxStream,    \* bound: undelivered entries the stream may hold
  Budget        \* bound: how often each kind of fault may strike

(* crash: a process dies; db: a statement fails or its reply is lost;      *)
(* redis: the same for a Redis command; deadline: a job outlives           *)
(* opTimeout; wipe: Redis restarts empty.                                  *)
FaultKinds == {"crash", "db", "redis", "deadline", "wipe"}

ASSUME ConstantsAssumption ==
  /\ Submissions \subseteq Nat
  /\ WorkerOf \in [Consumers -> Workers]
  /\ None \notin Submissions \cup Verdicts
  /\ MaxStream \in Nat \ {0}
  /\ Budget \in [FaultKinds -> Nat]

VARIABLES
  status, verdict,   \* the columns of a row; status "none": no row yet
  old,               \* queued rows older than the sweeper's staleAfter
  stream,            \* entries not yet delivered to the group
  group,             \* does the consumer group exist
  stranded,          \* rows named by pending entries nobody works on
  api,               \* the API process
  creating,          \* rows whose Create handler has not enqueued them yet
  sweep,             \* ids the running sweep has still to enqueue
  worker, pc, job,   \* worker processes, their consumers, the job in hand
  pending,           \* consumers whose entry in hand is in the pending list
  report,            \* the verdict in hand
  expired,           \* consumers whose job context passed its deadline
  budget             \* faults left

rowVars    == <<status, verdict, old>>
queueVars  == <<stream, group, stranded>>
apiVars    == <<api, creating, sweep>>
workerVars == <<worker, pc, job, pending, report, expired>>
vars == <<rowVars, queueVars, apiVars, workerVars, budget>>

RowStates  == {"none", "queued", "running", "done", "failed"}
ProcStates == {"down", "up", "stopping"}
Settled    == {"done", "failed"}

(* The calls of worker.process, in the order it makes them.  A consumer    *)
(* in Owning has claimed its row and not yet tried to settle it.           *)
Owning     == {"pubRunning", "judge", "markDone", "markFailed"}
Processing == Owning \cup {"claim", "pubDone", "pubFailed", "ack"}
Labels     == Processing \cup {"exited", "top", "reading"}

Owns(c, s) == pc[c] \in Owning /\ job[c] = s

Init ==
  /\ status = [s \in Submissions |-> "none"]
  /\ verdict = [s \in Submissions |-> None]
  /\ old = {}
  /\ stream = <<>> /\ group = FALSE /\ stranded = {}
  /\ api = "down" /\ creating = {} /\ sweep = {}
  /\ worker = [p \in Workers |-> "down"]
  /\ pc = [c \in Consumers |-> "exited"]
  /\ job = [c \in Consumers |-> None]
  /\ report = [c \in Consumers |-> None]
  /\ pending = {} /\ expired = {}
  /\ budget = Budget

Fault(k) == budget[k] > 0 /\ budget' = [budget EXCEPT ![k] = @ - 1]

-----------------------------------------------------------------------------
(* Postgres: the UPDATE statements and the guards of their WHERE clauses.  *)

ClaimableAgain(s) == status[s] \in {"queued", "running"}  \* mutant: re-claims a running row
ClaimableEver(s)  == status[s] # "none"                   \* mutant: no status guard

Claimable(s) == status[s] = "queued"

(* Every INSERT and UPDATE sets updated_at to the present.                 *)
SetRow(s, st) == status' = [status EXCEPT ![s] = st] /\ old' = old \ {s}

MarkRunning(s) == Claimable(s) /\ SetRow(s, "running") /\ UNCHANGED verdict

MarkDoneKeepsVerdict(s, v) ==   \* mutant: the verdict column is forgotten
  IF status[s] = "running" THEN SetRow(s, "done") /\ UNCHANGED verdict
                           ELSE UNCHANGED rowVars

MarkDone(s, v) ==
  IF status[s] = "running"
    THEN SetRow(s, "done") /\ verdict' = [verdict EXCEPT ![s] = v]
    ELSE UNCHANGED rowVars

MarkFailedRequeues(s) ==        \* mutant: an infrastructure error retries the row
  SetRow(s, "queued") /\ UNCHANGED verdict

MarkFailed(s) ==
  IF status[s] = "running" THEN SetRow(s, "failed") /\ UNCHANGED verdict
                           ELSE UNCHANGED rowVars

StaleUndelivered ==             \* mutant: trusts the pending list to be retried
  {s \in old : status[s] = "queued" /\ s \notin stranded}

StaleQueued == {s \in old : status[s] = "queued"}

-----------------------------------------------------------------------------
(* Redis.  A group is created at "$": it is never delivered an entry that  *)
(* was added while it did not exist.                                       *)

XAdd(s) ==
  /\ Len(stream) < MaxStream
  /\ stream' = IF group THEN Append(stream, s) ELSE stream

CreateGroup == group' = TRUE /\ UNCHANGED <<stream, stranded>>

Leave(c) ==  \* no XACK: a pending entry stays pending, for nobody
  stranded' = IF c \in pending THEN stranded \cup {job[c]} ELSE stranded

(* Redis restarts without its data: stream, group and pending list vanish. *)
Wipe ==
  /\ Fault("wipe")
  /\ stream' = <<>> /\ group' = FALSE /\ stranded' = {} /\ pending' = {}
  /\ UNCHANGED <<rowVars, apiVars, worker, pc, job, report, expired>>

-----------------------------------------------------------------------------
(* The API process: main, the Create handler, the sweeper.                 *)

StartApi ==
  /\ api = "down" /\ api' = "up"
  /\ CreateGroup
  /\ UNCHANGED <<rowVars, creating, sweep, workerVars, budget>>

StopApi ==
  /\ api = "up" /\ api' = "stopping"
  /\ UNCHANGED <<rowVars, queueVars, creating, sweep, workerVars, budget>>

ApiGone ==
  /\ api' = "down" /\ creating' = {} /\ sweep' = {}
  /\ UNCHANGED <<rowVars, queueVars, workerVars>>

(* Shutdown returns once the handlers have, or after ten seconds.          *)
ExitApi == api = "stopping" /\ ApiGone /\ UNCHANGED budget

CrashApi == api # "down" /\ ApiGone /\ Fault("crash")

Insert(s) ==
  /\ api # "down" /\ status[s] = "none"
  /\ SetRow(s, "queued")
  /\ UNCHANGED <<verdict, queueVars, api, sweep, workerVars>>

Create(s) ==
  /\ Insert(s)
  /\ creating' = creating \cup {s}
  /\ UNCHANGED budget

(* The INSERT commits but the handler sees an error: a 500, no enqueue.    *)
CreateErr(s) ==
  /\ Insert(s)
  /\ Fault("db") /\ UNCHANGED creating

EnqueueNew(s) ==
  /\ s \in creating /\ creating' = creating \ {s}
  /\ XAdd(s)
  /\ UNCHANGED <<rowVars, group, stranded, api, sweep, workerVars, budget>>

(* Best effort: the error is logged, the client still gets its 202.        *)
EnqueueNewErr(s) ==
  /\ s \in creating /\ creating' = creating \ {s}
  /\ Fault("redis")
  /\ UNCHANGED <<rowVars, queueVars, api, sweep, workerVars>>

(* Time passes: updated_at falls behind now - staleAfter.                  *)
Age(s) ==
  /\ status[s] = "queued" /\ s \notin old
  /\ old' = old \cup {s}
  /\ UNCHANGED <<status, verdict, queueVars, apiVars, workerVars, budget>>

SweepList ==
  /\ api = "up" /\ sweep = {}
  /\ StaleQueued # {} /\ sweep' = StaleQueued
  /\ UNCHANGED <<rowVars, queueVars, api, creating, workerVars, budget>>

NextSwept(s) == s \in sweep /\ \A t \in sweep : s <= t

SweepEnqueue(s) ==
  /\ api = "up" /\ NextSwept(s) /\ sweep' = sweep \ {s}
  /\ XAdd(s)
  /\ UNCHANGED <<rowVars, group, stranded, api, creating, workerVars, budget>>

(* XADD fails, at once when the context is cancelled: logged, on to the    *)
(* next id.                                                                *)
SweepSkip(s) ==
  /\ NextSwept(s) /\ sweep' = sweep \ {s}
  /\ \/ api = "stopping" /\ UNCHANGED budget
     \/ api = "up" /\ Fault("redis")
  /\ UNCHANGED <<rowVars, queueVars, api, creating, workerVars>>

-----------------------------------------------------------------------------
(* A worker process: main, Worker.Run and its consumers.                   *)

ConsumersOf(p) == {c \in Consumers : WorkerOf[c] = p}

StartWorker(p) ==
  /\ worker[p] = "down" /\ worker' = [worker EXCEPT ![p] = "up"]
  /\ CreateGroup
  /\ pc' = [c \in Consumers |-> IF c \in ConsumersOf(p) THEN "top" ELSE pc[c]]
  /\ UNCHANGED <<rowVars, apiVars, job, pending, report, expired, budget>>

(* The memory of p is gone; what its consumers held stays pending.         *)
ConsumersGone(p) ==
  LET gone == ConsumersOf(p) IN
  /\ pc'  = [c \in Consumers |-> IF c \in gone THEN "exited" ELSE pc[c]]
  /\ job' = [c \in Consumers |-> IF c \in gone THEN None ELSE job[c]]
  /\ report' = [c \in Consumers |-> IF c \in gone THEN None ELSE report[c]]
  /\ stranded' = stranded \cup {job[c] : c \in gone \cap pending}
  /\ pending' = pending \ gone /\ expired' = expired \ gone

(* mutant: the shutdown cancels the jobs in hand as well                   *)
StopWorkerCancelsJobs(p) ==
  /\ worker[p] = "up" /\ worker' = [worker EXCEPT ![p] = "stopping"]
  /\ ConsumersGone(p)
  /\ UNCHANGED <<rowVars, stream, group, apiVars, budget>>

(* SIGTERM cancels the context of Run; process uses one of its own.        *)
StopWorker(p) ==
  /\ worker[p] = "up" /\ worker' = [worker EXCEPT ![p] = "stopping"]
  /\ UNCHANGED <<rowVars, queueVars, apiVars, pc, job, pending, report, expired, budget>>

(* wg.Wait: the process ends once every consumer has returned.             *)
ExitWorker(p) ==
  /\ worker[p] = "stopping" /\ worker' = [worker EXCEPT ![p] = "down"]
  /\ \A c \in ConsumersOf(p) : pc[c] = "exited"
  /\ UNCHANGED <<rowVars, queueVars, apiVars, pc, job, pending, report, expired, budget>>

CrashWorker(p) ==
  /\ worker[p] # "down" /\ worker' = [worker EXCEPT ![p] = "down"]
  /\ Fault("crash") /\ ConsumersGone(p)
  /\ UNCHANGED <<rowVars, stream, group, apiVars>>

GoTo(c, l) == pc' = [pc EXCEPT ![c] = l]

ReturnKeepsJob(c) ==       \* mutant: the next read starts with the old job
  /\ GoTo(c, "top")
  /\ UNCHANGED job /\ report' = [report EXCEPT ![c] = None]
  /\ pending' = pending \ {c} /\ expired' = expired \ {c}

(* process returns: nothing in hand, back to the top of the loop.          *)
Return(c) ==
  /\ GoTo(c, "top")
  /\ job' = [job EXCEPT ![c] = None] /\ report' = [report EXCEPT ![c] = None]
  /\ pending' = pending \ {c} /\ expired' = expired \ {c}

LoopTopIgnoresStop(c) ==   \* mutant: the loop never looks at its context
  /\ pc[c] = "top" /\ GoTo(c, "reading")
  /\ UNCHANGED <<rowVars, queueVars, apiVars, worker, job, pending, report, expired, budget>>

LoopTop(c) ==
  /\ pc[c] = "top"
  /\ GoTo(c, IF worker[WorkerOf[c]] = "up" THEN "reading" ELSE "exited")
  /\ UNCHANGED <<rowVars, queueVars, apiVars, worker, job, pending, report, expired, budget>>

(* ErrNoMessage after the block, NOGROUP, or a cancelled context.          *)
ReadNothing(c) ==
  /\ pc[c] = "reading" /\ GoTo(c, "top")
  /\ stream = <<>> \/ worker[WorkerOf[c]] = "stopping"
  /\ UNCHANGED <<rowVars, queueVars, apiVars, worker, job, pending, report, expired, budget>>

Deliver(c) ==
  /\ pc[c] = "reading" /\ stream # <<>> /\ GoTo(c, "claim")
  /\ job' = [job EXCEPT ![c] = Head(stream)] /\ stream' = Tail(stream)
  /\ pending' = pending \cup {c}
  /\ UNCHANGED <<rowVars, group, stranded, apiVars, worker, report, expired, budget>>

(* XREADGROUP delivered the entry, but the reply is lost.                  *)
ReadErr(c) ==
  /\ pc[c] = "reading" /\ stream # <<>> /\ GoTo(c, "top")
  /\ Fault("redis")
  /\ stream' = Tail(stream) /\ stranded' = stranded \cup {Head(stream)}
  /\ UNCHANGED <<rowVars, group, apiVars, worker, job, pending, report, expired>>

ClaimWon(c) ==
  /\ pc[c] = "claim" /\ c \notin expired /\ GoTo(c, "pubRunning")
  /\ MarkRunning(job[c])
  /\ UNCHANGED <<queueVars, apiVars, worker, job, pending, report, expired, budget>>

ClaimRefused(c) ==
  /\ pc[c] = "claim" /\ c \notin expired /\ GoTo(c, "ack")
  /\ ~Claimable(job[c])
  /\ UNCHANGED <<rowVars, queueVars, apiVars, worker, job, pending, report, expired, budget>>

(* A statement whose error the caller sees: refused at once when the       *)
(* deadline has passed, otherwise lost before or after it took effect.     *)
Fails(c, Effect) ==
  \/ c \in expired /\ UNCHANGED <<rowVars, budget>>
  \/ Fault("db") /\ (Effect \/ UNCHANGED rowVars)

Nack(c) == Leave(c) /\ Return(c)

ClaimErrAcks(c) ==         \* mutant: a failed claim is taken for a refused one
  /\ pc[c] = "claim" /\ GoTo(c, "ack")
  /\ Fails(c, MarkRunning(job[c]))
  /\ UNCHANGED <<queueVars, apiVars, worker, job, pending, report, expired>>

ClaimErr(c) ==
  /\ pc[c] = "claim" /\ Nack(c)
  /\ Fails(c, MarkRunning(job[c]))
  /\ UNCHANGED <<stream, group, apiVars, worker>>

(* publish logs an error and goes on: the pipeline never depends on it.    *)
AfterPublish == [pubRunning |-> "judge", pubDone |-> "ack", pubFailed |-> "ack"]

PublishCall(c) ==
  /\ pc[c] \in DOMAIN AfterPublish /\ GoTo(c, AfterPublish[pc[c]])
  /\ UNCHANGED <<rowVars, queueVars, apiVars, worker, job, pending, report, expired>>

Publish(c) == PublishCall(c) /\ c \notin expired /\ UNCHANGED budget

PublishErr(c) ==
  /\ PublishCall(c)
  /\ \/ c \in expired /\ UNCHANGED budget
     \/ Fault("redis")

(* judge.Run reports a verdict, maybe just after the deadline: rows of     *)
(* results are saved as best effort.                                       *)
JudgeOk(c) ==
  /\ pc[c] = "judge" /\ GoTo(c, "markDone")
  /\ \E v \in Verdicts : report' = [report EXCEPT ![c] = v]
  /\ UNCHANGED <<rowVars, queueVars, apiVars, worker, job, pending, expired, budget>>

JudgeErrReturns(c) ==      \* mutant: the error path forgets the row
  /\ pc[c] = "judge" /\ GoTo(c, "ack")
  /\ UNCHANGED <<rowVars, queueVars, apiVars, worker, job, pending, report, expired, budget>>

(* judge.Run returns an error: no problem row, no sandbox, no time left... *)
JudgeErr(c) ==
  /\ pc[c] = "judge" /\ GoTo(c, "markFailed")
  /\ UNCHANGED <<rowVars, queueVars, apiVars, worker, job, pending, report, expired, budget>>

RecordDone(c) ==
  /\ pc[c] = "markDone" /\ c \notin expired /\ GoTo(c, "pubDone")
  /\ MarkDone(job[c], report[c])
  /\ UNCHANGED <<queueVars, apiVars, worker, job, pending, report, expired, budget>>

RecordDoneErrPublishes(c) ==   \* mutant: the error of MarkDone is only logged
  /\ pc[c] = "markDone" /\ GoTo(c, "pubDone")
  /\ Fails(c, MarkDone(job[c], report[c]))
  /\ UNCHANGED <<queueVars, apiVars, worker, job, pending, report, expired>>

RecordDoneErr(c) ==
  /\ pc[c] = "markDone" /\ Nack(c)
  /\ Fails(c, MarkDone(job[c], report[c]))
  /\ UNCHANGED <<stream, group, apiVars, worker>>

RecordFailed(c) ==
  /\ pc[c] = "markFailed" /\ c \notin expired /\ GoTo(c, "pubFailed")
  /\ MarkFailed(job[c])
  /\ UNCHANGED <<queueVars, apiVars, worker, job, pending, report, expired, budget>>

(* The error of MarkFailed is logged; "failed" is published all the same.  *)
RecordFailedErr(c) ==
  /\ pc[c] = "markFailed" /\ GoTo(c, "pubFailed")
  /\ Fails(c, MarkFailed(job[c]))
  /\ UNCHANGED <<queueVars, apiVars, worker, job, pending, report, expired>>

Ack(c) ==
  /\ pc[c] = "ack" /\ c \notin expired /\ Return(c)
  /\ UNCHANGED <<rowVars, queueVars, apiVars, worker, budget>>

(* The error of XACK is dropped: the entry stays pending.                  *)
AckErr(c) ==
  /\ pc[c] = "ack" /\ Nack(c)
  /\ \/ c \in expired /\ UNCHANGED budget
     \/ Fault("redis")
  /\ UNCHANGED <<rowVars, stream, group, apiVars, worker>>

(* opTimeout runs out while the job is in hand.                            *)
Expire(c) ==
  /\ pc[c] \in Processing /\ c \notin expired
  /\ Fault("deadline") /\ expired' = expired \cup {c}
  /\ UNCHANGED <<rowVars, queueVars, apiVars, worker, pc, job, pending, report>>

-----------------------------------------------------------------------------
(* Next is cut where the event stream of LiveEvents takes part in a step.  *)
QuietStep(c) ==
  \/ LoopTop(c) \/ ReadNothing(c) \/ Deliver(c) \/ ReadErr(c)
  \/ ClaimWon(c) \/ ClaimRefused(c) \/ ClaimErr(c)
  \/ PublishErr(c)
  \/ JudgeOk(c) \/ JudgeErr(c)
  \/ RecordDone(c) \/ RecordDoneErr(c) \/ RecordFailed(c) \/ RecordFailedErr(c)
  \/ Ack(c) \/ AckErr(c)

ConsumerStep(c) == QuietStep(c) \/ Publish(c)

WorkerProcess(p) == StartWorker(p) \/ StopWorker(p) \/ ExitWorker(p) \/ CrashWorker(p)

ApiEnds == ExitApi \/ CrashApi

Request(s) == Create(s) \/ CreateErr(s) \/ EnqueueNew(s) \/ EnqueueNewErr(s)

Sweeper == SweepList \/ \E s \in Submissions : SweepEnqueue(s) \/ SweepSkip(s)

QuietNext ==
  \/ StartApi \/ StopApi \/ Sweeper
  \/ \E s \in Submissions : Request(s) \/ Age(s)
  \/ \E p \in Workers : WorkerProcess(p)
  \/ \E c \in Consumers : QuietStep(c) \/ Expire(c)

Next == QuietNext \/ ApiEnds \/ Wipe \/ \E c \in Consumers : Publish(c)

Spec == Init /\ [][Next]_vars

(* Processes that run keep running, the sweeper's ticker keeps ticking,    *)
(* queued rows grow old, a stopping process ends.  Nothing makes a process *)
(* start or stop, a client submit, or a fault strike.                      *)
Fairness ==
  /\ \A c \in Consumers : WF_vars(ConsumerStep(c))
  /\ \A s \in Submissions :
       WF_vars(EnqueueNew(s)) /\ WF_vars(Age(s)) /\ WF_vars(SweepEnqueue(s))
  /\ WF_vars(SweepList)
  /\ \A p \in Workers : WF_vars(ExitWorker(p))
  /\ WF_vars(ExitApi)

FairSpec == Spec /\ Fairness

-----------------------------------------------------------------------------
(* What holds in every state: the shape of the state.                      *)
RowTypes ==
  /\ status \in [Submissions -> RowStates]
  /\ verdict \in [Submissions -> Verdicts \cup {None}]
  /\ old \subseteq Submissions

ServiceTypes ==
  /\ stream \in Seq(Submissions) /\ group \in BOOLEAN /\ stranded \subseteq Submissions
  /\ api \in ProcStates /\ creating \subseteq Submissions /\ sweep \subseteq Submissions
  /\ budget \in [FaultKinds -> Nat]

WorkerTypes ==
  /\ worker \in [Workers -> ProcStates]
  /\ pc \in [Consumers -> Labels]
  /\ job \in [Consumers -> Submissions \cup {None}]
  /\ report \in [Consumers -> Verdicts \cup {None}]
  /\ pending \subseteq Consumers /\ expired \subseteq Consumers
  /\ \A c \in Consumers : pc[c] \in Processing <=> job[c] # None

TypeOK == RowTypes /\ ServiceTypes /\ WorkerTypes

(* However often an entry is duplicated by the sweeper or a lost reply, at *)
(* most one consumer judges a submission, and it judges a running row: the *)
(* guard of MarkRunning is the only mutual exclusion there is.             *)
AtMostOneOwner ==
  \A c, d \in Consumers :
    pc[c] \in Owning /\ pc[d] \in Owning /\ job[c] = job[d] => c = d

OwnerHoldsRunningRow == \A c \in Consumers : pc[c] \in Owning => status[job[c]] = "running"

(* A row carries a verdict exactly when it is done.                        *)
VerdictIffDone == \A s \in Submissions : verdict[s] # None <=> status[s] = "done"

(* An entry is acknowledged only when its row has left "queued": no XACK   *)
(* throws away the entry of a row that still has to be claimed.            *)
AckNeverQueued ==
  \A c \in Consumers :
    pc[c] \in {"pubDone", "pubFailed", "ack"} => status[job[c]] \in {"running"} \cup Settled

(* The "done" event repeats what the row says: MarkDone ignores whether    *)
(* its UPDATE matched a row, and still no event invents a verdict.         *)
DoneEventMatchesRow ==
  \A c \in Consumers :
    pc[c] = "pubDone" => /\ status[job[c]] = "done"
                         /\ verdict[job[c]] = report[c]

Used(k)    == budget[k] < Budget[k]
Orphan(s)  == status[s] = "running" /\ \A c \in Consumers : ~Owns(c, s)

(* A running row nobody judges any more is the work of a crash, a failed   *)
(* statement or an expired job.  Redis faults, a wiped Redis, duplicate    *)
(* entries and graceful shutdowns never leave one behind.                  *)
OrphanNeedsCause ==
  (\E s \in Submissions : Orphan(s)) => \E k \in {"crash", "db", "deadline"} : Used(k)

(* Rows only move forward, and a settled row never changes: neither a      *)
(* duplicate entry nor a late consumer rewrites a verdict.                 *)
Rank(st) ==
  CASE st = "none" -> 0 [] st = "queued" -> 1 [] st = "running" -> 2 [] OTHER -> 3

RowStep(s) ==
  /\ Rank(status[s]) <= Rank(status'[s])
  /\ status[s] \in Settled => status'[s] = status[s] /\ verdict'[s] = verdict[s]

RowNeverGoesBack == [][\A s \in Submissions : RowStep(s)]_<<status, verdict>>

-----------------------------------------------------------------------------
(* The inductive invariant: the properties above need each other, and the  *)
(* bookkeeping between the row, the queue and the consumers.               *)
ReportInHand == \A c \in Consumers : pc[c] \in {"markDone", "pubDone"} => report[c] \in Verdicts

OnlyJobsInHand == pending \cup expired \subseteq {c \in Consumers : pc[c] \in Processing}

EntriesNameRows ==
  /\ \A i \in DOMAIN stream : status[stream[i]] # "none"
  /\ \A c \in Consumers : pc[c] \in Processing => status[job[c]] # "none"
  /\ \A s \in creating \cup sweep : status[s] # "none"

DownIsIdle == \A c \in Consumers : worker[WorkerOf[c]] = "down" => pc[c] = "exited"

FaultsAccounted ==
  /\ \A k \in FaultKinds : budget[k] <= Budget[k]
  /\ expired # {} => Used("deadline")

(* Entries in the stream, in hand or about to be enqueued name persisted   *)
(* rows, only a job in hand is pending or expired, a report is there when  *)
(* it is recorded, a dead process has no consumers, an expired job has     *)
(* used up a deadline, and all of the above.                               *)
Bookkeeping ==
  /\ ReportInHand /\ OnlyJobsInHand /\ EntriesNameRows /\ DownIsIdle /\ FaultsAccounted
Ownership   == AtMostOneOwner /\ OwnerHoldsRunningRow /\ OrphanNeedsCause
Outcomes    == VerdictIffDone /\ AckNeverQueued /\ DoneEventMatchesRow

IndInv == TypeOK /\ Bookkeeping /\ Ownership /\ Outcomes

-----------------------------------------------------------------------------
(* The backstop.  While the API stays up, the group exists and some worker *)
(* stays up, every queued row is claimed: lost enqueues, lost deliveries   *)
(* and failed claims are all repaired by the sweeper.                      *)
Served(p) == api = "up" /\ group /\ worker[p] = "up"

QueuedIsClaimed ==
  (\E p \in Workers : <>[]Served(p)) =>
    \A s \in Submissions : status[s] = "queued" ~> status[s] # "queued"

(* The detached context: as long as no process crashes, no statement fails *)
(* and no job expires, a claimed row is settled, through any shutdown.     *)
RunningSettles ==
  [](\A k \in {"crash", "db", "deadline"} : ~Used(k)) =>
    \A s \in Submissions : status[s] = "running" ~> status[s] \in Settled

(* A worker told to stop finishes its jobs and ends.                       *)
GracefulStopCompletes == \A p \in Workers : worker[p] = "stopping" ~> worker[p] = "down"

-----------------------------------------------------------------------------
(* What the pipeline implements: one claim and at most one outcome per     *)
(* submission, settled by the consumer that claimed it, whatever the queue *)
(* duplicates or loses and whichever process dies.                         *)
Holder == [s \in Submissions |-> {c \in Consumers : Owns(c, s)}]

OneShot == INSTANCE OneShotJob WITH
  Jobs    <- Submissions,
  Holders <- Consumers,
  Outcomes <- Verdicts,
  state   <- status,
  outcome <- verdict,
  holder  <- Holder

RefinesOneShot == OneShot!Spec

-----------------------------------------------------------------------------
(* Claims of the documentation that the code does not keep: each is        *)
(* checked by a run that expects a violation.                              *)

(* redisstream.go on Nack: an entry left pending "can be reclaimed later", *)
(* the sweeper is "the ultimate backstop for anything that gets stuck      *)
(* here".  So what is stranded would be settled while somebody serves it.  *)
StrandedRecovered ==
  (\E p \in Workers : <>[]Served(p)) =>
    \A s \in Submissions : s \in stranded ~> status[s] \in Settled

(* The sweeper "guarantees every queued submission eventually reaches the  *)
(* queue even if ... the message was lost": with API and worker up, every  *)
(* queued row would be claimed, also after Redis lost its data.            *)
LostMessagesRecovered ==
  (\E p \in Workers : <>[](api = "up" /\ worker[p] = "up")) =>
    \A s \in Submissions : status[s] = "queued" ~> status[s] # "queued"
=============================================================================
