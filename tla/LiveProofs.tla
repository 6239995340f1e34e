-------------------------------- MODULE LiveProofs --------------------------------
(***************************************************************************)
(* Theorems about LiveEvents, for any number of clients, submissions,      *)
(* consumers and faults.  The pipeline under the streams keeps its         *)
(* invariant (PipelineProofs); what is on its way to a client is true and  *)
(* in order, so what is shown is.                                          *)
(***************************************************************************)
EXTENDS LiveEvents, PipelineProofs

USE ConstantsAssumption, ClientsAssumption
  DEF Owning, Processing, Labels, Settled, RowStates, ProcStates, FaultKinds, Used,
      rowVars, queueVars, apiVars, workerVars, liveVars

(* A fault that none of the pipeline's actions takes note of.              *)
LEMMA KeepsBareFault ==
  ASSUME IndInv, NEW k \in FaultKinds, Fault(k),
         UNCHANGED <<rowVars, queueVars, apiVars, workerVars>>
  PROVE  IndInv'
<1>1. TypeOK'
  <2>1. budget' \in [FaultKinds -> Nat]
    BY DEF Fault, IndInv, TypeOK, ServiceTypes
  <2> QED BY <2>1 DEF IndInv, TypeOK, RowTypes, ServiceTypes, WorkerTypes
<1>2. Bookkeeping'
  <2>1. FaultsAccounted'
    <3>1. \A j \in FaultKinds : budget'[j] \in Nat /\ budget'[j] <= budget[j]
      BY DEF Fault, IndInv, TypeOK, ServiceTypes
    <3>2. \A j \in FaultKinds : budget[j] \in Nat /\ Budget[j] \in Nat
      BY DEF IndInv, TypeOK, ServiceTypes
    <3> QED BY <3>1, <3>2 DEF IndInv, Bookkeeping, FaultsAccounted
  <2> QED BY <2>1
          DEF IndInv, Bookkeeping, ReportInHand, OnlyJobsInHand, EntriesNameRows, DownIsIdle
<1>3. Ownership' /\ Outcomes'
  BY RowsFrame
<1> QED BY <1>1, <1>2, <1>3 DEF IndInv

(* What a step of the live system does to the pipeline.                    *)
LEMMA PipelineSteps ==
  ASSUME LiveNext
  PROVE  \/ Next
         \/ UNCHANGED vars
         \/ Fault("redis") /\ UNCHANGED <<rowVars, queueVars, apiVars, workerVars>>
  BY DEF LiveNext, Next, Broadcast, StreamsCut, RedisRestarts, StreamStep, Connect,
         Subscribed, SubscriptionDrops, Snapshot, SnapshotErr, Relay, Disconnect,
         Take, Quit

(* Used faults stay used.                                                  *)
LEMMA UsedStays ==
  ASSUME IndInv, NEW k \in FaultKinds, Used(k),
         UNCHANGED budget \/ \E j \in FaultKinds : Fault(j)
  PROVE  Used(k)'
  BY FaultsOnlyGrow

(* Every step of the pipeline leaves the budget alone or takes from it.    *)
LEMMA StepsUseFaults ==
  ASSUME Next
  PROVE  UNCHANGED budget \/ \E j \in FaultKinds : Fault(j)
<1>1. ASSUME NEW c \in Consumers, QuietStep(c) \/ Publish(c) \/ Expire(c)
      PROVE  UNCHANGED budget \/ \E j \in FaultKinds : Fault(j)
  BY <1>1
     DEF QuietStep, LoopTop, ReadNothing, Deliver, ReadErr, ClaimWon, ClaimRefused,
         ClaimErr, Fails, Publish, PublishErr, JudgeOk, JudgeErr, RecordDone,
         RecordDoneErr, RecordFailed, RecordFailedErr, Ack, AckErr, Expire
<1>2. ASSUME NEW s \in Submissions, Request(s) \/ Age(s)
      PROVE  UNCHANGED budget \/ \E j \in FaultKinds : Fault(j)
  BY <1>2 DEF Request, Create, CreateErr, EnqueueNew, EnqueueNewErr, Age
<1>3. ASSUME NEW p \in Workers, WorkerProcess(p)
      PROVE  UNCHANGED budget \/ \E j \in FaultKinds : Fault(j)
  BY <1>3 DEF WorkerProcess, StartWorker, StopWorker, ExitWorker, CrashWorker
<1>4. CASE StartApi \/ StopApi \/ ApiEnds \/ Sweeper \/ Wipe
  BY <1>4
     DEF StartApi, StopApi, ApiEnds, ExitApi, CrashApi, Sweeper, SweepList,
         SweepEnqueue, SweepSkip, Wipe
<1> QED BY <1>1, <1>2, <1>3, <1>4 DEF Next, QuietNext

(* The pipeline's invariant, and that rows and faults only move forward.   *)
LEMMA PipelineKept ==
  ASSUME IndInv, LiveNext
  PROVE  /\ IndInv'
         /\ \A s \in Submissions : RowStep(s)
         /\ \A k \in FaultKinds : Used(k) => Used(k)'
<1>1. CASE Next
  BY <1>1, NextInv, RowsMove, RowsForward, StepsUseFaults, FaultsOnlyGrow
<1>2. CASE UNCHANGED vars
  <2>1. IndInv'
    BY <1>2, NextInv
  <2>2. UNCHANGED <<status, verdict, budget>>
    BY <1>2 DEF vars
  <2> QED BY <2>1, <2>2, RowsForward, FaultsOnlyGrow
<1>3. CASE Fault("redis") /\ UNCHANGED <<rowVars, queueVars, apiVars, workerVars>>
  BY <1>3, KeepsBareFault, RowsForward, FaultsOnlyGrow
<1> QED BY <1>1, <1>2, <1>3, PipelineSteps

-----------------------------------------------------------------------------
(* A consumer announces "failed" only after it has tried to record it.     *)
LEMMA FailedStep ==
  ASSUME IndInv, Next, NEW c \in Consumers, pc'[c] = "pubFailed"
  PROVE  \/ /\ pc[c] = "pubFailed" /\ job'[c] = job[c]
            /\ c \in expired => c \in expired'
         \/ RecordFailed(c) \/ RecordFailedErr(c)
<1>0. pc \in [Consumers -> Labels] /\ job \in [Consumers -> Submissions \cup {None}]
  BY DEF IndInv, TypeOK, WorkerTypes
<1>1. ASSUME NEW d \in Consumers, QuietStep(d) \/ Publish(d) \/ Expire(d)
      PROVE  \/ /\ pc[c] = "pubFailed" /\ job'[c] = job[c]
                /\ c \in expired => c \in expired'
             \/ RecordFailed(c) \/ RecordFailedErr(c)
  <2>1. CASE d # c
    BY <1>0, <1>1, <2>1
       DEF QuietStep, LoopTop, ReadNothing, Deliver, ReadErr, ClaimWon, ClaimRefused,
           ClaimErr, Publish, PublishErr, PublishCall, JudgeOk, JudgeErr, RecordDone,
           RecordDoneErr, RecordFailed, RecordFailedErr, Ack, AckErr, Nack, Return,
           GoTo, Expire
  <2>2. CASE d = c
    BY <1>0, <1>1, <2>2
       DEF QuietStep, LoopTop, ReadNothing, Deliver, ReadErr, ClaimWon, ClaimRefused,
           ClaimErr, Publish, PublishErr, PublishCall, AfterPublish, JudgeOk, JudgeErr,
           RecordDone, RecordDoneErr, Ack, AckErr, Nack, Return, GoTo, Expire
  <2> QED BY <2>1, <2>2
<1>2. ASSUME NEW s \in Submissions, Request(s) \/ Age(s)
      PROVE  UNCHANGED <<pc, job, expired>>
  BY <1>2 DEF Request, Create, CreateErr, Insert, EnqueueNew, EnqueueNewErr, Age
<1>3. ASSUME NEW p \in Workers, WorkerProcess(p)
      PROVE  /\ pc[c] = "pubFailed" /\ job'[c] = job[c]
             /\ c \in expired => c \in expired'
  BY <1>0, <1>3
     DEF WorkerProcess, StartWorker, StopWorker, ExitWorker, CrashWorker, ConsumersGone
<1>4. CASE StartApi \/ StopApi \/ ApiEnds \/ Sweeper \/ Wipe
  BY <1>4
     DEF StartApi, StopApi, ApiEnds, ExitApi, CrashApi, ApiGone, Sweeper, SweepList,
         SweepEnqueue, SweepSkip, Wipe
<1> QED BY <1>1, <1>2, <1>3, <1>4 DEF Next, QuietNext

(* So a "failed" about to be announced has its cause.                      *)
LEMMA KeepsFailedHasCause ==
  ASSUME IndInv, FailedHasCause, LiveNext
  PROVE  FailedHasCause'
<1> SUFFICES ASSUME NEW c \in Consumers, pc'[c] = "pubFailed"
             PROVE  status'[job'[c]] = "failed" \/ c \in expired' \/ Used("db")'
  BY DEF FailedHasCause
<1>0. /\ \A s \in Submissions : RowStep(s)
      /\ Used("db") => Used("db")'
  BY PipelineKept
<1>1. JobFacts(c) /\ status \in [Submissions -> RowStates]
  BY JobInHand DEF IndInv, TypeOK, RowTypes
<1>2. CASE /\ pc[c] = "pubFailed" /\ job'[c] = job[c]
           /\ c \in expired => c \in expired'
  <2>1. status[job[c]] = "failed" => status'[job[c]] = "failed"
    BY <1>0, <1>1, <1>2 DEF RowStep, JobFacts
  <2> QED BY <1>0, <1>2, <2>1 DEF FailedHasCause
<1>3. CASE RecordFailed(c)
  <2>1. pc[c] = "markFailed" /\ job' = job
    BY <1>3 DEF RecordFailed
  <2>2. status[job[c]] = "running" /\ job[c] \in Submissions
    BY <1>1, <2>1 DEF IndInv, Ownership, OwnerHoldsRunningRow, JobFacts
  <2>3. status'[job[c]] = "failed"
    BY <1>1, <1>3, <2>2 DEF RecordFailed, MarkFailed, SetRow
  <2> QED BY <2>1, <2>3
<1>4. CASE RecordFailedErr(c)
  <2>1. CASE c \in expired
    BY <1>4, <2>1 DEF RecordFailedErr
  <2>2. CASE Fault("db")
    <3>1. Used("db")'
      BY <2>2 DEF Fault, IndInv, TypeOK, ServiceTypes, Bookkeeping, FaultsAccounted
    <3> QED BY <3>1
  <2> QED BY <1>4, <2>1, <2>2 DEF RecordFailedErr, Fails
<1>5. CASE Next
  BY <1>2, <1>3, <1>4, <1>5, FailedStep
<1>6. CASE UNCHANGED <<pc, job, expired>>
  BY <1>2, <1>6
<1> QED BY <1>5, <1>6, PipelineSteps DEF vars

-----------------------------------------------------------------------------
(* Sequences of events.                                                    *)
LEMMA Appended ==
  ASSUME NEW q \in Seq(Events), NEW e \in Events
  PROVE  /\ Append(q, e) \in Seq(Events) /\ Len(Append(q, e)) = Len(q) + 1
         /\ DOMAIN q = 1..Len(q) /\ DOMAIN Append(q, e) = 1..(Len(q) + 1)
         /\ Len(q) \in Nat
         /\ \A i \in 1..Len(q) : Append(q, e)[i] = q[i]
         /\ Append(q, e)[Len(q) + 1] = e
  OBVIOUS

(* The head leaves, the rest moves up.                                     *)
LEMMA Taken ==
  ASSUME NEW q \in Seq(Events), q # <<>>
  PROVE  /\ Tail(q) \in Seq(Events) /\ Head(q) \in Events
         /\ 1 \in DOMAIN q /\ Head(q) = q[1]
         /\ \A i \in DOMAIN Tail(q) : i + 1 \in DOMAIN q /\ Tail(q)[i] = q[i + 1]
  OBVIOUS

(* What may still be delivered to client k, and what may have been shown   *)
(* to it.                                                                  *)
Fit(k) == {e \in Events : Deliverable(k, e)}
Showable(k) == {e \in Events : EventTrue(Watches[k], e)}

(* The invariant of one client's stream, in terms of these sets.           *)
InTransit(k) ==
  /\ \A i \in DOMAIN inbox[k] : inbox[k][i] \in Fit(k)
  /\ hand[k] \in Fit(k) \cup {None}

Showing(k) ==
  /\ conn[k] \in {"idle", "subscribed"} => sent[k] = <<>>
  /\ \A i \in DOMAIN sent[k] :
       /\ sent[k][i] \in Showable(k)
       /\ i < Len(sent[k]) \/ conn[k] = "streaming" => sent[k][i].status \notin Settled
       /\ i > 1 => sent[k][i].status \in Published

Streams == LiveTypeOK /\ \A k \in Clients : InTransit(k) /\ Showing(k)

LEMMA FromIndInv == LiveIndInv => IndInv /\ FailedHasCause /\ Streams
<1> SUFFICES ASSUME LiveIndInv PROVE IndInv /\ FailedHasCause /\ Streams
  OBVIOUS
<1>1. LiveTypeOK
  BY DEF LiveIndInv
<1>2. ASSUME NEW k \in Clients PROVE InTransit(k)
  <2>1. \A i \in DOMAIN inbox[k] : inbox[k][i] \in Events
    BY <1>1 DEF LiveTypeOK
  <2> QED BY <1>1, <2>1 DEF LiveIndInv, LiveTypeOK, OnTheWay, InTransit, Fit
<1>3. ASSUME NEW k \in Clients PROVE Showing(k)
  <2>1. \A i \in DOMAIN sent[k] : sent[k][i] \in Events
    BY <1>1 DEF LiveTypeOK
  <2> QED BY <2>1
          DEF LiveIndInv, StreamSound, TerminalMatchesRow, Showing, Showable, IsTerminal
<1> QED BY <1>1, <1>2, <1>3 DEF LiveIndInv, Streams

LEMMA ToIndInv == IndInv /\ FailedHasCause /\ Streams => LiveIndInv
<1> SUFFICES ASSUME IndInv, FailedHasCause, Streams PROVE LiveIndInv
  OBVIOUS
<1>1. \A k \in Clients : OnTheWay(k)
  BY DEF Streams, InTransit, Fit, OnTheWay
<1>2. \A k \in Clients : StreamSound(k)
  BY DEF Streams, Showing, StreamSound, IsTerminal
<1>3. TerminalMatchesRow
  BY DEF Streams, Showing, Showable, TerminalMatchesRow
<1> QED BY <1>1, <1>2, <1>3 DEF Streams, LiveIndInv

(* The initial state.                                                      *)
LEMMA LiveInitInv == LiveInit => LiveIndInv
<1> SUFFICES ASSUME LiveInit PROVE IndInv /\ FailedHasCause /\ Streams
  BY ToIndInv
<1>1. IndInv
  BY InitInv DEF LiveInit
<1>2. FailedHasCause
  BY DEF LiveInit, Init, FailedHasCause
<1>3. LiveTypeOK
  BY DEF LiveInit, LiveTypeOK
<1>4. \A k \in Clients : InTransit(k) /\ Showing(k)
  BY DEF LiveInit, InTransit, Showing
<1> QED BY <1>1, <1>2, <1>3, <1>4 DEF Streams

(* What was true of a row stays true: settled rows do not change.          *)
LEMMA TrueStays ==
  ASSUME IndInv, LiveNext, NEW k \in Clients
  PROVE  Fit(k) \subseteq Fit(k)' /\ Showable(k) \subseteq Showable(k)'
<1>1. Watches[k] \in Submissions
  OBVIOUS
<1>2. RowStep(Watches[k]) /\ (Used("db") => Used("db")')
  BY <1>1, PipelineKept
<1> QED BY <1>2 DEF Fit, Showable, Deliverable, EventTrue, RowStep

LEMMA FitIsShowable ==
  ASSUME NEW k \in Clients, NEW e \in Fit(k)
  PROVE  e \in Showable(k) /\ e \in Events /\ e.status \in Published
  BY DEF Fit, Showable, Deliverable

-----------------------------------------------------------------------------
(* The ways the stream of a client moves.                                  *)
LEMMA TransitShrinks ==
  ASSUME NEW k \in Clients, InTransit(k), Fit(k) \subseteq Fit(k)',
         inbox'[k] \in {inbox[k], <<>>}, hand'[k] \in {hand[k], None}
  PROVE  InTransit(k)'
  BY DEF InTransit

LEMMA TransitGrows ==
  ASSUME NEW k \in Clients, InTransit(k), Fit(k) \subseteq Fit(k)',
         inbox[k] \in Seq(Events), NEW e \in Fit(k),
         inbox'[k] = Append(inbox[k], e), hand'[k] = hand[k]
  PROVE  InTransit(k)'
<1>1. e \in Events
  BY FitIsShowable
<1>2. \A i \in DOMAIN inbox'[k] : inbox'[k][i] \in Fit(k)
  BY <1>1, Appended DEF InTransit
<1> QED BY <1>2 DEF InTransit

LEMMA TransitMoves ==
  ASSUME NEW k \in Clients, InTransit(k), Fit(k) \subseteq Fit(k)',
         inbox[k] \in Seq(Events), inbox[k] # <<>>,
         inbox'[k] = Tail(inbox[k]), hand'[k] = Head(inbox[k])
  PROVE  InTransit(k)'
<1>1. \A i \in DOMAIN inbox'[k] : inbox'[k][i] \in Fit(k)
  BY Taken DEF InTransit
<1>2. hand'[k] \in Fit(k)
  BY Taken DEF InTransit
<1> QED BY <1>1, <1>2 DEF InTransit

LEMMA ShowingStays ==
  ASSUME NEW k \in Clients, Showing(k), Showable(k) \subseteq Showable(k)',
         sent'[k] = sent[k],
         \/ conn'[k] \in {conn[k], "closed"}
         \/ conn[k] = "idle" /\ conn'[k] = "subscribed"
  PROVE  Showing(k)'
  BY DEF Showing

LEMMA ShowingGrows ==
  ASSUME NEW k \in Clients, Showing(k), Showable(k) \subseteq Showable(k)',
         sent[k] \in Seq(Events), NEW e \in Showable(k),
         sent'[k] = Append(sent[k], e),
         \/ conn[k] = "subscribed"
         \/ conn[k] = "streaming" /\ e.status \in Published,
         \/ conn'[k] = "closed"
         \/ conn'[k] = "streaming" /\ e.status \notin Settled
  PROVE  Showing(k)'
<1>1. e \in Events
  BY DEF Showable
<1>2. /\ Len(sent'[k]) = Len(sent[k]) + 1 /\ DOMAIN sent'[k] = 1..(Len(sent[k]) + 1)
      /\ DOMAIN sent[k] = 1..Len(sent[k]) /\ Len(sent[k]) \in Nat
      /\ \A i \in 1..Len(sent[k]) : sent'[k][i] = sent[k][i]
      /\ sent'[k][Len(sent[k]) + 1] = e
  BY <1>1, Appended
<1>3. conn[k] = "subscribed" => Len(sent[k]) = 0
  BY DEF Showing
<1>4. ASSUME NEW i \in DOMAIN sent'[k]
      PROVE  /\ sent'[k][i] \in Showable(k)
             /\ i < Len(sent'[k]) \/ conn'[k] = "streaming"
                  => sent'[k][i].status \notin Settled
             /\ i > 1 => sent'[k][i].status \in Published
  <2>1. CASE i = Len(sent[k]) + 1
    BY <1>2, <1>3, <2>1
  <2>2. CASE i \in 1..Len(sent[k])
    <3>1. conn[k] = "streaming"
      BY <1>2, <1>3, <2>2
    <3> QED BY <1>2, <2>2, <3>1 DEF Showing
  <2> QED BY <1>2, <2>1, <2>2
<1>5. conn'[k] \notin {"idle", "subscribed"}
  OBVIOUS
<1> QED BY <1>4, <1>5 DEF Showing

-----------------------------------------------------------------------------
(* One lemma per kind of step.  First: no client sees a difference.        *)
LEMMA KeepsStreamsQuiet ==
  ASSUME IndInv, Streams, LiveNext, UNCHANGED <<conn, inbox, hand, fwd, sent>>,
         sub' \in [Clients -> {"off", "asked", "active"}]
  PROVE  Streams'
<1>1. LiveTypeOK'
  BY DEF Streams, LiveTypeOK
<1>2. \A k \in Clients : InTransit(k)' /\ Showing(k)'
  BY TrueStays, TransitShrinks, ShowingStays DEF Streams
<1> QED BY <1>1, <1>2 DEF Streams

(* What a consumer publishes is true.                                      *)
LEMMA Announced ==
  ASSUME IndInv, FailedHasCause, NEW c \in Consumers, Publish(c)
  PROVE  /\ EventOf(c) \in Events /\ EventOf(c).status \in Published
         /\ EventTrue(job[c], EventOf(c))
<1>1. pc[c] \in {"pubRunning", "pubDone", "pubFailed"} /\ c \notin expired
  BY DEF Publish, PublishCall, AfterPublish
<1>2. report[c] \in Verdicts \cup {None}
  BY DEF IndInv, TypeOK, WorkerTypes
<1>3. CASE pc[c] = "pubRunning"
  <2>1. EventOf(c) = [status |-> "running", verdict |-> None]
    BY <1>3 DEF EventOf, Event
  <2> QED BY <2>1 DEF Events, Published, EventTrue
<1>4. CASE pc[c] = "pubFailed"
  <2>1. EventOf(c) = [status |-> "failed", verdict |-> None]
    BY <1>4 DEF EventOf, Event
  <2>2. status[job[c]] = "failed" \/ Used("db")
    BY <1>1, <1>4 DEF FailedHasCause
  <2> QED BY <2>1, <2>2 DEF Events, Published, EventTrue
<1>5. CASE pc[c] = "pubDone"
  <2>1. EventOf(c) = [status |-> "done", verdict |-> report[c]]
    BY <1>5 DEF EventOf, Event
  <2>2. status[job[c]] = "done" /\ verdict[job[c]] = report[c]
    BY <1>5 DEF IndInv, Outcomes, DoneEventMatchesRow
  <2> QED BY <1>2, <2>1, <2>2 DEF Events, Published, EventTrue
<1> QED BY <1>1, <1>3, <1>4, <1>5

(* It reaches the clients that watch the row.                              *)
LEMMA KeepsBroadcast ==
  ASSUME IndInv, FailedHasCause, Streams, LiveNext, NEW c \in Consumers, Broadcast(c)
  PROVE  Streams'
<1>1. PICK e \in Events : e = EventOf(c)
  BY Announced DEF Broadcast
<1>2. e.status \in Published /\ EventTrue(job[c], e)
  BY <1>1, Announced DEF Broadcast
<1>3. /\ UNCHANGED <<conn, sub, hand, fwd, sent>>
      /\ inbox' = [k \in Clients |->
           IF sub[k] = "active" /\ Watches[k] = job[c] THEN Append(inbox[k], e) ELSE inbox[k]]
  BY <1>1 DEF Broadcast
<1>4. \A k \in Clients : inbox[k] \in Seq(Events) /\ Append(inbox[k], e) \in Seq(Events)
  BY Appended DEF Streams, LiveTypeOK
<1>5. LiveTypeOK'
  BY <1>3, <1>4 DEF Streams, LiveTypeOK
<1>6. ASSUME NEW k \in Clients PROVE InTransit(k)' /\ Showing(k)'
  <2>1. /\ Fit(k) \subseteq Fit(k)' /\ Showable(k) \subseteq Showable(k)'
        /\ InTransit(k) /\ Showing(k)
    BY TrueStays DEF Streams
  <2>2. Showing(k)'
    BY <1>3, <2>1, ShowingStays
  <2>3. CASE sub[k] = "active" /\ Watches[k] = job[c]
    <3>1. e \in Fit(k)
      BY <1>2, <2>3 DEF Fit, Deliverable
    <3>2. inbox'[k] = Append(inbox[k], e) /\ hand'[k] = hand[k]
      BY <1>3, <2>3
    <3> QED BY <1>4, <2>1, <2>2, <3>1, <3>2, TransitGrows
  <2>4. CASE ~(sub[k] = "active" /\ Watches[k] = job[c])
    BY <1>3, <2>1, <2>2, <2>4, TransitShrinks
  <2> QED BY <2>3, <2>4
<1> QED BY <1>5, <1>6 DEF Streams

(* The API process ends.                                                   *)
LEMMA KeepsStreamsCut ==
  ASSUME IndInv, Streams, LiveNext, StreamsCut
  PROVE  Streams'
<1>1. LiveTypeOK'
  BY DEF Streams, StreamsCut, LiveTypeOK
<1>2. ASSUME NEW k \in Clients PROVE InTransit(k)' /\ Showing(k)'
  <2>1. /\ conn'[k] \in {conn[k], "closed"} /\ sent'[k] = sent[k]
        /\ inbox'[k] = <<>> /\ hand'[k] = None
    BY DEF StreamsCut
  <2> QED BY <2>1, TrueStays, TransitShrinks, ShowingStays DEF Streams
<1> QED BY <1>1, <1>2 DEF Streams

(* A client asks, is subscribed, loses its subscription or goes away.      *)
LEMMA KeepsConnections ==
  ASSUME IndInv, Streams, LiveNext, NEW k \in Clients,
         \/ Connect(k) \/ Subscribed(k) \/ SubscriptionDrops(k)
         \/ SnapshotErr(k) \/ Disconnect(k)
  PROVE  Streams'
<1>1. /\ UNCHANGED <<inbox, hand, sent>>
      /\ \A j \in Clients : \/ conn'[j] \in {conn[j], "closed"}
                            \/ conn[j] = "idle" /\ conn'[j] = "subscribed"
  BY DEF Streams, LiveTypeOK, Connect, Subscribed, SubscriptionDrops, Resubscribe,
         SnapshotErr, Disconnect, Close
<1>2. LiveTypeOK'
  <2>1. conn' \in [Clients -> {"idle", "subscribed", "streaming", "closed"}]
    <3>1. \E new \in {"subscribed", "closed"} : conn' \in {conn, [conn EXCEPT ![k] = new]}
      BY DEF Connect, Subscribed, SubscriptionDrops, Resubscribe, SnapshotErr, Disconnect,
             Close
    <3> QED BY <3>1 DEF Streams, LiveTypeOK
  <2>2. sub' \in [Clients -> {"off", "asked", "active"}]
    BY DEF Streams, LiveTypeOK, Connect, Subscribed, SubscriptionDrops, Resubscribe,
           SnapshotErr, Disconnect, Close
  <2>3. fwd' \in [Clients -> {"off", "running", "ended"}]
    BY DEF Streams, LiveTypeOK, Connect, Subscribed, SubscriptionDrops, Resubscribe,
           SnapshotErr, Disconnect, Close
  <2> QED BY <1>1, <2>1, <2>2, <2>3 DEF Streams, LiveTypeOK
<1>3. \A j \in Clients : InTransit(j)' /\ Showing(j)'
  BY <1>1, TrueStays, TransitShrinks, ShowingStays DEF Streams
<1> QED BY <1>2, <1>3 DEF Streams

(* The forwarder takes a message, or ends.                                 *)
LEMMA KeepsForwarder ==
  ASSUME IndInv, Streams, LiveNext, NEW k \in Clients, Take(k) \/ Quit(k)
  PROVE  Streams'
<1>0. \A j \in Clients : inbox[j] \in Seq(Events)
  BY DEF Streams, LiveTypeOK
<1>1. LiveTypeOK'
  <2>1. CASE Take(k)
    <3>1. Head(inbox[k]) \in Events /\ Tail(inbox[k]) \in Seq(Events)
      BY <1>0, <2>1, Taken DEF Take
    <3> QED BY <2>1, <3>1 DEF Take, Streams, LiveTypeOK
  <2>2. CASE Quit(k)
    BY <2>2 DEF Quit, Streams, LiveTypeOK
  <2> QED BY <2>1, <2>2
<1>2. ASSUME NEW j \in Clients PROVE InTransit(j)' /\ Showing(j)'
  <2>1. /\ Fit(j) \subseteq Fit(j)' /\ Showable(j) \subseteq Showable(j)'
        /\ InTransit(j) /\ Showing(j)
    BY TrueStays DEF Streams
  <2>2. Showing(j)'
    BY <2>1, ShowingStays DEF Take, Quit
  <2>3. CASE Take(k) /\ j = k
    <3>1. inbox[j] # <<>> /\ inbox'[j] = Tail(inbox[j]) /\ hand'[j] = Head(inbox[j])
      BY <2>3 DEF Take, Streams, LiveTypeOK
    <3> QED BY <1>0, <2>1, <2>2, <3>1, TransitMoves
  <2>4. CASE Quit(k) \/ j # k
    <3>1. inbox'[j] \in {inbox[j], <<>>} /\ hand'[j] \in {hand[j], None}
      BY <2>4 DEF Take, Quit, Streams, LiveTypeOK
    <3> QED BY <2>1, <2>2, <3>1, TransitShrinks
  <2> QED BY <2>3, <2>4
<1> QED BY <1>1, <1>2 DEF Streams

(* The handler writes: the row as it is, or an event it was handed.        *)
LEMMA KeepsWriting ==
  ASSUME IndInv, Streams, LiveNext, NEW k \in Clients, NEW e \in Showable(k), Write(k, e),
         \/ conn[k] = "subscribed"
         \/ conn[k] = "streaming" /\ e.status \in Published,
         \/ Close(k)
         \/ /\ conn' = [conn EXCEPT ![k] = "streaming"] /\ UNCHANGED sub
            /\ e.status \notin Settled,
         hand' \in {hand, [hand EXCEPT ![k] = None]}, UNCHANGED <<inbox, fwd>>
  PROVE  Streams'
<1>0. e \in Events /\ \A j \in Clients : sent[j] \in Seq(Events)
  BY DEF Streams, LiveTypeOK, Showable
<1>1. LiveTypeOK'
  <2>1. Append(sent[k], e) \in Seq(Events)
    BY <1>0, Appended
  <2>2. sent' \in [Clients -> Seq(Events)]
    BY <2>1 DEF Streams, LiveTypeOK, Write
  <2>3. /\ conn' \in [Clients -> {"idle", "subscribed", "streaming", "closed"}]
        /\ sub' \in [Clients -> {"off", "asked", "active"}]
    <3>1. /\ conn \in [Clients -> {"idle", "subscribed", "streaming", "closed"}]
          /\ sub \in [Clients -> {"off", "asked", "active"}]
      BY DEF Streams, LiveTypeOK
    <3> QED BY <3>1 DEF Close
  <2>4. hand' \in [Clients -> Events \cup {None}]
    BY DEF Streams, LiveTypeOK
  <2> QED BY <2>2, <2>3, <2>4 DEF Streams, LiveTypeOK
<1>2. ASSUME NEW j \in Clients PROVE InTransit(j)' /\ Showing(j)'
  <2>1. /\ Fit(j) \subseteq Fit(j)' /\ Showable(j) \subseteq Showable(j)'
        /\ InTransit(j) /\ Showing(j)
    BY TrueStays DEF Streams
  <2>2. InTransit(j)'
    <3>1. inbox'[j] = inbox[j] /\ hand'[j] \in {hand[j], None}
      BY DEF Streams, LiveTypeOK
    <3> QED BY <2>1, <3>1, TransitShrinks
  <2>3. CASE j = k
    <3>1. /\ sent'[j] = Append(sent[j], e)
          /\ \/ conn'[j] = "closed"
             \/ conn'[j] = "streaming" /\ e.status \notin Settled
      BY <2>3 DEF Streams, LiveTypeOK, Write, Close
    <3> QED BY <1>0, <2>1, <2>2, <2>3, <3>1, ShowingGrows
  <2>4. CASE j # k
    <3>1. sent'[j] = sent[j] /\ conn'[j] = conn[j]
      BY <2>4 DEF Streams, LiveTypeOK, Write, Close
    <3> QED BY <2>1, <2>2, <3>1, ShowingStays
  <2> QED BY <2>3, <2>4
<1> QED BY <1>1, <1>2 DEF Streams

LEMMA KeepsSnapshot ==
  ASSUME IndInv, Streams, LiveNext, NEW k \in Clients, Snapshot(k)
  PROVE  Streams'
<1>1. CASE status[Watches[k]] = "none" \/ k \notin Owners
  <2>1. Close(k) /\ UNCHANGED <<inbox, hand, fwd, sent>>
    BY <1>1 DEF Snapshot
  <2>2. LiveTypeOK'
    BY <2>1 DEF Streams, LiveTypeOK, Close
  <2>3. \A j \in Clients : conn'[j] \in {conn[j], "closed"}
    BY <2>1 DEF Streams, LiveTypeOK, Close
  <2>4. \A j \in Clients : InTransit(j)' /\ Showing(j)'
    BY <2>1, <2>3, TrueStays, TransitShrinks, ShowingStays DEF Streams
  <2> QED BY <2>2, <2>4 DEF Streams
<1>2. CASE status[Watches[k]] # "none" /\ k \in Owners
  <2>1. PICK e : e = Event(status[Watches[k]], verdict[Watches[k]])
    OBVIOUS
  <2>2. e \in Showable(k)
    <3>1. /\ status[Watches[k]] \in RowStates
          /\ verdict[Watches[k]] \in Verdicts \cup {None}
      BY DEF IndInv, TypeOK, RowTypes
    <3> QED BY <2>1, <3>1 DEF Event, Events, Showable, EventTrue
  <2>3. /\ conn[k] = "subscribed" /\ Write(k, e) /\ UNCHANGED <<inbox, hand, fwd>>
        /\ \/ Close(k)
           \/ /\ conn' = [conn EXCEPT ![k] = "streaming"] /\ UNCHANGED sub
              /\ e.status \notin Settled
    BY <1>2, <2>1 DEF Snapshot, IsTerminal
  <2> QED BY <2>2, <2>3, KeepsWriting
<1> QED BY <1>1, <1>2

LEMMA KeepsRelay ==
  ASSUME IndInv, Streams, LiveNext, NEW k \in Clients, Relay(k)
  PROVE  Streams'
<1>1. PICK e : e = hand[k]
  OBVIOUS
<1>2. e \in Showable(k) /\ e.status \in Published
  <2>1. e \in Fit(k)
    BY <1>1 DEF Relay, Streams, InTransit
  <2> QED BY <2>1, FitIsShowable
<1>3. /\ conn[k] = "streaming" /\ Write(k, e)
      /\ hand' = [hand EXCEPT ![k] = None] /\ UNCHANGED <<inbox, fwd>>
      /\ \/ Close(k)
         \/ UNCHANGED <<conn, sub>> /\ e.status \notin Settled
  BY <1>1 DEF Relay, IsTerminal
<1>4. conn = [conn EXCEPT ![k] = "streaming"]
  BY <1>3 DEF Streams, LiveTypeOK
<1> QED BY <1>2, <1>3, <1>4, KeepsWriting

-----------------------------------------------------------------------------
(* Every step keeps the invariant.                                         *)
LEMMA LiveNextInv == LiveIndInv /\ [LiveNext]_<<vars, liveVars>> => LiveIndInv'
<1> SUFFICES ASSUME LiveIndInv, [LiveNext]_<<vars, liveVars>> PROVE LiveIndInv'
  OBVIOUS
<1>0. IndInv /\ FailedHasCause /\ Streams
  BY FromIndInv
<1>1. CASE LiveNext
  <2>1. IndInv' /\ FailedHasCause'
    BY <1>0, <1>1, PipelineKept, KeepsFailedHasCause
  <2>2. Streams'
    <3>1. CASE QuietNext /\ UNCHANGED liveVars
      BY <1>0, <1>1, <3>1, KeepsStreamsQuiet DEF Streams, LiveTypeOK
    <3>2. CASE \E c \in Consumers : Broadcast(c)
      BY <1>0, <1>1, <3>2, KeepsBroadcast
    <3>3. CASE StreamsCut
      BY <1>0, <1>1, <3>3, KeepsStreamsCut
    <3>4. CASE RedisRestarts
      <4>1. /\ UNCHANGED <<conn, inbox, hand, fwd, sent>>
            /\ sub' \in [Clients -> {"off", "asked", "active"}]
        BY <1>0, <3>4 DEF RedisRestarts, Resubscribe, Streams, LiveTypeOK
      <4> QED BY <1>0, <1>1, <4>1, KeepsStreamsQuiet
    <3>5. CASE \E k \in Clients : StreamStep(k)
      BY <1>0, <1>1, <3>5, KeepsConnections, KeepsForwarder, KeepsSnapshot, KeepsRelay
         DEF StreamStep
    <3> QED BY <1>1, <3>1, <3>2, <3>3, <3>4, <3>5 DEF LiveNext
  <2> QED BY <2>1, <2>2, ToIndInv, PTL
<1>2. CASE UNCHANGED <<vars, liveVars>>
  <2>1. IndInv'
    BY <1>0, <1>2, NextInv
  <2>2. FailedHasCause'
    BY <1>0, <1>2 DEF FailedHasCause, vars
  <2>3. Streams'
    BY <1>0, <1>2 DEF Streams, LiveTypeOK, InTransit, Showing, Fit, Showable, Deliverable,
       EventTrue, vars
  <2> QED BY <2>1, <2>2, <2>3, ToIndInv, PTL
<1> QED BY <1>1, <1>2

-----------------------------------------------------------------------------
(* The theorems.                                                           *)

(* The invariant of the streams and of the pipeline under them holds in    *)
(* every behaviour, with any faults.                                       *)
THEOREM LiveInvariance == LiveSpec => []LiveIndInv
<1>1. LiveInit => LiveIndInv
  BY LiveInitInv
<1>2. LiveIndInv /\ [LiveNext]_<<vars, liveVars>> => LiveIndInv'
  BY LiveNextInv
<1> QED BY <1>1, <1>2, PTL DEF LiveSpec

(* The stream state keeps its shape.                                       *)
THEOREM LiveTypesAreOK == LiveSpec => []LiveTypeOK
<1>1. LiveIndInv => LiveTypeOK
  BY DEF LiveIndInv
<1> QED BY <1>1, LiveInvariance, PTL

(* Events of handler.go and publish of worker.go together: a terminal      *)
(* state shown to a client is the row's, whatever was lost or repeated.    *)
THEOREM ShownIsTrue == LiveSpec => []TerminalMatchesRow
<1>1. LiveIndInv => TerminalMatchesRow
  BY DEF LiveIndInv
<1> QED BY <1>1, LiveInvariance, PTL

(* No client sees its submission go back, nor anything after a terminal    *)
(* state.                                                                  *)
THEOREM NeverBack == LiveSpec => []StreamMonotone
<1>1. LiveIndInv => StreamMonotone
  <2> SUFFICES ASSUME LiveIndInv, NEW k \in Clients,
                      NEW i \in DOMAIN sent[k], NEW j \in DOMAIN sent[k], i < j
               PROVE  /\ Rank(sent[k][i].status) <= Rank(sent[k][j].status)
                      /\ ~IsTerminal(sent[k][i])
    BY DEF StreamMonotone
  <2>1. sent[k] \in Seq(Events) /\ sent[k][i] \in Events /\ sent[k][j] \in Events
    BY DEF LiveIndInv, LiveTypeOK
  <2>2. i \in Nat /\ j \in Nat /\ 1 <= i /\ i < Len(sent[k]) /\ j > 1
    BY <2>1
  <2>3. ~IsTerminal(sent[k][i]) /\ sent[k][j].status \in Published
    BY <2>2 DEF LiveIndInv, StreamSound
  <2>4. sent[k][i].status \in {"none", "queued", "running"}
    BY <2>1, <2>3 DEF IsTerminal, Events
  <2> QED BY <2>3, <2>4 DEF Rank, Published
<1> QED BY <1>1, LiveInvariance, PTL
-----------------------------------------------------------------------------
(* The pipeline keeps what it promises while it is watched: faults of the  *)
(* subscriptions, which its own actions do not know, change nothing.       *)
THEOREM LiveRowsOnlyAdvance == LiveSpec => RowNeverGoesBack
<1>1. LiveIndInv /\ [LiveNext]_<<vars, liveVars>>
        => [\A s \in Submissions : RowStep(s)]_<<status, verdict>>
  <2>1. LiveIndInv => IndInv
    BY DEF LiveIndInv
  <2>2. IndInv /\ LiveNext => \A s \in Submissions : RowStep(s)
    BY PipelineKept
  <2> QED BY <2>1, <2>2 DEF vars
<1> QED BY <1>1, LiveInvariance, PTL DEF LiveSpec, RowNeverGoesBack

(* So the watched pipeline implements OneShotJob as well.                  *)
THEOREM LiveImplementsOneShot == LiveSpec => RefinesOneShot
<1>1. LiveInit => OneShot!Init
  BY OneShotInit DEF LiveInit
<1>2. LiveIndInv /\ [LiveNext]_<<vars, liveVars>> => [OneShot!Next]_(OneShot!vars)
  <2> SUFFICES ASSUME LiveIndInv, [LiveNext]_<<vars, liveVars>>
               PROVE  [OneShot!Next]_(OneShot!vars)
    OBVIOUS
  <2>1. IndInv
    BY DEF LiveIndInv
  <2>2. CASE Next
    BY <2>1, <2>2, OneShotStep
  <2>3. CASE UNCHANGED <<status, verdict, pc, job>>
    BY <2>3, HolderSame DEF OneShot!vars
  <2>4. (UNCHANGED vars \/ UNCHANGED <<rowVars, queueVars, apiVars, workerVars>>)
          => UNCHANGED <<status, verdict, pc, job>>
    BY DEF vars
  <2>5. CASE LiveNext
    BY <2>2, <2>3, <2>4, <2>5, PipelineSteps
  <2>6. CASE UNCHANGED <<vars, liveVars>>
    BY <2>3, <2>4, <2>6
  <2> QED BY <2>5, <2>6
<1> QED BY <1>1, <1>2, LiveInvariance, PTL DEF LiveSpec, RefinesOneShot, OneShot!Spec

(* Client k is shown what it is shown, and one event more at most.         *)
LEMMA SentGrows ==
  ASSUME LiveIndInv, LiveNext, NEW k \in Clients
  PROVE  sent'[k] = sent[k] \/ conn[k] \in {"subscribed", "streaming"}
<1>0. sent \in [Clients -> Seq(Events)]
  BY DEF LiveIndInv, LiveTypeOK
<1>1. ASSUME NEW j \in Clients, StreamStep(j)
      PROVE  sent'[k] = sent[k] \/ conn[k] \in {"subscribed", "streaming"}
  <2>1. CASE Snapshot(j) \/ Relay(j)
    <3>1. conn[j] \in {"subscribed", "streaming"}
      BY <2>1 DEF Snapshot, Relay
    <3>2. sent' = sent \/ \E e : Write(j, e)
      BY <2>1 DEF Snapshot, Relay
    <3> QED BY <1>0, <3>1, <3>2 DEF Write
  <2>2. CASE ~(Snapshot(j) \/ Relay(j))
    BY <1>1, <2>2
       DEF StreamStep, Connect, Subscribed, SubscriptionDrops, Resubscribe, SnapshotErr,
           Disconnect, Take, Quit
  <2> QED BY <2>1, <2>2
<1>2. ASSUME NEW c \in Consumers, Broadcast(c) PROVE sent' = sent
  BY <1>2 DEF Broadcast
<1>3. CASE QuietNext /\ UNCHANGED liveVars
  BY <1>3
<1>4. CASE StreamsCut \/ RedisRestarts
  BY <1>4 DEF StreamsCut, RedisRestarts, Resubscribe
<1> QED BY <1>1, <1>2, <1>3, <1>4 DEF LiveNext

(* The last word on what client k was shown: a terminal event ends its     *)
(* stream, and the row does not change under it.                           *)
Lasting(k) ==
  \A i \in DOMAIN sent[k] : IsTerminal(sent[k][i]) =>
    /\ sent'[k] = sent[k]
    /\ sent[k][i].status = "done" \/ ~Used("db") =>
         /\ status'[Watches[k]] = status[Watches[k]]
         /\ verdict'[Watches[k]] = verdict[Watches[k]]

(* Events of handler.go: the state a stream ends with is the submission's  *)
(* for good, unless a failed statement left it with a wrong "failed".      *)
THEOREM TerminalLasts ==
  LiveSpec => [][\A k \in Clients : Lasting(k)]_<<vars, liveVars>>
<1>1. ASSUME LiveIndInv, LiveNext, NEW k \in Clients PROVE Lasting(k)
  <2> SUFFICES ASSUME NEW i \in DOMAIN sent[k], IsTerminal(sent[k][i])
               PROVE  /\ sent'[k] = sent[k]
                      /\ sent[k][i].status = "done" \/ ~Used("db") =>
                           /\ status'[Watches[k]] = status[Watches[k]]
                           /\ verdict'[Watches[k]] = verdict[Watches[k]]
    BY DEF Lasting
  <2>1. StreamSound(k)
    BY <1>1 DEF LiveIndInv
  <2>2. conn[k] # "streaming"
    BY <2>1 DEF StreamSound
  <2>3. conn[k] # "subscribed"
    BY <2>1 DEF StreamSound
  <2>4. sent'[k] = sent[k]
    BY <1>1, <2>2, <2>3, SentGrows
  <2>5. EventTrue(Watches[k], sent[k][i])
    BY <1>1 DEF LiveIndInv, TerminalMatchesRow
  <2>6. Watches[k] \in Submissions /\ RowStep(Watches[k])
    BY <1>1, PipelineKept DEF LiveIndInv
  <2> QED BY <2>4, <2>5, <2>6 DEF EventTrue, IsTerminal, RowStep
<1>2. LiveIndInv /\ LiveNext => \A k \in Clients : Lasting(k)
  BY <1>1
<1> QED BY <1>2, LiveInvariance, PTL DEF LiveSpec
-----------------------------------------------------------------------------
(* The settling of row s is about to be announced.                         *)
Announcing(s) == \E c \in Consumers : pc[c] \in {"pubDone", "pubFailed"} /\ job[c] = s

(* The event that ends client k's stream is on its way.                    *)
OnItsWay(k) ==
  \/ \E i \in DOMAIN inbox[k] : IsTerminal(inbox[k][i])
  \/ hand[k] # None /\ IsTerminal(hand[k])

(* Client k is subscribed, and the end of its stream is still to come.     *)
Awaits(k) ==
  /\ conn[k] = "streaming" /\ sub[k] = "active"
  /\ status[Watches[k]] \notin Settled \/ Announcing(Watches[k]) \/ OnItsWay(k)

(* A step after which every fault is still unused is no fault, and finds   *)
(* no job past its deadline.                                               *)
LEMMA FaultFree ==
  ASSUME IndInv, LiveNext, budget' = Budget
  PROVE  expired = {} /\ \A j \in FaultKinds : ~Fault(j)
<1>1. ASSUME NEW j \in FaultKinds, Fault(j) PROVE FALSE
  <2>1. budget'[j] = budget[j] - 1 /\ budget[j] \in Nat /\ Budget[j] \in Nat
    BY <1>1 DEF Fault, IndInv, TypeOK, ServiceTypes
  <2>2. budget[j] <= Budget[j]
    BY DEF IndInv, Bookkeeping, FaultsAccounted
  <2> QED BY <2>1, <2>2
<1>2. UNCHANGED budget
  BY <1>1, PipelineSteps, StepsUseFaults DEF vars
<1>3. ~Used("deadline")
  BY <1>2 DEF IndInv, TypeOK, ServiceTypes
<1> QED BY <1>1, <1>3 DEF IndInv, Bookkeeping, FaultsAccounted

(* Without a fault no step but PUBLISH ends an announcement, and a row     *)
(* that settles is about to be announced.                                  *)
LEMMA AnnouncingStays ==
  ASSUME IndInv, QuietNext, expired = {}, \A j \in FaultKinds : ~Fault(j),
         NEW s \in Submissions, status[s] \notin Settled \/ Announcing(s)
  PROVE  (status[s] \notin Settled \/ Announcing(s))'
<1>0. /\ pc \in [Consumers -> Labels] /\ job \in [Consumers -> Submissions \cup {None}]
      /\ status \in [Submissions -> RowStates]
  BY DEF IndInv, TypeOK, RowTypes, WorkerTypes
<1>1. ASSUME NEW d \in Consumers, QuietStep(d) \/ Expire(d)
      PROVE  (status[s] \notin Settled \/ Announcing(s))'
  <2>1. CASE RecordDone(d) \/ RecordFailed(d)
    <3>1. /\ pc[d] \in {"markDone", "markFailed"} /\ pc'[d] \in {"pubDone", "pubFailed"}
          /\ job' = job /\ \A c \in Consumers \ {d} : pc'[c] = pc[c]
      BY <1>0, <2>1 DEF RecordDone, RecordFailed, GoTo
    <3>2. status'[s] = status[s] \/ s = job[d]
      BY <1>0, <2>1 DEF RecordDone, RecordFailed, MarkDone, MarkFailed, SetRow
    <3>3. CASE s = job[d]
      BY <3>1, <3>3 DEF Announcing
    <3>4. ASSUME status'[s] = status[s], NEW c \in Consumers,
                 pc[c] \in {"pubDone", "pubFailed"}, job[c] = s
          PROVE  Announcing(s)'
      BY <3>1, <3>4 DEF Announcing
    <3> QED BY <3>2, <3>3, <3>4 DEF Announcing
  <2>2. CASE ~(RecordDone(d) \/ RecordFailed(d))
    <3>1. /\ \A c \in Consumers \ {d} : pc'[c] = pc[c] /\ job'[c] = job[c]
          /\ pc[d] \notin {"pubDone", "pubFailed"}
      BY <1>0, <1>1, <2>2
         DEF QuietStep, LoopTop, ReadNothing, Deliver, ReadErr, ClaimWon, ClaimRefused,
             ClaimErr, Fails, PublishErr, PublishCall, JudgeOk, JudgeErr, RecordDoneErr,
             RecordFailedErr, Ack, AckErr, Nack, Return, GoTo, Expire
    <3>2. Announcing(s) => Announcing(s)'
      BY <3>1 DEF Announcing
    <3>3. status' = status \/ SetRow(job[d], "running")
      BY <1>1, <2>2
         DEF QuietStep, LoopTop, ReadNothing, Deliver, ReadErr, ClaimWon, ClaimRefused,
             ClaimErr, Fails, PublishErr, PublishCall, JudgeOk, JudgeErr, RecordDoneErr,
             RecordFailedErr, Ack, AckErr, MarkRunning, Expire
    <3>4. status[s] \notin Settled => status'[s] \notin Settled
      BY <1>0, <3>3 DEF SetRow
    <3> QED BY <3>2, <3>4
  <2> QED BY <2>1, <2>2
<1>2. ASSUME NEW t \in Submissions, Request(t) \/ Age(t)
      PROVE  (status[s] \notin Settled \/ Announcing(s))'
  <2>1. UNCHANGED <<pc, job>>
    BY <1>2 DEF Request, Create, CreateErr, Insert, EnqueueNew, EnqueueNewErr, Age
  <2>2. status' = status \/ SetRow(t, "queued")
    BY <1>2 DEF Request, Create, CreateErr, Insert, EnqueueNew, EnqueueNewErr, Age
  <2> QED BY <1>0, <2>1, <2>2 DEF Announcing, SetRow
<1>3. ASSUME NEW p \in Workers, WorkerProcess(p)
      PROVE  (status[s] \notin Settled \/ Announcing(s))'
  <2>1. UNCHANGED <<status, job>>
    BY <1>3 DEF WorkerProcess, StartWorker, StopWorker, ExitWorker, CrashWorker
  <2>2. \A c \in Consumers : pc[c] \in {"pubDone", "pubFailed"} => pc'[c] = pc[c]
    BY <1>3
       DEF WorkerProcess, StartWorker, StopWorker, ExitWorker, CrashWorker, ConsumersOf,
           IndInv, Bookkeeping, DownIsIdle
  <2> QED BY <2>1, <2>2 DEF Announcing
<1>4. CASE StartApi \/ StopApi \/ Sweeper
  <2>1. UNCHANGED <<status, pc, job>>
    BY <1>4 DEF StartApi, StopApi, Sweeper, SweepList, SweepEnqueue, SweepSkip
  <2> QED BY <2>1 DEF Announcing
<1> QED BY <1>1, <1>2, <1>3, <1>4 DEF QuietNext

(* Taking the head leaves the others.                                      *)
LEMMA BehindHead ==
  ASSUME NEW q \in Seq(Events), NEW i \in 1..Len(q), i # 1
  PROVE  i - 1 \in DOMAIN Tail(q) /\ Tail(q)[i - 1] = q[i]
<1>1. i \in Nat /\ i > 1 /\ i <= Len(q) /\ Len(q) \in Nat /\ q # <<>>
  OBVIOUS
<1>2. Len(Tail(q)) = Len(q) - 1 /\ Tail(q) \in Seq(Events)
  BY <1>1
<1>3. \A m \in 1..Len(Tail(q)) : Tail(q)[m] = q[m + 1]
  BY <1>1, <1>2
<1>4. i - 1 \in 1..Len(Tail(q)) /\ (i - 1) + 1 = i
  BY <1>1, <1>2
<1> QED BY <1>2, <1>3, <1>4

(* A PUBLISH reaches those it is for, before the announcement is over.     *)
LEMMA BroadcastStays ==
  ASSUME LiveIndInv, NEW c \in Consumers, Broadcast(c), NEW k \in Clients, Awaits(k)
  PROVE  Awaits(k)'
<1>0. /\ inbox[k] \in Seq(Events) /\ UNCHANGED <<conn, sub, hand, status, job>>
      /\ pc \in [Consumers -> Labels] /\ sub[k] = "active"
  BY DEF LiveIndInv, LiveTypeOK, IndInv, TypeOK, WorkerTypes, Broadcast, Publish, PublishCall,
         Awaits
<1>1. EventOf(c) \in Events
  <2>1. report[c] \in Verdicts \cup {None}
    BY DEF LiveIndInv, IndInv, TypeOK, WorkerTypes
  <2> QED BY <2>1 DEF EventOf, Event, Events
<1>2. inbox'[k] = inbox[k] \/ inbox'[k] = Append(inbox[k], EventOf(c))
  BY DEF Broadcast
<1>3. OnItsWay(k) => OnItsWay(k)'
  <2>1. ASSUME NEW i \in DOMAIN inbox[k]
        PROVE  i \in DOMAIN inbox'[k] /\ inbox'[k][i] = inbox[k][i]
    BY <1>0, <1>1, <1>2, Appended
  <2> QED BY <1>0, <2>1 DEF OnItsWay
<1>4. ASSUME NEW d \in Consumers, pc[d] \in {"pubDone", "pubFailed"}, job[d] = Watches[k]
      PROVE  Announcing(Watches[k])' \/ OnItsWay(k)'
  <2>1. CASE d # c
    <3>1. pc'[d] = pc[d]
      BY <1>0, <2>1 DEF Broadcast, Publish, PublishCall, GoTo
    <3> QED BY <1>0, <1>4, <3>1 DEF Announcing
  <2>2. CASE d = c
    <3>1. inbox'[k] = Append(inbox[k], EventOf(c))
      BY <1>0, <1>4, <2>2 DEF Broadcast
    <3>2. IsTerminal(EventOf(c))
      BY <1>4, <2>2 DEF EventOf, Event, IsTerminal
    <3>3. /\ Len(inbox[k]) + 1 \in DOMAIN inbox'[k]
          /\ inbox'[k][Len(inbox[k]) + 1] = EventOf(c)
      BY <1>0, <1>1, <3>1, Appended
    <3> QED BY <3>2, <3>3 DEF OnItsWay
  <2> QED BY <2>1, <2>2
<1> QED BY <1>0, <1>3, <1>4 DEF Awaits, Announcing

(* Handler and forwarder pass the event on, or the stream closes.          *)
LEMMA StreamStays ==
  ASSUME LiveIndInv, \A j \in FaultKinds : ~Fault(j),
         NEW j \in Clients, StreamStep(j), NEW k \in Clients, Awaits(k)
  PROVE  Awaits(k)' \/ conn'[k] = "closed"
<1>0. /\ conn[k] = "streaming" /\ sub[k] = "active"
      /\ conn \in [Clients -> {"idle", "subscribed", "streaming", "closed"}]
      /\ sub \in [Clients -> {"off", "asked", "active"}]
      /\ inbox \in [Clients -> Seq(Events)] /\ hand \in [Clients -> Events \cup {None}]
  BY DEF LiveIndInv, LiveTypeOK, Awaits
<1>1. ~SubscriptionDrops(j)
  BY DEF SubscriptionDrops
<1>2. UNCHANGED <<status, pc, job>>
  BY <1>1
     DEF StreamStep, Connect, Subscribed, Snapshot, SnapshotErr, Relay, Disconnect, Take, Quit,
         vars
<1>3. CASE j # k
  <2>1. conn'[k] = conn[k] /\ sub'[k] = sub[k] /\ inbox'[k] = inbox[k] /\ hand'[k] = hand[k]
    BY <1>0, <1>1, <1>3
       DEF StreamStep, Connect, Subscribed, Snapshot, SnapshotErr, Relay, Disconnect, Take,
           Quit, Close
  <2> QED BY <1>2, <2>1 DEF Awaits, OnItsWay, Announcing
<1>4. CASE j = k
  <2>1. CASE Disconnect(k)
    BY <1>0, <2>1 DEF Disconnect, Close
  <2>2. CASE Relay(k)
    <3>1. CASE IsTerminal(hand[k])
      BY <1>0, <2>2, <3>1 DEF Relay, Close
    <3>2. CASE ~IsTerminal(hand[k])
      <4>1. conn' = conn /\ sub' = sub /\ inbox' = inbox
        BY <2>2, <3>2 DEF Relay
      <4>2. OnItsWay(k) => OnItsWay(k)'
        BY <3>2, <4>1 DEF OnItsWay
      <4> QED BY <1>2, <4>1, <4>2 DEF Awaits, Announcing
    <3> QED BY <3>1, <3>2
  <2>3. CASE Take(k)
    <3>1. /\ inbox[k] # <<>> /\ hand[k] = None
          /\ hand'[k] = Head(inbox[k]) /\ inbox'[k] = Tail(inbox[k])
          /\ conn' = conn /\ sub' = sub
      BY <1>0, <2>3 DEF Take
    <3>2. ASSUME NEW i \in DOMAIN inbox[k], IsTerminal(inbox[k][i]) PROVE OnItsWay(k)'
      <4>1. inbox[k] \in Seq(Events) /\ i \in 1..Len(inbox[k])
        BY <1>0
      <4>2. CASE i = 1
        <5>1. hand'[k] = inbox[k][i] /\ hand'[k] # None
          BY <3>1, <4>1, <4>2, EventsAssumption
        <5> QED BY <3>2, <5>1 DEF OnItsWay
      <4>3. CASE i # 1
        <5>1. i - 1 \in DOMAIN Tail(inbox[k]) /\ Tail(inbox[k])[i - 1] = inbox[k][i]
          BY <3>1, <4>1, <4>3, BehindHead
        <5> QED BY <3>1, <3>2, <5>1 DEF OnItsWay
      <4> QED BY <4>2, <4>3
    <3>3. OnItsWay(k) => OnItsWay(k)'
      BY <3>1, <3>2 DEF OnItsWay
    <3> QED BY <1>2, <3>1, <3>3 DEF Awaits, Announcing
  <2>4. ~(Connect(k) \/ Subscribed(k) \/ Snapshot(k) \/ SnapshotErr(k) \/ Quit(k))
    BY <1>0 DEF Connect, Subscribed, Snapshot, SnapshotErr, Quit
  <2> QED BY <1>1, <1>4, <2>1, <2>2, <2>3, <2>4 DEF StreamStep
<1> QED BY <1>3, <1>4

(* Events of handler.go, events.go and publish of worker.go: as long as no *)
(* fault has struck, nothing between the worker and a client whose         *)
(* subscription Redis knows loses the event its stream ends with, whatever *)
(* settles, is published, taken or relayed in what order.                  *)
THEOREM NoEndIsLost ==
  LiveSpec => [][\A k \in Clients :
                   Awaits(k) /\ budget' = Budget =>
                     Awaits(k)' \/ conn'[k] = "closed"]_<<vars, liveVars>>
<1>1. ASSUME LiveIndInv, LiveNext, budget' = Budget, NEW k \in Clients, Awaits(k)
      PROVE  Awaits(k)' \/ conn'[k] = "closed"
  <2>1. IndInv /\ expired = {} /\ \A j \in FaultKinds : ~Fault(j)
    BY <1>1, FaultFree DEF LiveIndInv
  <2>2. CASE QuietNext /\ UNCHANGED liveVars
    <3>1. Watches[k] \in Submissions
      OBVIOUS
    <3>2. status[Watches[k]] \notin Settled \/ Announcing(Watches[k])
            => (status[Watches[k]] \notin Settled \/ Announcing(Watches[k]))'
      BY <2>1, <2>2, <3>1, AnnouncingStays
    <3>3. OnItsWay(k) => OnItsWay(k)'
      BY <2>2 DEF OnItsWay
    <3> QED BY <1>1, <2>2, <3>2, <3>3 DEF Awaits
  <2>3. CASE \E c \in Consumers : Broadcast(c)
    BY <1>1, <2>3, BroadcastStays
  <2>4. CASE StreamsCut
    BY <1>1, <2>4 DEF StreamsCut, Awaits
  <2>5. CASE RedisRestarts
    BY <2>1, <2>5 DEF RedisRestarts, Wipe
  <2>6. CASE \E j \in Clients : StreamStep(j)
    BY <1>1, <2>1, <2>6, StreamStays
  <2> QED BY <1>1, <2>2, <2>3, <2>4, <2>5, <2>6 DEF LiveNext
<1>2. LiveIndInv /\ LiveNext =>
        \A k \in Clients : Awaits(k) /\ budget' = Budget => Awaits(k)' \/ conn'[k] = "closed"
  BY <1>1
<1> QED BY <1>2, LiveInvariance, PTL DEF LiveSpec
=============================================================================
