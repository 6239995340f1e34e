----------------------------- MODULE PipelineProofs -----------------------------
(***************************************************************************)
(* Theorems about SubmissionPipeline, for any set of submissions, workers  *)
(* and consumers and any number of faults.  IndInv is shown inductive, one *)
(* lemma per action; the safety properties are its conjuncts.  From it     *)
(* follow that rows never go back and that the pipeline implements         *)
(* OneShotJob.                                                             *)
(***************************************************************************)
EXTENDS SubmissionPipeline, TLAPS

USE ConstantsAssumption
  DEF Owning, Processing, Labels, Settled, RowStates, ProcStates, FaultKinds, Used,
      rowVars, queueVars, apiVars, workerVars

(* What is known of the job in the hands of a consumer.                    *)
JobFacts(c) ==
  /\ job[c] \in Submissions \cup {None}
  /\ pc[c] \in Processing => job[c] \in Submissions /\ job[c] # None

(* A consumer that processes an entry has a submission in hand.            *)
LEMMA JobInHand == ASSUME IndInv, NEW c \in Consumers PROVE JobFacts(c)
  BY DEF IndInv, TypeOK, RowTypes, ServiceTypes, WorkerTypes, JobFacts

(* A fault that has been used stays used.                                  *)
LEMMA FaultsOnlyGrow ==
  ASSUME IndInv, UNCHANGED budget \/ \E k \in FaultKinds : Fault(k)
  PROVE  \A k \in FaultKinds : Used(k) => Used(k)'
<1>1. budget \in [FaultKinds -> Nat] /\ Budget \in [FaultKinds -> Nat]
  BY DEF IndInv, TypeOK, ServiceTypes
<1>2. \A k \in FaultKinds : budget'[k] \in Nat /\ budget'[k] <= budget[k]
  BY <1>1 DEF Fault
<1> QED BY <1>1, <1>2

(* A step that moves no row and no owner keeps the ownership facts.        *)
LEMMA OwnersFrame ==
  ASSUME IndInv, UNCHANGED status,
         \A d \in Consumers :
           /\ (pc'[d] \in Owning <=> pc[d] \in Owning)
           /\ (pc[d] \in Owning => job'[d] = job[d]),
         UNCHANGED budget \/ \E k \in FaultKinds : Fault(k)
  PROVE  Ownership'
<1>1. AtMostOneOwner' /\ OwnerHoldsRunningRow'
  BY DEF IndInv, Ownership, AtMostOneOwner, OwnerHoldsRunningRow
<1>2. \A s \in Submissions : Orphan(s)' <=> Orphan(s)
  BY DEF Orphan, Owns
<1>3. OrphanNeedsCause'
  BY <1>2, FaultsOnlyGrow DEF IndInv, Ownership, OrphanNeedsCause
<1> QED BY <1>1, <1>3 DEF Ownership

(* A step that touches neither rows nor consumers keeps all but the types  *)
(* and the bookkeeping.                                                    *)
LEMMA RowsFrame ==
  ASSUME IndInv, UNCHANGED <<status, verdict, pc, job, report>>,
         UNCHANGED budget \/ \E k \in FaultKinds : Fault(k)
  PROVE  Ownership' /\ Outcomes'
<1>1. Ownership'
  BY OwnersFrame
<1>2. Outcomes'
  BY SMTT(40)
     DEF IndInv, TypeOK, RowTypes, ServiceTypes, WorkerTypes, Bookkeeping,
         EntriesNameRows, ReportInHand, Ownership, OwnerHoldsRunningRow,
         AtMostOneOwner, Outcomes, VerdictIffDone, AckNeverQueued,
         DoneEventMatchesRow
<1> QED BY <1>1, <1>2

(* One lemma per action.  The API process first.                           *)
LEMMA KeepsStartApi ==
  ASSUME IndInv, StartApi
  PROVE  IndInv'
<1>1. TypeOK'
  BY SMTT(40)
     DEF IndInv, StartApi, CreateGroup, TypeOK, RowTypes, ServiceTypes,
         WorkerTypes, Bookkeeping, DownIsIdle
<1>2. Bookkeeping'
  BY SMTT(40)
     DEF IndInv, StartApi, CreateGroup, TypeOK, RowTypes, ServiceTypes,
         WorkerTypes, Bookkeeping, ReportInHand, OnlyJobsInHand,
         EntriesNameRows, DownIsIdle, FaultsAccounted
<1>3. Ownership' /\ Outcomes'
  BY RowsFrame
     DEF IndInv, StartApi, CreateGroup, TypeOK, RowTypes, ServiceTypes,
         WorkerTypes
<1> QED BY <1>1, <1>2, <1>3 DEF IndInv

(* StopApi keeps the invariant.                                            *)
LEMMA KeepsStopApi ==
  ASSUME IndInv, StopApi
  PROVE  IndInv'
<1>1. TypeOK'
  BY SMTT(40)
     DEF IndInv, StopApi, TypeOK, RowTypes, ServiceTypes, WorkerTypes,
         Bookkeeping, DownIsIdle
<1>2. Bookkeeping'
  BY SMTT(40)
     DEF IndInv, StopApi, TypeOK, RowTypes, ServiceTypes, WorkerTypes,
         Bookkeeping, ReportInHand, OnlyJobsInHand, EntriesNameRows,
         DownIsIdle, FaultsAccounted
<1>3. Ownership' /\ Outcomes'
  BY RowsFrame DEF IndInv, StopApi, TypeOK, RowTypes, ServiceTypes, WorkerTypes
<1> QED BY <1>1, <1>2, <1>3 DEF IndInv

(* ExitApi keeps the invariant.                                            *)
LEMMA KeepsExitApi ==
  ASSUME IndInv, ExitApi
  PROVE  IndInv'
<1>1. TypeOK'
  BY SMTT(40)
     DEF IndInv, ExitApi, ApiGone, TypeOK, RowTypes, ServiceTypes,
         WorkerTypes, Bookkeeping, DownIsIdle
<1>2. Bookkeeping'
  BY SMTT(40)
     DEF IndInv, ExitApi, ApiGone, TypeOK, RowTypes, ServiceTypes,
         WorkerTypes, Bookkeeping, ReportInHand, OnlyJobsInHand,
         EntriesNameRows, DownIsIdle, FaultsAccounted
<1>3. Ownership' /\ Outcomes'
  BY RowsFrame
     DEF IndInv, ExitApi, ApiGone, TypeOK, RowTypes, ServiceTypes, WorkerTypes
<1> QED BY <1>1, <1>2, <1>3 DEF IndInv

(* CrashApi keeps the invariant.                                           *)
LEMMA KeepsCrashApi ==
  ASSUME IndInv, CrashApi
  PROVE  IndInv'
<1>1. TypeOK'
  BY SMTT(40)
     DEF IndInv, CrashApi, ApiGone, Fault, TypeOK, RowTypes, ServiceTypes,
         WorkerTypes, Bookkeeping, DownIsIdle
<1>2. Bookkeeping'
  BY SMTT(40)
     DEF IndInv, CrashApi, ApiGone, Fault, TypeOK, RowTypes, ServiceTypes,
         WorkerTypes, Bookkeeping, ReportInHand, OnlyJobsInHand,
         EntriesNameRows, DownIsIdle, FaultsAccounted
<1>3. Ownership' /\ Outcomes'
  BY RowsFrame
     DEF IndInv, CrashApi, ApiGone, Fault, TypeOK, RowTypes, ServiceTypes,
         WorkerTypes
<1> QED BY <1>1, <1>2, <1>3 DEF IndInv

(* Create keeps the invariant.                                             *)
LEMMA KeepsCreate ==
  ASSUME IndInv, NEW s \in Submissions, Create(s)
  PROVE  IndInv'
<1>1. TypeOK'
  BY SMTT(40)
     DEF IndInv, Create, Insert, SetRow, TypeOK, RowTypes, ServiceTypes,
         WorkerTypes, Bookkeeping, DownIsIdle
<1>2. Bookkeeping'
  BY SMTT(40)
     DEF IndInv, Create, Insert, SetRow, TypeOK, RowTypes, ServiceTypes,
         WorkerTypes, Bookkeeping, ReportInHand, OnlyJobsInHand,
         EntriesNameRows, DownIsIdle, FaultsAccounted
<1>3. Ownership'
  BY SMTT(40)
     DEF IndInv, Create, Insert, SetRow, TypeOK, RowTypes, ServiceTypes,
         WorkerTypes, Bookkeeping, FaultsAccounted, Ownership, AtMostOneOwner,
         OwnerHoldsRunningRow, OrphanNeedsCause, Orphan, Owns
<1>4. Outcomes'
  BY SMTT(40)
     DEF IndInv, Create, Insert, SetRow, TypeOK, RowTypes, ServiceTypes,
         WorkerTypes, Bookkeeping, EntriesNameRows, ReportInHand, Ownership,
         OwnerHoldsRunningRow, AtMostOneOwner, Outcomes, VerdictIffDone,
            AckNeverQueued, DoneEventMatchesRow
<1> QED BY <1>1, <1>2, <1>3, <1>4 DEF IndInv

(* CreateErr keeps the invariant.                                          *)
LEMMA KeepsCreateErr ==
  ASSUME IndInv, NEW s \in Submissions, CreateErr(s)
  PROVE  IndInv'
<1>1. TypeOK'
  BY SMTT(40)
     DEF IndInv, CreateErr, Insert, SetRow, Fault, TypeOK, RowTypes,
         ServiceTypes, WorkerTypes, Bookkeeping, DownIsIdle
<1>2. Bookkeeping'
  BY SMTT(40)
     DEF IndInv, CreateErr, Insert, SetRow, Fault, TypeOK, RowTypes,
         ServiceTypes, WorkerTypes, Bookkeeping, ReportInHand, OnlyJobsInHand,
         EntriesNameRows, DownIsIdle, FaultsAccounted
<1>3. Ownership'
  BY SMTT(40)
     DEF IndInv, CreateErr, Insert, SetRow, Fault, TypeOK, RowTypes,
         ServiceTypes, WorkerTypes, Bookkeeping, FaultsAccounted, Ownership,
         AtMostOneOwner, OwnerHoldsRunningRow, OrphanNeedsCause, Orphan, Owns
<1>4. Outcomes'
  BY SMTT(40)
     DEF IndInv, CreateErr, Insert, SetRow, Fault, TypeOK, RowTypes,
         ServiceTypes, WorkerTypes, Bookkeeping, EntriesNameRows,
         ReportInHand, Ownership, OwnerHoldsRunningRow, AtMostOneOwner,
            Outcomes, VerdictIffDone, AckNeverQueued, DoneEventMatchesRow
<1> QED BY <1>1, <1>2, <1>3, <1>4 DEF IndInv

(* EnqueueNew keeps the invariant.                                         *)
LEMMA KeepsEnqueueNew ==
  ASSUME IndInv, NEW s \in Submissions, EnqueueNew(s)
  PROVE  IndInv'
<1>1. TypeOK'
  BY SMTT(40)
     DEF IndInv, EnqueueNew, XAdd, TypeOK, RowTypes, ServiceTypes,
         WorkerTypes, Bookkeeping, DownIsIdle
<1>2. Bookkeeping'
  BY SMTT(40)
     DEF IndInv, EnqueueNew, XAdd, TypeOK, RowTypes, ServiceTypes,
         WorkerTypes, Bookkeeping, ReportInHand, OnlyJobsInHand,
         EntriesNameRows, DownIsIdle, FaultsAccounted
<1>3. Ownership' /\ Outcomes'
  BY RowsFrame
     DEF IndInv, EnqueueNew, XAdd, TypeOK, RowTypes, ServiceTypes, WorkerTypes
<1> QED BY <1>1, <1>2, <1>3 DEF IndInv

(* EnqueueNewErr keeps the invariant.                                      *)
LEMMA KeepsEnqueueNewErr ==
  ASSUME IndInv, NEW s \in Submissions, EnqueueNewErr(s)
  PROVE  IndInv'
<1>1. TypeOK'
  BY SMTT(40)
     DEF IndInv, EnqueueNewErr, Fault, TypeOK, RowTypes, ServiceTypes,
         WorkerTypes, Bookkeeping, DownIsIdle
<1>2. Bookkeeping'
  BY SMTT(40)
     DEF IndInv, EnqueueNewErr, Fault, TypeOK, RowTypes, ServiceTypes,
         WorkerTypes, Bookkeeping, ReportInHand, OnlyJobsInHand,
         EntriesNameRows, DownIsIdle, FaultsAccounted
<1>3. Ownership' /\ Outcomes'
  BY RowsFrame
     DEF IndInv, EnqueueNewErr, Fault, TypeOK, RowTypes, ServiceTypes,
         WorkerTypes
<1> QED BY <1>1, <1>2, <1>3 DEF IndInv

(* Age keeps the invariant.                                                *)
LEMMA KeepsAge ==
  ASSUME IndInv, NEW s \in Submissions, Age(s)
  PROVE  IndInv'
<1>1. TypeOK'
  BY SMTT(40)
     DEF IndInv, Age, TypeOK, RowTypes, ServiceTypes, WorkerTypes,
         Bookkeeping, DownIsIdle
<1>2. Bookkeeping'
  BY SMTT(40)
     DEF IndInv, Age, TypeOK, RowTypes, ServiceTypes, WorkerTypes,
         Bookkeeping, ReportInHand, OnlyJobsInHand, EntriesNameRows,
         DownIsIdle, FaultsAccounted
<1>3. Ownership' /\ Outcomes'
  BY RowsFrame DEF IndInv, Age, TypeOK, RowTypes, ServiceTypes, WorkerTypes
<1> QED BY <1>1, <1>2, <1>3 DEF IndInv

(* SweepList keeps the invariant.                                          *)
LEMMA KeepsSweepList ==
  ASSUME IndInv, SweepList
  PROVE  IndInv'
<1>1. sweep' \subseteq Submissions
  BY DEF IndInv, TypeOK, RowTypes, ServiceTypes, WorkerTypes, SweepList, StaleQueued
<1>2. TypeOK'
  BY <1>1, SMTT(40)
     DEF IndInv, SweepList, StaleQueued, TypeOK, RowTypes, ServiceTypes,
         WorkerTypes, Bookkeeping, DownIsIdle
<1>3. Bookkeeping'
  BY <1>1, SMTT(40)
     DEF IndInv, SweepList, StaleQueued, TypeOK, RowTypes, ServiceTypes,
         WorkerTypes, Bookkeeping, ReportInHand, OnlyJobsInHand,
         EntriesNameRows, DownIsIdle, FaultsAccounted
<1>4. Ownership' /\ Outcomes'
  BY <1>1, RowsFrame
     DEF IndInv, SweepList, StaleQueued, TypeOK, RowTypes, ServiceTypes,
         WorkerTypes
<1> QED BY <1>2, <1>3, <1>4 DEF IndInv

(* SweepEnqueue keeps the invariant.                                       *)
LEMMA KeepsSweepEnqueue ==
  ASSUME IndInv, NEW s \in Submissions, SweepEnqueue(s)
  PROVE  IndInv'
<1>1. TypeOK'
  BY SMTT(40)
     DEF IndInv, SweepEnqueue, XAdd, NextSwept, TypeOK, RowTypes,
         ServiceTypes, WorkerTypes, Bookkeeping, DownIsIdle
<1>2. Bookkeeping'
  BY SMTT(40)
     DEF IndInv, SweepEnqueue, XAdd, NextSwept, TypeOK, RowTypes,
         ServiceTypes, WorkerTypes, Bookkeeping, ReportInHand, OnlyJobsInHand,
         EntriesNameRows, DownIsIdle, FaultsAccounted
<1>3. Ownership' /\ Outcomes'
  BY RowsFrame
     DEF IndInv, SweepEnqueue, XAdd, NextSwept, TypeOK, RowTypes,
         ServiceTypes, WorkerTypes
<1> QED BY <1>1, <1>2, <1>3 DEF IndInv

(* SweepSkip keeps the invariant.                                          *)
LEMMA KeepsSweepSkip ==
  ASSUME IndInv, NEW s \in Submissions, SweepSkip(s)
  PROVE  IndInv'
<1>1. TypeOK'
  BY SMTT(40)
     DEF IndInv, SweepSkip, NextSwept, Fault, TypeOK, RowTypes, ServiceTypes,
         WorkerTypes, Bookkeeping, DownIsIdle
<1>2. Bookkeeping'
  BY SMTT(40)
     DEF IndInv, SweepSkip, NextSwept, Fault, TypeOK, RowTypes, ServiceTypes,
         WorkerTypes, Bookkeeping, ReportInHand, OnlyJobsInHand,
         EntriesNameRows, DownIsIdle, FaultsAccounted
<1>3. Ownership' /\ Outcomes'
  BY RowsFrame
     DEF IndInv, SweepSkip, NextSwept, Fault, TypeOK, RowTypes, ServiceTypes,
         WorkerTypes
<1> QED BY <1>1, <1>2, <1>3 DEF IndInv

(* Redis restarts empty.                                                   *)
LEMMA KeepsWipe ==
  ASSUME IndInv, Wipe
  PROVE  IndInv'
<1>1. /\ stream' \in Seq(Submissions)
      /\ stranded' \subseteq Submissions
      /\ pending' \subseteq Consumers
  BY DEF Wipe
<1>2. budget' \in [FaultKinds -> Nat]
  BY DEF IndInv, TypeOK, RowTypes, ServiceTypes, WorkerTypes, Wipe, Fault
<1>3. TypeOK'
  <2>1. RowTypes'
    BY <1>1, <1>2 DEF IndInv, TypeOK, RowTypes, Wipe, Fault
  <2>2. ServiceTypes'
    BY <1>1, <1>2 DEF IndInv, TypeOK, ServiceTypes, WorkerTypes, Wipe, Fault
  <2>3. WorkerTypes'
    BY <1>1, <1>2 DEF IndInv, TypeOK, WorkerTypes, Wipe, Fault
  <2> QED BY <2>1, <2>2, <2>3 DEF TypeOK
<1>4. Bookkeeping'
  BY <1>1, <1>2, SMTT(40)
     DEF IndInv, Wipe, Fault, TypeOK, RowTypes, ServiceTypes, WorkerTypes,
         Bookkeeping, ReportInHand, OnlyJobsInHand, EntriesNameRows,
         DownIsIdle, FaultsAccounted
<1>5. Ownership' /\ Outcomes'
  BY <1>1, <1>2, RowsFrame
     DEF IndInv, Wipe, Fault, TypeOK, RowTypes, ServiceTypes, WorkerTypes
<1> QED BY <1>3, <1>4, <1>5 DEF IndInv

(* Worker processes: a dead one has no consumers to be overwritten.        *)
LEMMA KeepsStartWorker ==
  ASSUME IndInv, NEW p \in Workers, StartWorker(p)
  PROVE  IndInv'
<1>1. \A c \in ConsumersOf(p) : pc[c] = "exited"
  BY DEF IndInv, Bookkeeping, DownIsIdle, StartWorker, ConsumersOf
<1>2. \A c \in Consumers : pc[c] # pc'[c] => pc[c] = "exited" /\ pc'[c] = "top"
  BY <1>1 DEF StartWorker, ConsumersOf
<1>3. TypeOK'
  BY <1>1, <1>2, SMTT(40)
     DEF IndInv, StartWorker, CreateGroup, ConsumersOf, TypeOK, RowTypes,
         ServiceTypes, WorkerTypes, Bookkeeping, DownIsIdle
<1>4. Bookkeeping'
  BY <1>1, <1>2, SMTT(40)
     DEF IndInv, StartWorker, CreateGroup, ConsumersOf, TypeOK, RowTypes,
         ServiceTypes, WorkerTypes, Bookkeeping, ReportInHand, OnlyJobsInHand,
         EntriesNameRows, DownIsIdle, FaultsAccounted
<1>5. Ownership'
  BY <1>1, <1>2, SMTT(40)
     DEF IndInv, StartWorker, CreateGroup, ConsumersOf, TypeOK, RowTypes,
         ServiceTypes, WorkerTypes, Bookkeeping, FaultsAccounted, Ownership,
         AtMostOneOwner, OwnerHoldsRunningRow, OrphanNeedsCause, Orphan, Owns
<1>6. Outcomes'
  BY <1>1, <1>2, SMTT(40)
     DEF IndInv, StartWorker, CreateGroup, ConsumersOf, TypeOK, RowTypes,
         ServiceTypes, WorkerTypes, Bookkeeping, EntriesNameRows,
         ReportInHand, Ownership, OwnerHoldsRunningRow, AtMostOneOwner,
            Outcomes, VerdictIffDone, AckNeverQueued, DoneEventMatchesRow
<1> QED BY <1>3, <1>4, <1>5, <1>6 DEF IndInv

(* StopWorker keeps the invariant.                                         *)
LEMMA KeepsStopWorker ==
  ASSUME IndInv, NEW p \in Workers, StopWorker(p)
  PROVE  IndInv'
<1>1. TypeOK'
  BY SMTT(40)
     DEF IndInv, StopWorker, TypeOK, RowTypes, ServiceTypes, WorkerTypes,
         Bookkeeping, DownIsIdle
<1>2. Bookkeeping'
  BY SMTT(40)
     DEF IndInv, StopWorker, TypeOK, RowTypes, ServiceTypes, WorkerTypes,
         Bookkeeping, ReportInHand, OnlyJobsInHand, EntriesNameRows,
         DownIsIdle, FaultsAccounted
<1>3. Ownership' /\ Outcomes'
  BY RowsFrame DEF IndInv, StopWorker, TypeOK, RowTypes, ServiceTypes, WorkerTypes
<1> QED BY <1>1, <1>2, <1>3 DEF IndInv

(* ExitWorker keeps the invariant.                                         *)
LEMMA KeepsExitWorker ==
  ASSUME IndInv, NEW p \in Workers, ExitWorker(p)
  PROVE  IndInv'
<1>1. TypeOK'
  BY SMTT(40)
     DEF IndInv, ExitWorker, ConsumersOf, TypeOK, RowTypes, ServiceTypes,
         WorkerTypes, Bookkeeping, DownIsIdle
<1>2. Bookkeeping'
  BY SMTT(40)
     DEF IndInv, ExitWorker, ConsumersOf, TypeOK, RowTypes, ServiceTypes,
         WorkerTypes, Bookkeeping, ReportInHand, OnlyJobsInHand,
         EntriesNameRows, DownIsIdle, FaultsAccounted
<1>3. Ownership' /\ Outcomes'
  BY RowsFrame
     DEF IndInv, ExitWorker, ConsumersOf, TypeOK, RowTypes, ServiceTypes,
         WorkerTypes
<1> QED BY <1>1, <1>2, <1>3 DEF IndInv

(* A crash orphans running rows, and has used up a fault for it.           *)
LEMMA KeepsCrashWorker ==
  ASSUME IndInv, NEW p \in Workers, CrashWorker(p)
  PROVE  IndInv'
<1>1. \A c \in pending : job[c] \in Submissions
  BY DEF IndInv, TypeOK, WorkerTypes, Bookkeeping, OnlyJobsInHand
<1>2. stranded' = stranded \cup {job[c] : c \in ConsumersOf(p) \cap pending}
  BY DEF CrashWorker, ConsumersGone
<1>3. \A s \in {job[c] : c \in ConsumersOf(p) \cap pending} : s \in Submissions
  BY <1>1
<1>4. stranded' \subseteq Submissions
  BY <1>2, <1>3 DEF IndInv, TypeOK, ServiceTypes
<1>5. TypeOK'
  <2>1. RowTypes'
    BY <1>1, <1>2, <1>3, <1>4
       DEF IndInv, TypeOK, RowTypes, CrashWorker, ConsumersGone, ConsumersOf,
           Fault
  <2>2. ServiceTypes'
    BY <1>1, <1>2, <1>3, <1>4
       DEF IndInv, TypeOK, ServiceTypes, WorkerTypes, CrashWorker,
           ConsumersGone, ConsumersOf, Fault
  <2>3. WorkerTypes'
    BY <1>1, <1>2, <1>3, <1>4
       DEF IndInv, TypeOK, WorkerTypes, CrashWorker, ConsumersGone,
           ConsumersOf, Fault
  <2> QED BY <2>1, <2>2, <2>3 DEF TypeOK
<1>6. Bookkeeping'
  BY <1>1, <1>2, <1>3, <1>4, SMTT(40)
     DEF IndInv, CrashWorker, ConsumersGone, ConsumersOf, Fault, TypeOK,
         RowTypes, ServiceTypes, WorkerTypes, Bookkeeping, ReportInHand,
         OnlyJobsInHand, EntriesNameRows, DownIsIdle, FaultsAccounted
<1>7. Ownership'
  BY <1>1, <1>2, <1>3, <1>4, SMTT(40)
     DEF IndInv, CrashWorker, ConsumersGone, ConsumersOf, Fault, TypeOK,
         RowTypes, ServiceTypes, WorkerTypes, Bookkeeping, FaultsAccounted,
         Ownership, AtMostOneOwner, OwnerHoldsRunningRow, OrphanNeedsCause,
            Orphan, Owns
<1>8. Outcomes'
  BY <1>1, <1>2, <1>3, <1>4, SMTT(40)
     DEF IndInv, CrashWorker, ConsumersGone, ConsumersOf, Fault, TypeOK,
         RowTypes, ServiceTypes, WorkerTypes, Bookkeeping, EntriesNameRows,
         ReportInHand, Ownership, OwnerHoldsRunningRow, AtMostOneOwner,
            Outcomes, VerdictIffDone, AckNeverQueued, DoneEventMatchesRow
<1> QED BY <1>5, <1>6, <1>7, <1>8 DEF IndInv

(* The consumer loop.                                                      *)
LEMMA KeepsLoopTop ==
  ASSUME IndInv, NEW c \in Consumers, LoopTop(c)
  PROVE  IndInv'
<1>1. JobFacts(c)
  BY JobInHand
<1>2. TypeOK'
  BY <1>1, SMTT(40)
     DEF IndInv, LoopTop, GoTo, TypeOK, RowTypes, ServiceTypes, WorkerTypes,
         Bookkeeping, DownIsIdle, JobFacts
<1>3. Bookkeeping'
  BY <1>1, SMTT(40)
     DEF IndInv, LoopTop, GoTo, TypeOK, RowTypes, ServiceTypes, WorkerTypes,
         Bookkeeping, ReportInHand, OnlyJobsInHand, EntriesNameRows,
         DownIsIdle, FaultsAccounted, JobFacts
<1>4. Ownership'
  BY <1>1, SMTT(40)
     DEF IndInv, LoopTop, GoTo, TypeOK, RowTypes, ServiceTypes, WorkerTypes,
         Bookkeeping, FaultsAccounted, Ownership, AtMostOneOwner,
         OwnerHoldsRunningRow, OrphanNeedsCause, Orphan, Owns, JobFacts
<1>5. Outcomes'
  BY <1>1, SMTT(40)
     DEF IndInv, LoopTop, GoTo, TypeOK, RowTypes, ServiceTypes, WorkerTypes,
         Bookkeeping, EntriesNameRows, ReportInHand, Ownership,
         OwnerHoldsRunningRow, AtMostOneOwner, Outcomes, VerdictIffDone,
            AckNeverQueued, DoneEventMatchesRow, JobFacts
<1> QED BY <1>2, <1>3, <1>4, <1>5 DEF IndInv

(* ReadNothing keeps the invariant.                                        *)
LEMMA KeepsReadNothing ==
  ASSUME IndInv, NEW c \in Consumers, ReadNothing(c)
  PROVE  IndInv'
<1>1. JobFacts(c)
  BY JobInHand
<1>2. TypeOK'
  BY <1>1, SMTT(40)
     DEF IndInv, ReadNothing, GoTo, TypeOK, RowTypes, ServiceTypes,
         WorkerTypes, Bookkeeping, DownIsIdle, JobFacts
<1>3. Bookkeeping'
  BY <1>1, SMTT(40)
     DEF IndInv, ReadNothing, GoTo, TypeOK, RowTypes, ServiceTypes,
         WorkerTypes, Bookkeeping, ReportInHand, OnlyJobsInHand,
         EntriesNameRows, DownIsIdle, FaultsAccounted, JobFacts
<1>4. Ownership'
  BY <1>1, SMTT(40)
     DEF IndInv, ReadNothing, GoTo, TypeOK, RowTypes, ServiceTypes,
         WorkerTypes, Bookkeeping, FaultsAccounted, Ownership, AtMostOneOwner,
         OwnerHoldsRunningRow, OrphanNeedsCause, Orphan, Owns, JobFacts
<1>5. Outcomes'
  BY <1>1, SMTT(40)
     DEF IndInv, ReadNothing, GoTo, TypeOK, RowTypes, ServiceTypes,
         WorkerTypes, Bookkeeping, EntriesNameRows, ReportInHand, Ownership,
         OwnerHoldsRunningRow, AtMostOneOwner, Outcomes, VerdictIffDone,
            AckNeverQueued, DoneEventMatchesRow, JobFacts
<1> QED BY <1>2, <1>3, <1>4, <1>5 DEF IndInv

(* The entry delivered names a persisted row.                              *)
LEMMA KeepsDeliver ==
  ASSUME IndInv, NEW c \in Consumers, Deliver(c)
  PROVE  IndInv'
<1>1. JobFacts(c)
  BY JobInHand
<1>2. Head(stream) \in Submissions /\ Tail(stream) \in Seq(Submissions)
  BY DEF IndInv, TypeOK, RowTypes, ServiceTypes, WorkerTypes, Deliver
<1>3. \A i \in DOMAIN Tail(stream) : i + 1 \in DOMAIN stream /\ Tail(stream)[i] = stream[i + 1]
  BY DEF IndInv, TypeOK, RowTypes, ServiceTypes, WorkerTypes, Deliver
<1>4. status[Head(stream)] # "none"
  BY
     DEF IndInv, TypeOK, RowTypes, ServiceTypes, WorkerTypes, Deliver,
         Bookkeeping, EntriesNameRows
<1>5. \A d \in Consumers :
        /\ (pc'[d] \in Owning <=> pc[d] \in Owning)
        /\ (pc[d] \in Owning => job'[d] = job[d])
  BY DEF IndInv, TypeOK, RowTypes, ServiceTypes, WorkerTypes, Deliver, GoTo
<1>6. TypeOK'
  BY <1>1, <1>2, <1>3, <1>4, <1>5, SMTT(40)
     DEF IndInv, Deliver, GoTo, TypeOK, RowTypes, ServiceTypes, WorkerTypes,
         Bookkeeping, DownIsIdle, JobFacts
<1>7. Bookkeeping'
  BY <1>1, <1>2, <1>3, <1>4, <1>5, SMTT(40)
     DEF IndInv, Deliver, GoTo, TypeOK, RowTypes, ServiceTypes, WorkerTypes,
         Bookkeeping, ReportInHand, OnlyJobsInHand, EntriesNameRows,
         DownIsIdle, FaultsAccounted, JobFacts
<1>8. Ownership'
  BY <1>5, OwnersFrame DEF IndInv, Deliver, GoTo
<1>9. Outcomes'
  BY <1>1, <1>2, <1>3, <1>4, <1>5, SMTT(40)
     DEF IndInv, Deliver, GoTo, TypeOK, RowTypes, ServiceTypes, WorkerTypes,
         Bookkeeping, EntriesNameRows, ReportInHand, Ownership,
         OwnerHoldsRunningRow, AtMostOneOwner, Outcomes, VerdictIffDone,
            AckNeverQueued, DoneEventMatchesRow, JobFacts
<1> QED BY <1>6, <1>7, <1>8, <1>9 DEF IndInv

(* ReadErr keeps the invariant.                                            *)
LEMMA KeepsReadErr ==
  ASSUME IndInv, NEW c \in Consumers, ReadErr(c)
  PROVE  IndInv'
<1>1. JobFacts(c)
  BY JobInHand
<1>2. Head(stream) \in Submissions /\ Tail(stream) \in Seq(Submissions)
  BY DEF IndInv, TypeOK, RowTypes, ServiceTypes, WorkerTypes, ReadErr
<1>3. \A i \in DOMAIN Tail(stream) : i + 1 \in DOMAIN stream /\ Tail(stream)[i] = stream[i + 1]
  BY DEF IndInv, TypeOK, RowTypes, ServiceTypes, WorkerTypes, ReadErr
<1>4. status[Head(stream)] # "none"
  BY
     DEF IndInv, TypeOK, RowTypes, ServiceTypes, WorkerTypes, ReadErr,
         Bookkeeping, EntriesNameRows
<1>5. stranded' \subseteq Submissions
  BY <1>2 DEF IndInv, TypeOK, RowTypes, ServiceTypes, WorkerTypes, ReadErr
<1>6. \A d \in Consumers :
        /\ (pc'[d] \in Owning <=> pc[d] \in Owning)
        /\ (pc[d] \in Owning => job'[d] = job[d])
  BY DEF IndInv, TypeOK, RowTypes, ServiceTypes, WorkerTypes, ReadErr, GoTo
<1>7. TypeOK'
  BY <1>1, <1>2, <1>3, <1>4, <1>5, <1>6, SMTT(40)
     DEF IndInv, ReadErr, GoTo, Fault, TypeOK, RowTypes, ServiceTypes,
         WorkerTypes, Bookkeeping, DownIsIdle, JobFacts
<1>8. Bookkeeping'
  <2>1. ReportInHand'
    BY <1>1, <1>2, <1>3, <1>4, <1>5, <1>6
       DEF IndInv, TypeOK, RowTypes, ServiceTypes, WorkerTypes, Bookkeeping,
           ReportInHand, ReadErr, GoTo, Fault, JobFacts
  <2>2. OnlyJobsInHand'
    BY <1>1, <1>2, <1>3, <1>4, <1>5, <1>6
       DEF IndInv, TypeOK, RowTypes, ServiceTypes, WorkerTypes, Bookkeeping,
           OnlyJobsInHand, ReadErr, GoTo, Fault, JobFacts
  <2>3. EntriesNameRows'
    <3>1. \A i \in DOMAIN stream' : status'[stream'[i]] # "none"
      BY <1>3 DEF IndInv, Bookkeeping, EntriesNameRows, ReadErr
    <3>2. \A d \in Consumers : pc'[d] \in Processing => pc[d] \in Processing
      BY DEF IndInv, TypeOK, WorkerTypes, ReadErr, GoTo
    <3> QED BY <3>1, <3>2 DEF IndInv, Bookkeeping, EntriesNameRows, ReadErr
  <2>4. DownIsIdle'
    BY <1>1, <1>2, <1>3, <1>4, <1>5, <1>6
       DEF IndInv, TypeOK, RowTypes, ServiceTypes, WorkerTypes, Bookkeeping,
           DownIsIdle, ReadErr, GoTo, Fault, JobFacts
  <2>5. FaultsAccounted'
    BY <1>1, <1>2, <1>3, <1>4, <1>5, <1>6
       DEF IndInv, TypeOK, RowTypes, ServiceTypes, WorkerTypes, Bookkeeping,
           FaultsAccounted, ReadErr, GoTo, Fault, JobFacts
  <2> QED BY <2>1, <2>2, <2>3, <2>4, <2>5 DEF Bookkeeping
<1>9. Ownership'
  BY <1>6, OwnersFrame DEF IndInv, ReadErr, GoTo, Fault
<1>10. Outcomes'
  BY <1>1, <1>2, <1>3, <1>4, <1>5, <1>6, SMTT(40)
     DEF IndInv, ReadErr, GoTo, Fault, TypeOK, RowTypes, ServiceTypes,
         WorkerTypes, Bookkeeping, EntriesNameRows, ReportInHand, Ownership,
         OwnerHoldsRunningRow, AtMostOneOwner, Outcomes, VerdictIffDone,
            AckNeverQueued, DoneEventMatchesRow, JobFacts
<1> QED BY <1>7, <1>8, <1>9, <1>10 DEF IndInv

(* The claim: its guard is what makes the new owner the only one.          *)
LEMMA KeepsClaimWon ==
  ASSUME IndInv, NEW c \in Consumers, ClaimWon(c)
  PROVE  IndInv'
<1>1. JobFacts(c)
  BY JobInHand
<1>2. old' \subseteq Submissions
  BY
     DEF IndInv, TypeOK, RowTypes, ServiceTypes, WorkerTypes, ClaimWon,
         MarkRunning, SetRow
<1>3. TypeOK'
  BY <1>1, <1>2, SMTT(40)
     DEF IndInv, ClaimWon, GoTo, MarkRunning, Claimable, SetRow, TypeOK,
         RowTypes, ServiceTypes, WorkerTypes, Bookkeeping, DownIsIdle,
         JobFacts
<1>4. Bookkeeping'
  BY <1>1, <1>2, SMTT(40)
     DEF IndInv, ClaimWon, GoTo, MarkRunning, Claimable, SetRow, TypeOK,
         RowTypes, ServiceTypes, WorkerTypes, Bookkeeping, ReportInHand,
         OnlyJobsInHand, EntriesNameRows, DownIsIdle, FaultsAccounted,
         JobFacts
<1>5. Ownership'
  BY <1>1, <1>2, SMTT(40)
     DEF IndInv, ClaimWon, GoTo, MarkRunning, Claimable, SetRow, TypeOK,
         RowTypes, ServiceTypes, WorkerTypes, Bookkeeping, FaultsAccounted,
         Ownership, AtMostOneOwner, OwnerHoldsRunningRow, OrphanNeedsCause,
            Orphan, Owns, JobFacts
<1>6. Outcomes'
  BY <1>1, <1>2, SMTT(40)
     DEF IndInv, ClaimWon, GoTo, MarkRunning, Claimable, SetRow, TypeOK,
         RowTypes, ServiceTypes, WorkerTypes, Bookkeeping, EntriesNameRows,
         ReportInHand, Ownership, OwnerHoldsRunningRow, AtMostOneOwner,
            Outcomes, VerdictIffDone, AckNeverQueued, DoneEventMatchesRow,
            JobFacts
<1> QED BY <1>3, <1>4, <1>5, <1>6 DEF IndInv

(* A refused row has been claimed before, since its entry names a row.     *)
LEMMA KeepsClaimRefused ==
  ASSUME IndInv, NEW c \in Consumers, ClaimRefused(c)
  PROVE  IndInv'
<1>1. JobFacts(c)
  BY JobInHand
<1>2. status[job[c]] \in {"running", "done", "failed"}
  BY <1>1
     DEF IndInv, TypeOK, RowTypes, ServiceTypes, WorkerTypes, ClaimRefused,
         Claimable, JobFacts, Bookkeeping, EntriesNameRows
<1>3. TypeOK'
  BY <1>1, <1>2, SMTT(40)
     DEF IndInv, ClaimRefused, GoTo, Claimable, TypeOK, RowTypes,
         ServiceTypes, WorkerTypes, Bookkeeping, DownIsIdle, JobFacts
<1>4. Bookkeeping'
  BY <1>1, <1>2, SMTT(40)
     DEF IndInv, ClaimRefused, GoTo, Claimable, TypeOK, RowTypes,
         ServiceTypes, WorkerTypes, Bookkeeping, ReportInHand, OnlyJobsInHand,
         EntriesNameRows, DownIsIdle, FaultsAccounted, JobFacts
<1>5. Ownership'
  BY <1>1, <1>2, SMTT(40)
     DEF IndInv, ClaimRefused, GoTo, Claimable, TypeOK, RowTypes,
         ServiceTypes, WorkerTypes, Bookkeeping, FaultsAccounted, Ownership,
         AtMostOneOwner, OwnerHoldsRunningRow, OrphanNeedsCause, Orphan, Owns,
            JobFacts
<1>6. Outcomes'
  BY <1>1, <1>2, SMTT(40)
     DEF IndInv, ClaimRefused, GoTo, Claimable, TypeOK, RowTypes,
         ServiceTypes, WorkerTypes, Bookkeeping, EntriesNameRows,
         ReportInHand, Ownership, OwnerHoldsRunningRow, AtMostOneOwner,
            Outcomes, VerdictIffDone, AckNeverQueued, DoneEventMatchesRow,
            JobFacts
<1> QED BY <1>3, <1>4, <1>5, <1>6 DEF IndInv

(* Publish keeps the invariant.                                            *)
LEMMA KeepsPublish ==
  ASSUME IndInv, NEW c \in Consumers, Publish(c)
  PROVE  IndInv'
<1>1. JobFacts(c)
  BY JobInHand
<1>2. TypeOK'
  BY <1>1, SMTT(40)
     DEF IndInv, Publish, PublishCall, AfterPublish, GoTo, TypeOK, RowTypes,
         ServiceTypes, WorkerTypes, Bookkeeping, DownIsIdle, JobFacts
<1>3. Bookkeeping'
  BY <1>1, SMTT(40)
     DEF IndInv, Publish, PublishCall, AfterPublish, GoTo, TypeOK, RowTypes,
         ServiceTypes, WorkerTypes, Bookkeeping, ReportInHand, OnlyJobsInHand,
         EntriesNameRows, DownIsIdle, FaultsAccounted, JobFacts
<1>4. Ownership'
  BY <1>1, SMTT(40)
     DEF IndInv, Publish, PublishCall, AfterPublish, GoTo, TypeOK, RowTypes,
         ServiceTypes, WorkerTypes, Bookkeeping, FaultsAccounted, Ownership,
         AtMostOneOwner, OwnerHoldsRunningRow, OrphanNeedsCause, Orphan, Owns,
            JobFacts
<1>5. Outcomes'
  BY <1>1, SMTT(40)
     DEF IndInv, Publish, PublishCall, AfterPublish, GoTo, TypeOK, RowTypes,
         ServiceTypes, WorkerTypes, Bookkeeping, EntriesNameRows,
         ReportInHand, Ownership, OwnerHoldsRunningRow, AtMostOneOwner,
            Outcomes, VerdictIffDone, AckNeverQueued, DoneEventMatchesRow,
            JobFacts
<1> QED BY <1>2, <1>3, <1>4, <1>5 DEF IndInv

(* PublishErr keeps the invariant.                                         *)
LEMMA KeepsPublishErr ==
  ASSUME IndInv, NEW c \in Consumers, PublishErr(c)
  PROVE  IndInv'
<1>1. JobFacts(c)
  BY JobInHand
<1>2. TypeOK'
  BY <1>1, SMTT(40)
     DEF IndInv, PublishErr, PublishCall, AfterPublish, GoTo, Fault, TypeOK,
         RowTypes, ServiceTypes, WorkerTypes, Bookkeeping, DownIsIdle,
         JobFacts
<1>3. Bookkeeping'
  BY <1>1, SMTT(40)
     DEF IndInv, PublishErr, PublishCall, AfterPublish, GoTo, Fault, TypeOK,
         RowTypes, ServiceTypes, WorkerTypes, Bookkeeping, ReportInHand,
         OnlyJobsInHand, EntriesNameRows, DownIsIdle, FaultsAccounted,
         JobFacts
<1>4. Ownership'
  BY <1>1, SMTT(40)
     DEF IndInv, PublishErr, PublishCall, AfterPublish, GoTo, Fault, TypeOK,
         RowTypes, ServiceTypes, WorkerTypes, Bookkeeping, FaultsAccounted,
         Ownership, AtMostOneOwner, OwnerHoldsRunningRow, OrphanNeedsCause,
            Orphan, Owns, JobFacts
<1>5. Outcomes'
  BY <1>1, SMTT(40)
     DEF IndInv, PublishErr, PublishCall, AfterPublish, GoTo, Fault, TypeOK,
         RowTypes, ServiceTypes, WorkerTypes, Bookkeeping, EntriesNameRows,
         ReportInHand, Ownership, OwnerHoldsRunningRow, AtMostOneOwner,
            Outcomes, VerdictIffDone, AckNeverQueued, DoneEventMatchesRow,
            JobFacts
<1> QED BY <1>2, <1>3, <1>4, <1>5 DEF IndInv

(* JudgeOk keeps the invariant.                                            *)
LEMMA KeepsJudgeOk ==
  ASSUME IndInv, NEW c \in Consumers, JudgeOk(c)
  PROVE  IndInv'
<1>1. JobFacts(c)
  BY JobInHand
<1>2. TypeOK'
  BY <1>1, SMTT(40)
     DEF IndInv, JudgeOk, GoTo, TypeOK, RowTypes, ServiceTypes, WorkerTypes,
         Bookkeeping, DownIsIdle, JobFacts
<1>3. Bookkeeping'
  BY <1>1, SMTT(40)
     DEF IndInv, JudgeOk, GoTo, TypeOK, RowTypes, ServiceTypes, WorkerTypes,
         Bookkeeping, ReportInHand, OnlyJobsInHand, EntriesNameRows,
         DownIsIdle, FaultsAccounted, JobFacts
<1>4. Ownership'
  BY <1>1, SMTT(40)
     DEF IndInv, JudgeOk, GoTo, TypeOK, RowTypes, ServiceTypes, WorkerTypes,
         Bookkeeping, FaultsAccounted, Ownership, AtMostOneOwner,
         OwnerHoldsRunningRow, OrphanNeedsCause, Orphan, Owns, JobFacts
<1>5. Outcomes'
  BY <1>1, SMTT(40)
     DEF IndInv, JudgeOk, GoTo, TypeOK, RowTypes, ServiceTypes, WorkerTypes,
         Bookkeeping, EntriesNameRows, ReportInHand, Ownership,
         OwnerHoldsRunningRow, AtMostOneOwner, Outcomes, VerdictIffDone,
            AckNeverQueued, DoneEventMatchesRow, JobFacts
<1> QED BY <1>2, <1>3, <1>4, <1>5 DEF IndInv

(* JudgeErr keeps the invariant.                                           *)
LEMMA KeepsJudgeErr ==
  ASSUME IndInv, NEW c \in Consumers, JudgeErr(c)
  PROVE  IndInv'
<1>1. JobFacts(c)
  BY JobInHand
<1>2. TypeOK'
  BY <1>1, SMTT(40)
     DEF IndInv, JudgeErr, GoTo, TypeOK, RowTypes, ServiceTypes, WorkerTypes,
         Bookkeeping, DownIsIdle, JobFacts
<1>3. Bookkeeping'
  BY <1>1, SMTT(40)
     DEF IndInv, JudgeErr, GoTo, TypeOK, RowTypes, ServiceTypes, WorkerTypes,
         Bookkeeping, ReportInHand, OnlyJobsInHand, EntriesNameRows,
         DownIsIdle, FaultsAccounted, JobFacts
<1>4. Ownership'
  BY <1>1, SMTT(40)
     DEF IndInv, JudgeErr, GoTo, TypeOK, RowTypes, ServiceTypes, WorkerTypes,
         Bookkeeping, FaultsAccounted, Ownership, AtMostOneOwner,
         OwnerHoldsRunningRow, OrphanNeedsCause, Orphan, Owns, JobFacts
<1>5. Outcomes'
  BY <1>1, SMTT(40)
     DEF IndInv, JudgeErr, GoTo, TypeOK, RowTypes, ServiceTypes, WorkerTypes,
         Bookkeeping, EntriesNameRows, ReportInHand, Ownership,
         OwnerHoldsRunningRow, AtMostOneOwner, Outcomes, VerdictIffDone,
            AckNeverQueued, DoneEventMatchesRow, JobFacts
<1> QED BY <1>2, <1>3, <1>4, <1>5 DEF IndInv

(* Settling: only an owner settles, so the UPDATE matches its row.         *)
LEMMA KeepsRecordDone ==
  ASSUME IndInv, NEW c \in Consumers, RecordDone(c)
  PROVE  IndInv'
<1>1. JobFacts(c)
  BY JobInHand
<1>2. status[job[c]] = "running"
  BY DEF IndInv, Ownership, OwnerHoldsRunningRow, RecordDone
<1>3. /\ status' = [status EXCEPT ![job[c]] = "done"]
      /\ verdict' = [verdict EXCEPT ![job[c]] = report[c]]
      /\ old' \subseteq Submissions
  <2>1. SetRow(job[c], "done") /\ verdict' = [verdict EXCEPT ![job[c]] = report[c]]
    BY <1>2 DEF RecordDone, MarkDone
  <2>2. old \subseteq Submissions
    BY DEF IndInv, TypeOK, RowTypes
  <2> QED BY <2>1, <2>2 DEF SetRow
<1>4. TypeOK'
  BY <1>1, <1>2, <1>3, SMTT(40)
     DEF IndInv, RecordDone, GoTo, TypeOK, RowTypes, ServiceTypes,
         WorkerTypes, Bookkeeping, DownIsIdle, JobFacts
<1>5. Bookkeeping'
  BY <1>1, <1>2, <1>3, SMTT(40)
     DEF IndInv, RecordDone, GoTo, TypeOK, RowTypes, ServiceTypes,
         WorkerTypes, Bookkeeping, ReportInHand, OnlyJobsInHand,
         EntriesNameRows, DownIsIdle, FaultsAccounted, JobFacts
<1>6. Ownership'
  BY <1>1, <1>2, <1>3, SMTT(40)
     DEF IndInv, RecordDone, GoTo, TypeOK, RowTypes, ServiceTypes,
         WorkerTypes, Bookkeeping, FaultsAccounted, Ownership, AtMostOneOwner,
         OwnerHoldsRunningRow, OrphanNeedsCause, Orphan, Owns, JobFacts
<1>7. Outcomes'
  BY <1>1, <1>2, <1>3, SMTT(40)
     DEF IndInv, RecordDone, GoTo, TypeOK, RowTypes, ServiceTypes,
         WorkerTypes, Bookkeeping, EntriesNameRows, ReportInHand, Ownership,
         OwnerHoldsRunningRow, AtMostOneOwner, Outcomes, VerdictIffDone,
            AckNeverQueued, DoneEventMatchesRow, JobFacts
<1> QED BY <1>4, <1>5, <1>6, <1>7 DEF IndInv

(* RecordFailed keeps the invariant.                                       *)
LEMMA KeepsRecordFailed ==
  ASSUME IndInv, NEW c \in Consumers, RecordFailed(c)
  PROVE  IndInv'
<1>1. JobFacts(c)
  BY JobInHand
<1>2. status[job[c]] = "running"
  BY DEF IndInv, Ownership, OwnerHoldsRunningRow, RecordFailed
<1>3. /\ status' = [status EXCEPT ![job[c]] = "failed"]
      /\ UNCHANGED verdict /\ old' \subseteq Submissions
  <2>1. SetRow(job[c], "failed") /\ UNCHANGED verdict
    BY <1>2 DEF RecordFailed, MarkFailed
  <2>2. old \subseteq Submissions
    BY DEF IndInv, TypeOK, RowTypes
  <2> QED BY <2>1, <2>2 DEF SetRow
<1>4. TypeOK'
  BY <1>1, <1>2, <1>3, SMTT(40)
     DEF IndInv, RecordFailed, GoTo, TypeOK, RowTypes, ServiceTypes,
         WorkerTypes, Bookkeeping, DownIsIdle, JobFacts
<1>5. Bookkeeping'
  BY <1>1, <1>2, <1>3, SMTT(40)
     DEF IndInv, RecordFailed, GoTo, TypeOK, RowTypes, ServiceTypes,
         WorkerTypes, Bookkeeping, ReportInHand, OnlyJobsInHand,
         EntriesNameRows, DownIsIdle, FaultsAccounted, JobFacts
<1>6. Ownership'
  BY <1>1, <1>2, <1>3, SMTT(40)
     DEF IndInv, RecordFailed, GoTo, TypeOK, RowTypes, ServiceTypes,
         WorkerTypes, Bookkeeping, FaultsAccounted, Ownership, AtMostOneOwner,
         OwnerHoldsRunningRow, OrphanNeedsCause, Orphan, Owns, JobFacts
<1>7. Outcomes'
  BY <1>1, <1>2, <1>3, SMTT(40)
     DEF IndInv, RecordFailed, GoTo, TypeOK, RowTypes, ServiceTypes,
         WorkerTypes, Bookkeeping, EntriesNameRows, ReportInHand, Ownership,
         OwnerHoldsRunningRow, AtMostOneOwner, Outcomes, VerdictIffDone,
            AckNeverQueued, DoneEventMatchesRow, JobFacts
<1> QED BY <1>4, <1>5, <1>6, <1>7 DEF IndInv

(* Ack keeps the invariant.                                                *)
LEMMA KeepsAck ==
  ASSUME IndInv, NEW c \in Consumers, Ack(c)
  PROVE  IndInv'
<1>1. JobFacts(c)
  BY JobInHand
<1>2. TypeOK'
  BY <1>1, SMTT(40)
     DEF IndInv, Ack, Return, GoTo, TypeOK, RowTypes, ServiceTypes,
         WorkerTypes, Bookkeeping, DownIsIdle, JobFacts
<1>3. Bookkeeping'
  BY <1>1, SMTT(40)
     DEF IndInv, Ack, Return, GoTo, TypeOK, RowTypes, ServiceTypes,
         WorkerTypes, Bookkeeping, ReportInHand, OnlyJobsInHand,
         EntriesNameRows, DownIsIdle, FaultsAccounted, JobFacts
<1>4. Ownership'
  BY <1>1, SMTT(40)
     DEF IndInv, Ack, Return, GoTo, TypeOK, RowTypes, ServiceTypes,
         WorkerTypes, Bookkeeping, FaultsAccounted, Ownership, AtMostOneOwner,
         OwnerHoldsRunningRow, OrphanNeedsCause, Orphan, Owns, JobFacts
<1>5. Outcomes'
  BY <1>1, SMTT(40)
     DEF IndInv, Ack, Return, GoTo, TypeOK, RowTypes, ServiceTypes,
         WorkerTypes, Bookkeeping, EntriesNameRows, ReportInHand, Ownership,
         OwnerHoldsRunningRow, AtMostOneOwner, Outcomes, VerdictIffDone,
            AckNeverQueued, DoneEventMatchesRow, JobFacts
<1> QED BY <1>2, <1>3, <1>4, <1>5 DEF IndInv

(* AckErr keeps the invariant.                                             *)
LEMMA KeepsAckErr ==
  ASSUME IndInv, NEW c \in Consumers, AckErr(c)
  PROVE  IndInv'
<1>1. JobFacts(c)
  BY JobInHand
<1>2. stranded' \subseteq Submissions
  BY <1>1
     DEF IndInv, TypeOK, RowTypes, ServiceTypes, WorkerTypes, AckErr, Nack,
         Leave, JobFacts
<1>3. TypeOK'
  BY <1>1, <1>2, SMTT(40)
     DEF IndInv, AckErr, Nack, Leave, Return, GoTo, Fault, TypeOK, RowTypes,
         ServiceTypes, WorkerTypes, Bookkeeping, DownIsIdle, JobFacts
<1>4. Bookkeeping'
  BY <1>1, <1>2, SMTT(40)
     DEF IndInv, AckErr, Nack, Leave, Return, GoTo, Fault, TypeOK, RowTypes,
         ServiceTypes, WorkerTypes, Bookkeeping, ReportInHand, OnlyJobsInHand,
         EntriesNameRows, DownIsIdle, FaultsAccounted, JobFacts
<1>5. Ownership'
  BY <1>1, <1>2, SMTT(40)
     DEF IndInv, AckErr, Nack, Leave, Return, GoTo, Fault, TypeOK, RowTypes,
         ServiceTypes, WorkerTypes, Bookkeeping, FaultsAccounted, Ownership,
         AtMostOneOwner, OwnerHoldsRunningRow, OrphanNeedsCause, Orphan, Owns,
            JobFacts
<1>6. Outcomes'
  BY <1>1, <1>2, SMTT(40)
     DEF IndInv, AckErr, Nack, Leave, Return, GoTo, Fault, TypeOK, RowTypes,
         ServiceTypes, WorkerTypes, Bookkeeping, EntriesNameRows,
         ReportInHand, Ownership, OwnerHoldsRunningRow, AtMostOneOwner,
            Outcomes, VerdictIffDone, AckNeverQueued, DoneEventMatchesRow,
            JobFacts
<1> QED BY <1>3, <1>4, <1>5, <1>6 DEF IndInv

(* Expire keeps the invariant.                                             *)
LEMMA KeepsExpire ==
  ASSUME IndInv, NEW c \in Consumers, Expire(c)
  PROVE  IndInv'
<1>1. JobFacts(c)
  BY JobInHand
<1>2. TypeOK'
  BY <1>1, SMTT(40)
     DEF IndInv, Expire, Fault, TypeOK, RowTypes, ServiceTypes, WorkerTypes,
         Bookkeeping, DownIsIdle, JobFacts
<1>3. Bookkeeping'
  BY <1>1, SMTT(40)
     DEF IndInv, Expire, Fault, TypeOK, RowTypes, ServiceTypes, WorkerTypes,
         Bookkeeping, ReportInHand, OnlyJobsInHand, EntriesNameRows,
         DownIsIdle, FaultsAccounted, JobFacts
<1>4. Ownership'
  BY <1>1, SMTT(40)
     DEF IndInv, Expire, Fault, TypeOK, RowTypes, ServiceTypes, WorkerTypes,
         Bookkeeping, FaultsAccounted, Ownership, AtMostOneOwner,
         OwnerHoldsRunningRow, OrphanNeedsCause, Orphan, Owns, JobFacts
<1>5. Outcomes'
  BY <1>1, SMTT(40)
     DEF IndInv, Expire, Fault, TypeOK, RowTypes, ServiceTypes, WorkerTypes,
         Bookkeeping, EntriesNameRows, ReportInHand, Ownership,
         OwnerHoldsRunningRow, AtMostOneOwner, Outcomes, VerdictIffDone,
            AckNeverQueued, DoneEventMatchesRow, JobFacts
<1> QED BY <1>2, <1>3, <1>4, <1>5 DEF IndInv

(* The three statements whose error process handles: each may have taken   *)
(* effect or not.                                                          *)
LEMMA KeepsClaimErr ==
  ASSUME IndInv, NEW c \in Consumers, ClaimErr(c)
  PROVE  IndInv'
<1>1. JobFacts(c)
  BY JobInHand
<1>2. status[job[c]] # "none"
  BY DEF IndInv, Bookkeeping, EntriesNameRows, ClaimErr
<1>3. \/ UNCHANGED <<status, verdict, old>> /\ (UNCHANGED budget \/ Fault("db"))
      \/ /\ status' = [status EXCEPT ![job[c]] = "running"] /\ status[job[c]] = "queued"
         /\ UNCHANGED verdict /\ old' = old \ {job[c]}
         /\ Fault("db")
  BY <1>2 DEF ClaimErr, Fails, MarkRunning, Claimable, SetRow
<1>4. UNCHANGED budget => c \in expired
  BY DEF IndInv, TypeOK, RowTypes, ServiceTypes, WorkerTypes, ClaimErr, Fails, Fault
<1>5. budget' \in [FaultKinds -> Nat]
  BY DEF IndInv, TypeOK, RowTypes, ServiceTypes, WorkerTypes, ClaimErr, Fails, Fault
<1>6. stranded' \subseteq Submissions
  BY <1>1
     DEF IndInv, TypeOK, RowTypes, ServiceTypes, WorkerTypes, ClaimErr, Nack,
         Leave, JobFacts
<1>7. CASE UNCHANGED <<status, verdict, old>> /\ (UNCHANGED budget \/ Fault("db"))
  <2>1. TypeOK'
    <3>1. RowTypes'
      BY <1>1, <1>2, <1>4, <1>5, <1>6, <1>7
         DEF IndInv, TypeOK, RowTypes, Bookkeeping, ReportInHand, ClaimErr,
             Nack, Leave, Return, GoTo, JobFacts
    <3>2. ServiceTypes'
      BY <1>1, <1>2, <1>4, <1>5, <1>6, <1>7
         DEF IndInv, TypeOK, ServiceTypes, Bookkeeping, ReportInHand,
             ClaimErr, Nack, Leave, Return, GoTo, JobFacts
    <3>3. WorkerTypes'
      BY <1>1, <1>2, <1>4, <1>5, <1>6, <1>7
         DEF IndInv, TypeOK, WorkerTypes, Bookkeeping, ReportInHand, ClaimErr,
             Nack, Leave, Return, GoTo, JobFacts
    <3> QED BY <3>1, <3>2, <3>3 DEF TypeOK
  <2>2. Bookkeeping'
    BY <1>1, <1>2, <1>4, <1>5, <1>6, <1>7, SMTT(40)
       DEF IndInv, ClaimErr, Nack, Leave, Return, GoTo, Fault, TypeOK,
           RowTypes, ServiceTypes, WorkerTypes, Bookkeeping, ReportInHand,
           OnlyJobsInHand, EntriesNameRows, DownIsIdle, FaultsAccounted,
           JobFacts
  <2>3. Ownership'
    BY <1>1, <1>2, <1>4, <1>5, <1>6, <1>7, SMTT(40)
       DEF IndInv, ClaimErr, Nack, Leave, Return, GoTo, Fault, TypeOK,
           RowTypes, ServiceTypes, WorkerTypes, Bookkeeping, FaultsAccounted,
           Ownership, AtMostOneOwner, OwnerHoldsRunningRow, OrphanNeedsCause,
              Orphan, Owns, JobFacts
  <2>4. Outcomes'
    BY <1>1, <1>2, <1>4, <1>5, <1>6, <1>7, SMTT(40)
       DEF IndInv, ClaimErr, Nack, Leave, Return, GoTo, Fault, TypeOK,
           RowTypes, ServiceTypes, WorkerTypes, Bookkeeping, EntriesNameRows,
           ReportInHand, Ownership, OwnerHoldsRunningRow, AtMostOneOwner,
              Outcomes, VerdictIffDone, AckNeverQueued, DoneEventMatchesRow,
              JobFacts
  <2> QED BY <2>1, <2>2, <2>3, <2>4 DEF IndInv
<1>8. CASE /\ status' = [status EXCEPT ![job[c]] = "running"]
           /\ status[job[c]] = "queued"
           /\ UNCHANGED verdict
           /\ old' = old \ {job[c]}
           /\ Fault("db")
  <2>1. TypeOK'
    <3>1. RowTypes'
      BY <1>1, <1>2, <1>4, <1>5, <1>6, <1>8
         DEF IndInv, TypeOK, RowTypes, Bookkeeping, ReportInHand, ClaimErr,
             Nack, Leave, Return, GoTo, JobFacts
    <3>2. ServiceTypes'
      BY <1>1, <1>2, <1>4, <1>5, <1>6, <1>8
         DEF IndInv, TypeOK, ServiceTypes, Bookkeeping, ReportInHand,
             ClaimErr, Nack, Leave, Return, GoTo, JobFacts
    <3>3. WorkerTypes'
      BY <1>1, <1>2, <1>4, <1>5, <1>6, <1>8
         DEF IndInv, TypeOK, WorkerTypes, Bookkeeping, ReportInHand, ClaimErr,
             Nack, Leave, Return, GoTo, JobFacts
    <3> QED BY <3>1, <3>2, <3>3 DEF TypeOK
  <2>2. Bookkeeping'
    BY <1>1, <1>2, <1>4, <1>5, <1>6, <1>8, SMTT(40)
       DEF IndInv, ClaimErr, Nack, Leave, Return, GoTo, Fault, TypeOK,
           RowTypes, ServiceTypes, WorkerTypes, Bookkeeping, ReportInHand,
           OnlyJobsInHand, EntriesNameRows, DownIsIdle, FaultsAccounted,
           JobFacts
  <2>3. Ownership'
    BY <1>1, <1>2, <1>4, <1>5, <1>6, <1>8, SMTT(40)
       DEF IndInv, ClaimErr, Nack, Leave, Return, GoTo, Fault, TypeOK,
           RowTypes, ServiceTypes, WorkerTypes, Bookkeeping, FaultsAccounted,
           Ownership, AtMostOneOwner, OwnerHoldsRunningRow, OrphanNeedsCause,
              Orphan, Owns, JobFacts
  <2>4. Outcomes'
    BY <1>1, <1>2, <1>4, <1>5, <1>6, <1>8, SMTT(40)
       DEF IndInv, ClaimErr, Nack, Leave, Return, GoTo, Fault, TypeOK,
           RowTypes, ServiceTypes, WorkerTypes, Bookkeeping, EntriesNameRows,
           ReportInHand, Ownership, OwnerHoldsRunningRow, AtMostOneOwner,
              Outcomes, VerdictIffDone, AckNeverQueued, DoneEventMatchesRow,
              JobFacts
  <2> QED BY <2>1, <2>2, <2>3, <2>4 DEF IndInv
<1> QED BY <1>3, <1>7, <1>8

(* RecordDoneErr keeps the invariant.                                      *)
LEMMA KeepsRecordDoneErr ==
  ASSUME IndInv, NEW c \in Consumers, RecordDoneErr(c)
  PROVE  IndInv'
<1>1. JobFacts(c)
  BY JobInHand
<1>2. status[job[c]] = "running"
  BY DEF IndInv, Ownership, OwnerHoldsRunningRow, RecordDoneErr
<1>3. \/ UNCHANGED <<status, verdict, old>> /\ (UNCHANGED budget \/ Fault("db"))
      \/ /\ status' = [status EXCEPT ![job[c]] = "done"]
         /\ verdict' = [verdict EXCEPT ![job[c]] = report[c]] /\ old' = old \ {job[c]}
         /\ Fault("db")
  BY <1>2 DEF RecordDoneErr, Fails, MarkDone, SetRow
<1>4. UNCHANGED budget => c \in expired
  BY
     DEF IndInv, TypeOK, RowTypes, ServiceTypes, WorkerTypes, RecordDoneErr,
         Fails, Fault
<1>5. budget' \in [FaultKinds -> Nat]
  BY
     DEF IndInv, TypeOK, RowTypes, ServiceTypes, WorkerTypes, RecordDoneErr,
         Fails, Fault
<1>6. stranded' \subseteq Submissions
  BY <1>1
     DEF IndInv, TypeOK, RowTypes, ServiceTypes, WorkerTypes, RecordDoneErr,
         Nack, Leave, JobFacts
<1>7. CASE UNCHANGED <<status, verdict, old>> /\ (UNCHANGED budget \/ Fault("db"))
  <2>1. TypeOK'
    <3>1. RowTypes'
      BY <1>1, <1>2, <1>4, <1>5, <1>6, <1>7
         DEF IndInv, TypeOK, RowTypes, Bookkeeping, ReportInHand,
             RecordDoneErr, Nack, Leave, Return, GoTo, JobFacts
    <3>2. ServiceTypes'
      BY <1>1, <1>2, <1>4, <1>5, <1>6, <1>7
         DEF IndInv, TypeOK, ServiceTypes, Bookkeeping, ReportInHand,
             RecordDoneErr, Nack, Leave, Return, GoTo, JobFacts
    <3>3. WorkerTypes'
      BY <1>1, <1>2, <1>4, <1>5, <1>6, <1>7
         DEF IndInv, TypeOK, WorkerTypes, Bookkeeping, ReportInHand,
             RecordDoneErr, Nack, Leave, Return, GoTo, JobFacts
    <3> QED BY <3>1, <3>2, <3>3 DEF TypeOK
  <2>2. Bookkeeping'
    BY <1>1, <1>2, <1>4, <1>5, <1>6, <1>7, SMTT(40)
       DEF IndInv, RecordDoneErr, Nack, Leave, Return, GoTo, Fault, TypeOK,
           RowTypes, ServiceTypes, WorkerTypes, Bookkeeping, ReportInHand,
           OnlyJobsInHand, EntriesNameRows, DownIsIdle, FaultsAccounted,
           JobFacts
  <2>3. Ownership'
    BY <1>1, <1>2, <1>4, <1>5, <1>6, <1>7, SMTT(40)
       DEF IndInv, RecordDoneErr, Nack, Leave, Return, GoTo, Fault, TypeOK,
           RowTypes, ServiceTypes, WorkerTypes, Bookkeeping, FaultsAccounted,
           Ownership, AtMostOneOwner, OwnerHoldsRunningRow, OrphanNeedsCause,
              Orphan, Owns, JobFacts
  <2>4. Outcomes'
    BY <1>1, <1>2, <1>4, <1>5, <1>6, <1>7, SMTT(40)
       DEF IndInv, RecordDoneErr, Nack, Leave, Return, GoTo, Fault, TypeOK,
           RowTypes, ServiceTypes, WorkerTypes, Bookkeeping, EntriesNameRows,
           ReportInHand, Ownership, OwnerHoldsRunningRow, AtMostOneOwner,
              Outcomes, VerdictIffDone, AckNeverQueued, DoneEventMatchesRow,
              JobFacts
  <2> QED BY <2>1, <2>2, <2>3, <2>4 DEF IndInv
<1>8. CASE /\ status' = [status EXCEPT ![job[c]] = "done"]
           /\ verdict' = [verdict EXCEPT ![job[c]] = report[c]]
           /\ old' = old \ {job[c]}
           /\ Fault("db")
  <2>1. TypeOK'
    <3>1. RowTypes'
      BY <1>1, <1>2, <1>4, <1>5, <1>6, <1>8
         DEF IndInv, TypeOK, RowTypes, Bookkeeping, ReportInHand,
             RecordDoneErr, Nack, Leave, Return, GoTo, JobFacts
    <3>2. ServiceTypes'
      BY <1>1, <1>2, <1>4, <1>5, <1>6, <1>8
         DEF IndInv, TypeOK, ServiceTypes, Bookkeeping, ReportInHand,
             RecordDoneErr, Nack, Leave, Return, GoTo, JobFacts
    <3>3. WorkerTypes'
      BY <1>1, <1>2, <1>4, <1>5, <1>6, <1>8
         DEF IndInv, TypeOK, WorkerTypes, Bookkeeping, ReportInHand,
             RecordDoneErr, Nack, Leave, Return, GoTo, JobFacts
    <3> QED BY <3>1, <3>2, <3>3 DEF TypeOK
  <2>2. Bookkeeping'
    BY <1>1, <1>2, <1>4, <1>5, <1>6, <1>8, SMTT(40)
       DEF IndInv, RecordDoneErr, Nack, Leave, Return, GoTo, Fault, TypeOK,
           RowTypes, ServiceTypes, WorkerTypes, Bookkeeping, ReportInHand,
           OnlyJobsInHand, EntriesNameRows, DownIsIdle, FaultsAccounted,
           JobFacts
  <2>3. Ownership'
    BY <1>1, <1>2, <1>4, <1>5, <1>6, <1>8, SMTT(40)
       DEF IndInv, RecordDoneErr, Nack, Leave, Return, GoTo, Fault, TypeOK,
           RowTypes, ServiceTypes, WorkerTypes, Bookkeeping, FaultsAccounted,
           Ownership, AtMostOneOwner, OwnerHoldsRunningRow, OrphanNeedsCause,
              Orphan, Owns, JobFacts
  <2>4. Outcomes'
    BY <1>1, <1>2, <1>4, <1>5, <1>6, <1>8, SMTT(40)
       DEF IndInv, RecordDoneErr, Nack, Leave, Return, GoTo, Fault, TypeOK,
           RowTypes, ServiceTypes, WorkerTypes, Bookkeeping, EntriesNameRows,
           ReportInHand, Ownership, OwnerHoldsRunningRow, AtMostOneOwner,
              Outcomes, VerdictIffDone, AckNeverQueued, DoneEventMatchesRow,
              JobFacts
  <2> QED BY <2>1, <2>2, <2>3, <2>4 DEF IndInv
<1> QED BY <1>3, <1>7, <1>8

(* RecordFailedErr keeps the invariant.                                    *)
LEMMA KeepsRecordFailedErr ==
  ASSUME IndInv, NEW c \in Consumers, RecordFailedErr(c)
  PROVE  IndInv'
<1>1. JobFacts(c)
  BY JobInHand
<1>2. status[job[c]] = "running"
  BY DEF IndInv, Ownership, OwnerHoldsRunningRow, RecordFailedErr
<1>3. \/ UNCHANGED <<status, verdict, old>> /\ (UNCHANGED budget \/ Fault("db"))
      \/ /\ status' = [status EXCEPT ![job[c]] = "failed"]
         /\ UNCHANGED verdict /\ old' = old \ {job[c]}
         /\ Fault("db")
  BY <1>2 DEF RecordFailedErr, Fails, MarkFailed, SetRow
<1>4. UNCHANGED budget => c \in expired
  BY
     DEF IndInv, TypeOK, RowTypes, ServiceTypes, WorkerTypes, RecordFailedErr,
         Fails, Fault
<1>5. budget' \in [FaultKinds -> Nat]
  BY
     DEF IndInv, TypeOK, RowTypes, ServiceTypes, WorkerTypes, RecordFailedErr,
         Fails, Fault
<1>6. CASE UNCHANGED <<status, verdict, old>> /\ (UNCHANGED budget \/ Fault("db"))
  <2>1. TypeOK'
    <3>1. RowTypes'
      BY <1>1, <1>2, <1>4, <1>5, <1>6
         DEF IndInv, TypeOK, RowTypes, Bookkeeping, ReportInHand,
             RecordFailedErr, GoTo, JobFacts
    <3>2. ServiceTypes'
      BY <1>1, <1>2, <1>4, <1>5, <1>6
         DEF IndInv, TypeOK, ServiceTypes, Bookkeeping, ReportInHand,
             RecordFailedErr, GoTo, JobFacts
    <3>3. WorkerTypes'
      BY <1>1, <1>2, <1>4, <1>5, <1>6
         DEF IndInv, TypeOK, WorkerTypes, Bookkeeping, ReportInHand,
             RecordFailedErr, GoTo, JobFacts
    <3> QED BY <3>1, <3>2, <3>3 DEF TypeOK
  <2>2. Bookkeeping'
    BY <1>1, <1>2, <1>4, <1>5, <1>6, SMTT(40)
       DEF IndInv, RecordFailedErr, GoTo, Fault, TypeOK, RowTypes,
           ServiceTypes, WorkerTypes, Bookkeeping, ReportInHand,
           OnlyJobsInHand, EntriesNameRows, DownIsIdle, FaultsAccounted,
           JobFacts
  <2>3. Ownership'
    BY <1>1, <1>2, <1>4, <1>5, <1>6, SMTT(40)
       DEF IndInv, RecordFailedErr, GoTo, Fault, TypeOK, RowTypes,
           ServiceTypes, WorkerTypes, Bookkeeping, FaultsAccounted, Ownership,
           AtMostOneOwner, OwnerHoldsRunningRow, OrphanNeedsCause, Orphan,
              Owns, JobFacts
  <2>4. Outcomes'
    BY <1>1, <1>2, <1>4, <1>5, <1>6, SMTT(40)
       DEF IndInv, RecordFailedErr, GoTo, Fault, TypeOK, RowTypes,
           ServiceTypes, WorkerTypes, Bookkeeping, EntriesNameRows,
           ReportInHand, Ownership, OwnerHoldsRunningRow, AtMostOneOwner,
              Outcomes, VerdictIffDone, AckNeverQueued, DoneEventMatchesRow,
              JobFacts
  <2> QED BY <2>1, <2>2, <2>3, <2>4 DEF IndInv
<1>7. CASE /\ status' = [status EXCEPT ![job[c]] = "failed"]
           /\ UNCHANGED verdict
           /\ old' = old \ {job[c]}
           /\ Fault("db")
  <2>1. TypeOK'
    <3>1. RowTypes'
      BY <1>1, <1>2, <1>4, <1>5, <1>7
         DEF IndInv, TypeOK, RowTypes, Bookkeeping, ReportInHand,
             RecordFailedErr, GoTo, JobFacts
    <3>2. ServiceTypes'
      BY <1>1, <1>2, <1>4, <1>5, <1>7
         DEF IndInv, TypeOK, ServiceTypes, Bookkeeping, ReportInHand,
             RecordFailedErr, GoTo, JobFacts
    <3>3. WorkerTypes'
      BY <1>1, <1>2, <1>4, <1>5, <1>7
         DEF IndInv, TypeOK, WorkerTypes, Bookkeeping, ReportInHand,
             RecordFailedErr, GoTo, JobFacts
    <3> QED BY <3>1, <3>2, <3>3 DEF TypeOK
  <2>2. Bookkeeping'
    BY <1>1, <1>2, <1>4, <1>5, <1>7, SMTT(40)
       DEF IndInv, RecordFailedErr, GoTo, Fault, TypeOK, RowTypes,
           ServiceTypes, WorkerTypes, Bookkeeping, ReportInHand,
           OnlyJobsInHand, EntriesNameRows, DownIsIdle, FaultsAccounted,
           JobFacts
  <2>3. Ownership'
    BY <1>1, <1>2, <1>4, <1>5, <1>7, SMTT(40)
       DEF IndInv, RecordFailedErr, GoTo, Fault, TypeOK, RowTypes,
           ServiceTypes, WorkerTypes, Bookkeeping, FaultsAccounted, Ownership,
           AtMostOneOwner, OwnerHoldsRunningRow, OrphanNeedsCause, Orphan,
              Owns, JobFacts
  <2>4. Outcomes'
    BY <1>1, <1>2, <1>4, <1>5, <1>7, SMTT(40)
       DEF IndInv, RecordFailedErr, GoTo, Fault, TypeOK, RowTypes,
           ServiceTypes, WorkerTypes, Bookkeeping, EntriesNameRows,
           ReportInHand, Ownership, OwnerHoldsRunningRow, AtMostOneOwner,
              Outcomes, VerdictIffDone, AckNeverQueued, DoneEventMatchesRow,
              JobFacts
  <2> QED BY <2>1, <2>2, <2>3, <2>4 DEF IndInv
<1> QED BY <1>3, <1>6, <1>7
-----------------------------------------------------------------------------
(* The initial states satisfy the invariant.                               *)
LEMMA InitInv == Init => IndInv
<1> SUFFICES ASSUME Init PROVE IndInv
  OBVIOUS
<1> USE DEF Init
<1>1. TypeOK
  <2>1. stream \in Seq(Submissions)
    OBVIOUS
  <2> QED BY <2>1 DEF TypeOK, RowTypes, ServiceTypes, WorkerTypes
<1>2. Bookkeeping
  BY
     DEF Bookkeeping, ReportInHand, OnlyJobsInHand, EntriesNameRows,
         DownIsIdle, FaultsAccounted
<1>3. Ownership
  BY DEF Ownership, AtMostOneOwner, OwnerHoldsRunningRow, OrphanNeedsCause, Orphan
<1>4. Outcomes
  BY DEF Outcomes, VerdictIffDone, AckNeverQueued, DoneEventMatchesRow
<1> QED BY <1>1, <1>2, <1>3, <1>4 DEF IndInv

(* Every step keeps it.                                                    *)
LEMMA NextInv == IndInv /\ [Next]_vars => IndInv'
<1> SUFFICES ASSUME IndInv, [Next]_vars PROVE IndInv'
  OBVIOUS
<1>1. CASE UNCHANGED vars
  BY <1>1
     DEF vars, IndInv, TypeOK, RowTypes, ServiceTypes, WorkerTypes,
         Bookkeeping, ReportInHand, OnlyJobsInHand, EntriesNameRows,
         DownIsIdle, FaultsAccounted, Ownership, AtMostOneOwner,
         OwnerHoldsRunningRow, OrphanNeedsCause, Orphan, Owns, Outcomes,
         VerdictIffDone, AckNeverQueued, DoneEventMatchesRow
<1>2. CASE StartApi \/ StopApi \/ ApiEnds \/ Wipe
  BY <1>2, KeepsStartApi, KeepsStopApi, KeepsExitApi, KeepsCrashApi, KeepsWipe
     DEF ApiEnds
<1>3. CASE Sweeper
  BY <1>3, KeepsSweepList, KeepsSweepEnqueue, KeepsSweepSkip DEF Sweeper
<1>4. ASSUME NEW s \in Submissions, Request(s) \/ Age(s) PROVE IndInv'
  BY <1>4, KeepsCreate, KeepsCreateErr, KeepsEnqueueNew, KeepsEnqueueNewErr, KeepsAge
     DEF Request
<1>5. ASSUME NEW p \in Workers, WorkerProcess(p) PROVE IndInv'
  BY <1>5, KeepsStartWorker, KeepsStopWorker, KeepsExitWorker, KeepsCrashWorker
     DEF WorkerProcess
<1>6. ASSUME NEW c \in Consumers, QuietStep(c) \/ Publish(c) \/ Expire(c) PROVE IndInv'
  <2>1. CASE LoopTop(c) \/ ReadNothing(c) \/ Deliver(c) \/ ReadErr(c)
    BY <2>1, KeepsLoopTop, KeepsReadNothing, KeepsDeliver, KeepsReadErr
  <2>2. CASE ClaimWon(c) \/ ClaimRefused(c) \/ ClaimErr(c)
    BY <2>2, KeepsClaimWon, KeepsClaimRefused, KeepsClaimErr
  <2>3. CASE Publish(c) \/ PublishErr(c) \/ JudgeOk(c) \/ JudgeErr(c)
    BY <2>3, KeepsPublish, KeepsPublishErr, KeepsJudgeOk, KeepsJudgeErr
  <2>4. CASE RecordDone(c) \/ RecordDoneErr(c) \/ RecordFailed(c) \/ RecordFailedErr(c)
    BY <2>4, KeepsRecordDone, KeepsRecordDoneErr, KeepsRecordFailed,
       KeepsRecordFailedErr
  <2>5. CASE Ack(c) \/ AckErr(c) \/ Expire(c)
    BY <2>5, KeepsAck, KeepsAckErr, KeepsExpire
  <2> QED BY <1>6, <2>1, <2>2, <2>3, <2>4, <2>5 DEF QuietStep
<1> QED BY <1>1, <1>2, <1>3, <1>4, <1>5, <1>6 DEF Next, QuietNext

(* The inductive invariant holds in every reachable state.                 *)
THEOREM Invariance == Spec => []IndInv
  BY InitInv, NextInv, PTL DEF Spec

(* The state keeps its shape.                                              *)
THEOREM TypesAreOK == Spec => []TypeOK
  BY Invariance, PTL DEF IndInv

(* However many entries name a submission, one consumer at most judges it. *)
THEOREM JudgedByOne == Spec => []AtMostOneOwner
<1>1. IndInv => AtMostOneOwner
  BY DEF IndInv, Ownership
<1> QED BY <1>1, Invariance, PTL

(* The row a consumer judges is running.                                   *)
THEOREM JudgedRowsRun == Spec => []OwnerHoldsRunningRow
<1>1. IndInv => OwnerHoldsRunningRow
  BY DEF IndInv, Ownership
<1> QED BY <1>1, Invariance, PTL

(* Rows left running by nobody are the work of a crash, a failed statement *)
(* or an expired job: never of Redis, never of a graceful shutdown.        *)
THEOREM OrphansHaveACause == Spec => []OrphanNeedsCause
<1>1. IndInv => OrphanNeedsCause
  BY DEF IndInv, Ownership
<1> QED BY <1>1, Invariance, PTL

(* A row has a verdict exactly when it is done.                            *)
THEOREM VerdictsOnlyWhenDone == Spec => []VerdictIffDone
<1>1. IndInv => VerdictIffDone
  BY DEF IndInv, Outcomes
<1> QED BY <1>1, Invariance, PTL

(* A "done" event repeats the row.                                         *)
THEOREM EventsRepeatTheRow == Spec => []DoneEventMatchesRow
<1>1. IndInv => DoneEventMatchesRow
  BY DEF IndInv, Outcomes
<1> QED BY <1>1, Invariance, PTL

(* No entry of a queued row is acknowledged.                               *)
THEOREM NoEarlyAck == Spec => []AckNeverQueued
<1>1. IndInv => AckNeverQueued
  BY DEF IndInv, Outcomes
<1> QED BY <1>1, Invariance, PTL

-----------------------------------------------------------------------------
(* The ways a row may change.                                              *)
RowMove(s) ==
  \/ status[s] = "none" /\ SetRow(s, "queued") /\ UNCHANGED verdict
  \/ status[s] = "queued" /\ SetRow(s, "running") /\ UNCHANGED verdict
  \/ /\ status[s] = "running" /\ SetRow(s, "done")
     /\ \E v \in Verdicts : verdict' = [verdict EXCEPT ![s] = v]
  \/ status[s] = "running" /\ SetRow(s, "failed") /\ UNCHANGED verdict

(* Every step leaves all rows alone or moves one row forward.              *)
LEMMA RowsMove ==
  ASSUME IndInv, Next
  PROVE  UNCHANGED <<status, verdict>> \/ \E s \in Submissions : RowMove(s)
<1>1. ASSUME NEW s \in Submissions, Request(s) \/ Age(s)
      PROVE  UNCHANGED <<status, verdict>> \/ RowMove(s)
  BY <1>1
     DEF Request, Create, CreateErr, Insert, EnqueueNew, EnqueueNewErr, Age,
         RowMove
<1>2. ASSUME NEW c \in Consumers, QuietStep(c) \/ Publish(c) \/ Expire(c)
      PROVE  UNCHANGED <<status, verdict>> \/ \E s \in Submissions : RowMove(s)
  <2>1. JobFacts(c)
    BY JobInHand
  <2>2. pc[c] \in {"claim", "markDone", "markFailed"} => job[c] \in Submissions
    BY <2>1 DEF JobFacts
  <2>3. pc[c] = "markDone" => report[c] \in Verdicts
    BY DEF IndInv, Bookkeeping, ReportInHand
  <2>4. CASE ClaimWon(c) \/ ClaimErr(c)
    BY <2>2, <2>4 DEF ClaimWon, ClaimErr, Fails, MarkRunning, Claimable, RowMove
  <2>5. CASE RecordDone(c) \/ RecordDoneErr(c)
    <3>1. MarkDone(job[c], report[c]) => UNCHANGED <<status, verdict>> \/ RowMove(job[c])
      BY <2>3, <2>5 DEF RecordDone, RecordDoneErr, MarkDone, RowMove
    <3> QED BY <2>2, <2>5, <3>1 DEF RecordDone, RecordDoneErr, Fails
  <2>6. CASE RecordFailed(c) \/ RecordFailedErr(c)
    <3>1. MarkFailed(job[c]) => UNCHANGED <<status, verdict>> \/ RowMove(job[c])
      BY <2>6 DEF RecordFailed, RecordFailedErr, MarkFailed, RowMove
    <3> QED BY <2>2, <2>6, <3>1 DEF RecordFailed, RecordFailedErr, Fails
  <2>7. CASE \/ LoopTop(c) \/ ReadNothing(c) \/ Deliver(c) \/ ReadErr(c) \/ ClaimRefused(c)
             \/ Publish(c) \/ PublishErr(c) \/ JudgeOk(c) \/ JudgeErr(c) \/ Ack(c)
             \/ AckErr(c) \/ Expire(c)
    BY <2>7
       DEF LoopTop, ReadNothing, Deliver, ReadErr, ClaimRefused, Publish,
           PublishErr, PublishCall, JudgeOk, JudgeErr, Ack, AckErr, Expire
  <2> QED BY <1>2, <2>4, <2>5, <2>6, <2>7 DEF QuietStep
<1>3. CASE StartApi \/ StopApi \/ ApiEnds \/ Sweeper \/ Wipe
  BY <1>3
     DEF StartApi, StopApi, ApiEnds, ExitApi, CrashApi, ApiGone, Sweeper,
         SweepList, SweepEnqueue, SweepSkip, Wipe
<1>4. CASE \E p \in Workers : WorkerProcess(p)
  BY <1>4 DEF WorkerProcess, StartWorker, StopWorker, ExitWorker, CrashWorker
<1> QED BY <1>1, <1>2, <1>3, <1>4 DEF Next, QuietNext

(* Such a move is a forward step of every row.                             *)
LEMMA RowsForward ==
  ASSUME IndInv, UNCHANGED <<status, verdict>> \/ \E s \in Submissions : RowMove(s)
  PROVE  \A s \in Submissions : RowStep(s)
<1> SUFFICES ASSUME NEW s \in Submissions PROVE RowStep(s)
  OBVIOUS
<1>1. Rank(status[s]) <= Rank(status[s])
  BY DEF Rank
<1>2. CASE UNCHANGED <<status, verdict>>
  BY <1>1, <1>2 DEF RowStep
<1>3. ASSUME NEW t \in Submissions, RowMove(t) PROVE RowStep(s)
  <2>1. CASE s = t
    BY <1>3, <2>1 DEF RowMove, SetRow, RowStep, Rank, IndInv, TypeOK, RowTypes
  <2>2. CASE s # t
    <3>1. status'[s] = status[s] /\ verdict'[s] = verdict[s]
      BY <1>3, <2>2 DEF RowMove, SetRow, IndInv, TypeOK, RowTypes
    <3> QED BY <1>1, <3>1 DEF RowStep
  <2> QED BY <2>1, <2>2
<1> QED BY <1>2, <1>3

(* The refinement: initial states map to initial states.                   *)
LEMMA OneShotInit == Init => OneShot!Init
  BY DEF Init, OneShot!Init, Holder, Owns

(* How the mapped holders change: not at all while nobody becomes or       *)
(* ceases to be an owner,                                                  *)
LEMMA HolderFrame ==
  ASSUME \A d \in Consumers : /\ (pc'[d] \in Owning <=> pc[d] \in Owning)
                              /\ (pc[d] \in Owning => job'[d] = job[d])
  PROVE  Holder' = Holder
  BY DEF Holder, Owns

(* the winner of a claim becomes the only holder,                          *)
LEMMA HolderGains ==
  ASSUME IndInv, NEW c \in Consumers, job[c] \in Submissions, status[job[c]] = "queued",
         pc[c] \notin Owning, pc' = [pc EXCEPT ![c] = "pubRunning"], UNCHANGED job
  PROVE  Holder' = [Holder EXCEPT ![job[c]] = {c}]
<1>1. \A d \in Consumers : ~Owns(d, job[c])
  BY DEF IndInv, Ownership, OwnerHoldsRunningRow, Owns
<1>2. \A d \in Consumers, s \in Submissions :
        Owns(d, s)' <=> (IF s = job[c] THEN d = c ELSE Owns(d, s))
  BY <1>1 DEF Owns, IndInv, TypeOK, WorkerTypes
<1> QED BY <1>2 DEF Holder

(* a consumer that is done with its row was its only holder.               *)
LEMMA HolderReleases ==
  ASSUME IndInv, NEW c \in Consumers, pc[c] \in Owning, job[c] \in Submissions,
         \A d \in Consumers \ {c} : pc'[d] = pc[d] /\ job'[d] = job[d],
         pc'[c] \notin Owning
  PROVE  /\ Holder' = [Holder EXCEPT ![job[c]] = {}]
         /\ Holder' = [s \in Submissions |-> Holder[s] \ {c}]
         /\ Holder[job[c]] # {}
<1>1. \A d \in Consumers : Owns(d, job[c]) => d = c
  BY DEF IndInv, Ownership, AtMostOneOwner, Owns
<1>2. \A d \in Consumers, s \in Submissions : Owns(d, s)' <=> (Owns(d, s) /\ d # c)
  BY DEF Owns
<1>3. \A s \in Submissions : Owns(c, s) => s = job[c]
  BY DEF Owns
<1>4. c \in Holder[job[c]]
  BY DEF Holder, Owns
<1>5. Holder' = [s \in Submissions |-> Holder[s] \ {c}]
  BY <1>2 DEF Holder
<1>6. Holder[job[c]] \ {c} = {}
  BY <1>1 DEF Holder
<1>7. \A s \in Submissions : s # job[c] => Holder[s] \ {c} = Holder[s]
  BY <1>3 DEF Holder
<1>8. Holder' = [Holder EXCEPT ![job[c]] = {}]
  BY <1>5, <1>6, <1>7 DEF Holder
<1> QED BY <1>4, <1>5, <1>8

(* and nobody's holding changes while no consumer moves.                   *)
LEMMA HolderSame == ASSUME UNCHANGED <<pc, job>> PROVE Holder' = Holder
  BY DEF Holder, Owns

(* Every step is a step of OneShotJob or leaves its variables unchanged.   *)
LEMMA OneShotStep ==
  ASSUME IndInv, Next
  PROVE  [OneShot!Next]_(OneShot!vars)
<1> USE DEF OneShot!Next, OneShot!vars
<1>1. ASSUME NEW s \in Submissions, Request(s) \/ Age(s)
      PROVE  [OneShot!Next]_(OneShot!vars)
  <2>1. Holder' = Holder
    BY <1>1, HolderSame
       DEF Request, Create, CreateErr, Insert, EnqueueNew, EnqueueNewErr, Age
  <2>2. CASE Create(s) \/ CreateErr(s)
    <3>1. OneShot!Submit(s)
      BY <2>1, <2>2
         DEF Create, CreateErr, Insert, SetRow, OneShot!Submit, OneShot!Move
    <3> QED BY <3>1
  <2>3. CASE EnqueueNew(s) \/ EnqueueNewErr(s) \/ Age(s)
    BY <2>1, <2>3 DEF EnqueueNew, EnqueueNewErr, Age
  <2> QED BY <1>1, <2>2, <2>3 DEF Request
<1>2. ASSUME NEW c \in Consumers, QuietStep(c) \/ Publish(c) \/ Expire(c)
      PROVE  [OneShot!Next]_(OneShot!vars)
  <2>1. /\ JobFacts(c)
        /\ pc[c] \in Owning \cup {"claim"} => job[c] \in Submissions
    BY JobInHand DEF JobFacts
  <2>2. pc \in [Consumers -> Labels] /\ job \in [Consumers -> Submissions \cup {None}]
    BY DEF IndInv, TypeOK, WorkerTypes
  <2>3. pc[c] \in Owning => status[job[c]] = "running"
    BY DEF IndInv, Ownership, OwnerHoldsRunningRow
  <2>4. CASE ClaimWon(c)
    <3>1. Holder' = [Holder EXCEPT ![job[c]] = {c}]
      BY <2>1, <2>4, HolderGains DEF ClaimWon, MarkRunning, Claimable, GoTo
    <3>2. OneShot!Claim(job[c])
      BY <2>1, <2>4, <3>1
         DEF ClaimWon, MarkRunning, Claimable, SetRow, OneShot!Claim,
             OneShot!Move
    <3> QED BY <2>1, <2>4, <3>2 DEF ClaimWon
  <2>5. CASE ClaimErr(c)
    <3>1. Holder' = Holder
      BY <2>2, <2>5, HolderFrame DEF ClaimErr, Nack, Return, GoTo
    <3>2. CASE UNCHANGED rowVars
      BY <3>1, <3>2
    <3>3. CASE MarkRunning(job[c])
      <4>1. \A d \in Consumers : ~Owns(d, job[c])
        BY <3>3
           DEF MarkRunning, Claimable, Owns, IndInv, Ownership,
               OwnerHoldsRunningRow
      <4>2. Holder = [Holder EXCEPT ![job[c]] = {}]
        BY <4>1 DEF Holder
      <4>3. OneShot!Claim(job[c])
        BY <3>1, <3>3, <4>2
           DEF MarkRunning, Claimable, SetRow, OneShot!Claim, OneShot!Move
      <4> QED BY <2>1, <2>5, <4>3 DEF ClaimErr
    <3> QED BY <2>5, <3>2, <3>3 DEF ClaimErr, Fails
  <2>6. CASE RecordDone(c) \/ RecordDoneErr(c) \/ RecordFailed(c) \/ RecordFailedErr(c)
    <3>1. /\ pc[c] \in Owning /\ pc'[c] \notin Owning
          /\ \A d \in Consumers \ {c} : pc'[d] = pc[d] /\ job'[d] = job[d]
      BY <2>2, <2>6
         DEF RecordDone, RecordDoneErr, RecordFailed, RecordFailedErr, Nack,
             Return, GoTo
    <3>2. /\ Holder' = [Holder EXCEPT ![job[c]] = {}]
          /\ Holder' = [s \in Submissions |-> Holder[s] \ {c}]
          /\ Holder[job[c]] # {}
      BY <2>1, <3>1, HolderReleases
    <3>3. ASSUME MarkDone(job[c], report[c]), pc[c] = "markDone"
          PROVE  OneShot!Settle(job[c])
      <4>1. report[c] \in Verdicts
        BY <3>3 DEF IndInv, Bookkeeping, ReportInHand
      <4> QED BY <2>3, <3>1, <3>2, <3>3, <4>1
             DEF MarkDone, SetRow, OneShot!Settle, OneShot!Move
    <3>4. ASSUME MarkFailed(job[c]) PROVE OneShot!Settle(job[c])
      BY <2>3, <3>1, <3>2, <3>4 DEF MarkFailed, SetRow, OneShot!Settle, OneShot!Move
    <3>5. ASSUME UNCHANGED rowVars PROVE OneShot!Abandon({c})
      BY <3>2, <3>5 DEF OneShot!Abandon
    <3>6. \/ MarkDone(job[c], report[c]) /\ pc[c] = "markDone"
          \/ MarkFailed(job[c])
          \/ UNCHANGED rowVars
      BY <2>6 DEF RecordDone, RecordDoneErr, RecordFailed, RecordFailedErr, Fails
    <3> QED BY <2>1, <3>1, <3>3, <3>4, <3>5, <3>6
  <2>7. CASE \/ LoopTop(c) \/ ReadNothing(c) \/ Deliver(c) \/ ReadErr(c) \/ ClaimRefused(c)
             \/ Publish(c) \/ PublishErr(c) \/ JudgeOk(c) \/ JudgeErr(c) \/ Ack(c)
             \/ AckErr(c) \/ Expire(c)
    <3>1. Holder' = Holder
      BY <2>2, <2>7, HolderFrame
         DEF LoopTop, ReadNothing, Deliver, ReadErr, ClaimRefused, Publish,
             PublishErr, PublishCall, AfterPublish, JudgeOk, JudgeErr, Ack,
                AckErr, Nack, Return, GoTo, Expire
    <3>2. UNCHANGED <<status, verdict>>
      BY <2>7
         DEF LoopTop, ReadNothing, Deliver, ReadErr, ClaimRefused, Publish,
             PublishErr, PublishCall, JudgeOk, JudgeErr, Ack, AckErr, Expire
    <3> QED BY <3>1, <3>2
  <2> QED BY <1>2, <2>4, <2>5, <2>6, <2>7 DEF QuietStep
<1>3. CASE StartApi \/ StopApi \/ ApiEnds \/ Sweeper \/ Wipe
  BY <1>3, HolderSame
     DEF StartApi, StopApi, ApiEnds, ExitApi, CrashApi, ApiGone, Sweeper, SweepList,
         SweepEnqueue, SweepSkip, Wipe
<1>4. ASSUME NEW p \in Workers, WorkerProcess(p)
      PROVE  [OneShot!Next]_(OneShot!vars)
  <2>1. UNCHANGED <<status, verdict>>
    BY <1>4 DEF WorkerProcess, StartWorker, StopWorker, ExitWorker, CrashWorker
  <2>2. CASE StartWorker(p)
    <3>1. \A d \in Consumers :
            /\ (pc'[d] \in Owning <=> pc[d] \in Owning)
            /\ (pc[d] \in Owning => job'[d] = job[d])
      BY <2>2 DEF StartWorker, ConsumersOf, IndInv, Bookkeeping, DownIsIdle
    <3> QED BY <2>1, <3>1, HolderFrame
  <2>3. CASE StopWorker(p) \/ ExitWorker(p)
    BY <2>1, <2>3, HolderSame DEF StopWorker, ExitWorker
  <2>4. CASE CrashWorker(p)
    <3>1. \A d \in Consumers, s \in Submissions :
            Owns(d, s)' <=> Owns(d, s) /\ d \notin ConsumersOf(p)
      BY <2>4 DEF CrashWorker, ConsumersGone, Owns
    <3>2. Holder' = [s \in Submissions |-> Holder[s] \ ConsumersOf(p)]
      BY <3>1 DEF Holder
    <3>3. OneShot!Abandon(ConsumersOf(p))
      BY <2>1, <3>2 DEF OneShot!Abandon
    <3> QED BY <3>3 DEF ConsumersOf
  <2> QED BY <1>4, <2>2, <2>3, <2>4 DEF WorkerProcess
<1> QED BY <1>1, <1>2, <1>3, <1>4 DEF Next, QuietNext
-----------------------------------------------------------------------------
(* Rows only move forward and a settled row is never rewritten.            *)
THEOREM RowsOnlyAdvance == Spec => RowNeverGoesBack
<1>1. IndInv /\ [Next]_vars => [\A s \in Submissions : RowStep(s)]_<<status, verdict>>
  BY RowsMove, RowsForward DEF vars
<1> QED BY <1>1, Invariance, PTL DEF Spec, RowNeverGoesBack

(* The pipeline implements OneShotJob: at most one claim and one outcome   *)
(* per submission, the outcome given by the holder of the claim.           *)
THEOREM ImplementsOneShot == Spec => RefinesOneShot
<1>1. IndInv /\ [Next]_vars => [OneShot!Next]_(OneShot!vars)
  <2> SUFFICES ASSUME IndInv, [Next]_vars PROVE [OneShot!Next]_(OneShot!vars)
    OBVIOUS
  <2>1. CASE UNCHANGED vars
    BY <2>1, HolderSame DEF vars, OneShot!vars
  <2>2. CASE Next
    BY <2>2, OneShotStep
  <2> QED BY <2>1, <2>2
<1> QED BY <1>1, OneShotInit, Invariance, PTL DEF Spec, RefinesOneShot, OneShot!Spec
(* Consumer c gives row s its outcome: it holds the claim, gives it up     *)
(* with this step, and writes what its own judging came to.                *)
SettledBy(c, s) ==
  /\ Owns(c, s) /\ ~Owns(c, s)'
  /\ \/ /\ pc[c] = "markDone" /\ status'[s] = "done" /\ verdict'[s] = report[c]
     \/ /\ pc[c] = "markFailed" /\ status'[s] = "failed" /\ verdict'[s] = None

(* Nobody but the worker that claimed it takes a submission out of running,*)
(* whatever is redelivered, swept or restarted meanwhile, and the verdict  *)
(* stored is the one its own judge.Run returned (ProcessOne, MarkDone and  *)
(* MarkFailed).                                                            *)
THEOREM OnlyHoldersSettle ==
  Spec => [][\A s \in Submissions :
               status[s] = "running" /\ status'[s] # "running" =>
                 \E c \in Consumers : SettledBy(c, s)]_vars
<1>1. ASSUME IndInv, Next, NEW s \in Submissions, status[s] = "running", status'[s] # "running"
      PROVE  \E c \in Consumers : SettledBy(c, s)
  <2>0. /\ pc \in [Consumers -> Labels] /\ job \in [Consumers -> Submissions \cup {None}]
        /\ status \in [Submissions -> RowStates]
        /\ verdict \in [Submissions -> Verdicts \cup {None}]
    BY <1>1 DEF IndInv, TypeOK, RowTypes, WorkerTypes
  <2>1. verdict[s] = None
    BY <1>1 DEF IndInv, Outcomes, VerdictIffDone
  <2>2. ASSUME NEW t \in Submissions, Request(t) \/ Age(t) PROVE FALSE
    BY <1>1, <2>0, <2>2
       DEF Request, Create, CreateErr, Insert, SetRow, EnqueueNew, EnqueueNewErr, Age
  <2>3. CASE StartApi \/ StopApi \/ ApiEnds \/ Sweeper \/ Wipe
    BY <1>1, <2>3
       DEF StartApi, StopApi, ApiEnds, ExitApi, CrashApi, ApiGone, Sweeper, SweepList,
           SweepEnqueue, SweepSkip, Wipe
  <2>4. CASE \E p \in Workers : WorkerProcess(p)
    BY <1>1, <2>4 DEF WorkerProcess, StartWorker, StopWorker, ExitWorker, CrashWorker
  <2>5. ASSUME NEW c \in Consumers, QuietStep(c) \/ Publish(c) \/ Expire(c)
        PROVE  SettledBy(c, s)
    <3>1. CASE RecordDone(c) \/ RecordDoneErr(c)
      <4>1. pc[c] = "markDone" /\ MarkDone(job[c], report[c])
        BY <1>1, <3>1 DEF RecordDone, RecordDoneErr, Fails
      <4>2. job[c] = s
        BY <1>1, <2>0, <4>1 DEF MarkDone, SetRow
      <4>3. pc'[c] \notin Owning
        BY <2>0, <3>1 DEF RecordDone, RecordDoneErr, Nack, Return, GoTo
      <4>4. status'[s] = "done" /\ verdict'[s] = report[c]
        BY <1>1, <2>0, <4>1, <4>2 DEF MarkDone, SetRow
      <4> QED BY <4>1, <4>2, <4>3, <4>4 DEF SettledBy, Owns
    <3>2. CASE RecordFailed(c) \/ RecordFailedErr(c)
      <4>1. pc[c] = "markFailed" /\ MarkFailed(job[c])
        BY <1>1, <3>2 DEF RecordFailed, RecordFailedErr, Fails
      <4>2. job[c] = s
        BY <1>1, <2>0, <4>1 DEF MarkFailed, SetRow
      <4>3. pc'[c] \notin Owning
        BY <2>0, <3>2 DEF RecordFailed, RecordFailedErr, GoTo
      <4>4. status'[s] = "failed" /\ verdict'[s] = None
        BY <1>1, <2>0, <2>1, <4>1, <4>2 DEF MarkFailed, SetRow
      <4> QED BY <4>1, <4>2, <4>3, <4>4 DEF SettledBy, Owns
    <3>3. CASE ClaimWon(c) \/ ClaimErr(c)
      <4>1. status[job[c]] = "queued" \/ UNCHANGED status
        BY <3>3 DEF ClaimWon, ClaimErr, Fails, MarkRunning, Claimable
      <4>2. UNCHANGED status \/ SetRow(job[c], "running")
        BY <3>3 DEF ClaimWon, ClaimErr, Fails, MarkRunning
      <4> QED BY <1>1, <2>0, <4>1, <4>2 DEF SetRow
    <3>4. CASE \/ LoopTop(c) \/ ReadNothing(c) \/ Deliver(c) \/ ReadErr(c) \/ ClaimRefused(c)
               \/ Publish(c) \/ PublishErr(c) \/ JudgeOk(c) \/ JudgeErr(c) \/ Ack(c)
               \/ AckErr(c) \/ Expire(c)
      BY <1>1, <3>4
         DEF LoopTop, ReadNothing, Deliver, ReadErr, ClaimRefused, Publish,
             PublishErr, PublishCall, JudgeOk, JudgeErr, Ack, AckErr, Expire
    <3> QED BY <2>5, <3>1, <3>2, <3>3, <3>4 DEF QuietStep
  <2> QED BY <1>1, <2>2, <2>3, <2>4, <2>5 DEF Next, QuietNext
<1>2. IndInv /\ Next => \A s \in Submissions : status[s] = "running" /\ status'[s] # "running" =>
                          \E c \in Consumers : SettledBy(c, s)
  BY <1>1
<1> QED BY <1>2, Invariance, PTL DEF Spec
=============================================================================
