# GoSpoc: TLA+ models, checks and proofs

GoSpoc is a small online judge. Its API stores submissions in Postgres and hands their ids to a
Redis stream; worker processes read the stream, run each submission in Docker containers against the
problem's test cases and record a verdict; users follow a submission over server-sent events. This
directory holds TLA+ modules of the parts where order, failure and concurrency matter, TLC
configurations that check them on small instances, and TLAPS proofs for every instance.
`PROJECT.json` relates every definition to the lines of the source it models.

    tlc -workers 2 -config pipeline_faults.cfg MCPipeline.tla      # a run
    tlapm ServerProofs.tla                                         # a proof, some minutes

## 1. Inventory

| Component | Source | State | Operations | Correct when |
|---|---|---|---|---|
| Submission intake | `internal/submission/handler.go` Create | none but the request in hand | validate, INSERT `queued`, enqueue as best effort | a committed row is judged, whatever happens to the enqueue or the reply |
| Submissions repository | `internal/submission/repository.go` | rows: status, verdict, maxima, compile error, result rows | guarded UPDATEs, ListStaleQueued, reads | status only advances; each UPDATE is a no-op on the wrong state |
| Sweeper | `internal/submission/sweeper.go` | the ids of the current tick | list stale queued rows, append each | every queued row reaches a consumer |
| Redis stream | `internal/queue/redisstream` | stream, group, pending list | create group at `$`, XADD, XREADGROUP `>`, XACK, Nack = nothing | no acknowledged entry names a row still to be claimed |
| Worker | `internal/worker/worker.go`, `cmd/worker` | consumer goroutines, a job and a two-minute context each | read, claim, publish, judge, record, publish, ack | one judge per submission; shutdown finishes the jobs in hand |
| API process | `cmd/api/main.go` | sweeper goroutine, HTTP server, Postgres and Redis clients | connect, serve, SIGTERM, ten seconds to shut down, close | a crash loses nothing the sweeper cannot repair; a stop ends; clients are closed under nobody unless time ran out |
| Live events | `internal/events`, handler.go Events | per request a subscription and a forwarder goroutine | subscribe, snapshot, relay, close | a client sees states in order, true ones, and the end |
| Judge | `internal/judge/judge.go` | one temporary directory per run | load, compile, test loop, classify, save rows | the verdict is earned by what ran; rows and verdict agree |
| Docker sandbox | `internal/judge/dockersandbox.go` | `result.json`, `output.txt`, container | write input, docker run, read both files | an answer is that of this execution |
| Runner | `sandbox/runner` | output counter, timer, `timedOut` | start, copy capped, kill at the limit, report | a killed command is TLE; output is whole or marked |
| Test cases | `internal/testcase` | rows nothing in the code writes | list in idx order | - |
| Accounts, problems | `internal/auth`, `user`, `problem` | rows with unique email, slug; tokens | sign up, log in, token check, admin check, create, list, get | one account per email, never overwritten; answers stay true; the role that counts is the present one |
| Own submissions | `internal/submission/handler.go` GetByID, List, Events | none | read by id or by user and problem | nobody sees another user's; what was acknowledged is found |
| Middleware, config, storage clients | `internal/httpx`, `config`, `storage` | none | log, recover, connect | a panic is a 500 |

Interaction. API and worker share nothing but Postgres and Redis. The row's status is the only
truth; the stream carries hints (an id may appear in it any number of times, or never). The API
writes `none -> queued` only, workers write `queued -> running -> done | failed` only, each by a
single UPDATE with the old status in its WHERE clause. Events travel over Redis Pub/Sub, which keeps
nothing. Judge and container share a directory.

What is hard, in the order the plan takes it: duplicate and lost queue entries against the claim;
crashes, failed statements and lost replies between any two calls of `worker.process`; shutdown while
judging; Redis coming back empty; the event stream's race between subscription, snapshot and publish;
stale files in the shared directory and containers that outlive their client; the runner's unlocked
timer callback and its output cap; requests that meet at a unique index, tokens that outlive a role,
and a shutdown with streams open. `PROJECT.json` lists these hazards line by line.

## 2. The modules

| Module | Models | Extends |
|---|---|---|
| `OneShotJob` | the abstract promise: claimed at most once, settled by its holder, final | - |
| `SubmissionPipeline` | intake, repository, sweeper, stream, worker, both processes | instances `OneShotJob` |
| `LiveEvents` | GET /submissions/{id}/events composed with the pipeline | `SubmissionPipeline` |
| `Classify` | `classify` and `normalize` as operators, and a reference for them | - |
| `JudgeRun` | `judge.Run`, `DockerSandbox.Exec`, containers, result rows | `Classify` |
| `Runner` | the process inside the container | - |
| `UniqueTable` | the abstract promise of a table with a unique key and no UPDATE | - |
| `ApiRequests` | sign-up, log-in, token and role checks, problems, a user's own submissions | instances `UniqueTable` twice |
| `ApiServer` | the life of the API process around these requests | `ApiRequests` |
| `PipelineProofs`, `RunnerProofs`, `ServerProofs` | theorems | the module they are about, `TLAPS` |
| `LiveProofs` | theorems | `LiveEvents`, `PipelineProofs` |
| `LeftFold` | theorems about the community modules' `FoldLeft`, for any step | `TLAPS` |
| `ClassifyProofs` | theorems about the comparison of texts | `Classify`, instances of `LeftFold` |
| `AcceptedProofs` | the theorem that the run `classify` checks | `MCClassify`, `ClassifyProofs` |
| `JudgeProofs` | theorems | `JudgeRun`, `ClassifyProofs` |
| `MCPipeline`, `MCLive`, `MCJudge`, `MCClassify`, `MCRequests`, `MCServer` | values of the constants; `MCClassify` also enumerates texts | |

Definitions marked `mutant:` are faulty versions of the definition that follows them. Nothing uses
them; put in the place of the right one they show that a property can fail.

### SubmissionPipeline

One action per statement sent to Postgres or Redis, so that everything can happen between two calls.

- Rows: `status`, `verdict`, and `old`, the queued rows whose `updated_at` is beyond `staleAfter`.
  `MarkRunning`, `MarkDone`, `MarkFailed` are the UPDATEs with their guards. The latter two do not
  say whether they matched a row, as in the code.
- Redis: `stream` holds entries the group has not delivered, `group` says if it exists. Entries of
  the pending list are split by who could still acknowledge them: `pending` (consumers holding one)
  and `stranded` (rows named by entries nobody holds). Without a group an XADD is for nobody,
  because the group is created at `$`.
- API: `creating` are Create handlers between INSERT and enqueue, `sweep` what the running tick has
  still to append. SIGTERM cancels the sweeper's context and leaves handlers alone.
- A consumer's `pc` walks `top, reading, claim, pubRunning, judge, markDone | markFailed, pubDone |
  pubFailed, ack`, the calls of `process`. Each call has its error action: `ClaimErr` and
  `RecordDoneErr` return without ack, `RecordFailedErr` and `PublishErr` go on, `AckErr` loses the
  ack. A failing UPDATE may have taken effect (`Fails`), which stands for a lost reply.
- `expired` are consumers whose job context passed `opTimeout`: every later call fails. A stopping
  worker's consumers finish the job, because `process` detaches its context from the signal.
- An entry that is delivered twice to the same group cannot occur (`>` only); duplicates come from
  the sweeper and from enqueues whose reply is lost. A consumer reads one entry at a time (COUNT 1).

### LiveEvents

`Connect` writes SUBSCRIBE and starts the forwarder; `Subscribed` is Redis processing it, at any
later moment; `Snapshot` reads the row and closes for strangers, missing rows and settled ones;
`Relay` writes what the forwarder hands over and closes after a terminal event. `Broadcast` extends
the pipeline's `Publish`. `StreamsCut` and `RedisRestarts` extend the API's end and `Wipe`. A dropped
connection goes back to `asked` (go-redis subscribes again), losing what is published in between.
The keep-alive comments on the wire carry no state and are left out. go-redis drops messages when a
channel of a hundred is full; a submission has three events, so `inbox` is not bounded.

### JudgeRun and Classify

Executions are numbered, 0 is the compilation. `result` and `stdout` are the two files of the shared
directory; nothing removes them between executions. `ContainerEnds` is the runner's report, which
the history variable `did` keeps, so that "the verdict is earned" can compare the answer with what
really happened rather than with what the files said. `Expire` kills the docker client only:
`ExecErr` returns while `box[n]` may still be running; a docker client that fails of itself is taken
to leave no container behind. `UseResult` is the two reads that follow: a `result.json` that is
missing, cut short or unreadable is an error (`NoResult`), whereas the error of reading `output.txt`
is dropped (`dockersandbox.go:89`), so `TakeOutput` may go on with the beginning of the text, or with
nothing when the file is gone. The fault `read` stands for both, and the history variable `unread`
keeps the executions whose `output.txt` was not read in full. `Readings` are the reports `Exec` may
have made of an execution, and `Graded` compares verdicts with these: a failed read shortens the text
of that execution and nothing else. What a submission writes into the two files itself counts
as what it printed. Rows of results are saved by statements whose
errors are logged (`BestEffort`). `Load` stands for the four reads before the first execution;
memory is recorded exactly as run time is and is not repeated.

`Classify` models texts as sequences over a few characters. `UnixNewlines`, `SplitLines`,
`TrimTail` and `JoinLines` do what the Go library calls do, as folds over the text with a named step
each; `SameOutput` says independently of them when two texts look the same, by the positions of the
visible characters.

### Runner

`Produce`, `Spawn`, `HelperEnds`, `ProgEnds` are the submitted command and a process it leaves
behind with the same standard output. `Copy` is the goroutine of `cmd.Start` with
`cappedWriter.Write`; `Fire`, `SetFlag`, `Kill` are the timer and the two statements of its callback;
`Start`, `Wait`, `Stop`, `Decide` are `run`. `timedOut` is shared without a lock; each access is a
step of its own. The race detector's concern, reading it while it is written, is covered by
`Decide` falling before or after `SetFlag`; a Boolean has no third outcome on the platforms Go
supports. `CopyErr` is a write to the output file that takes fewer bytes than it was given: the
copying stops, and nobody reports it (`main.go:152` returns the error to the copying goroutine,
whose error `run` drops with that of `Wait`).

### ApiRequests

Every client has one request at a time. `Arrive` is what happens before the first statement: the
token check, then the handler's validation, except that `POST /problems` asks for the role first
(`AskRole`), as the middleware is wrapped in `main.go`. A request then waits in `pc` for its
statement, so that other requests, an operator's role change or the end of a token can come between
any two steps. Each statement has its action, one for a refusal by the database (a unique index, the
foreign key, the role's CHECK) and one for any other error, the row written or not. `Reply` is the
client reading the answer: only then does it hold a token or know an id. `Cut` ends a request
anywhere without an answer.

- `password` and `role` are the users table by e-mail, `problems` the problems by slug, `subs` the
  submissions by id. Ids of users and problems are never reused and nothing changes an e-mail or a
  slug, so the name stands for the id. A body (password, problem text, source) is one value; `Bad`
  are those a validation refuses, including requests that do not parse and the query of a list
  whose `problem_id` is no positive number.
- `Digest` is injective: two passwords with one Argon2 hash are not considered.
- `wasAdmin` and `acked` are history: whose user was an admin at some moment since the request
  came, and what the client has been told is created.
- `panic` is the test route `GET /panic`, for what Recovery does.

### ApiServer

`main` walks `off, pool, redis, queue, serving, draining, closing`. `Shutdown` returns when no
request is open (`ShutdownDone`) or after ten seconds (`ShutdownTimeout`); a listener that breaks
makes `main` return with handlers at work (`ListenErr`). Between the close of the pool and the exit
of the process a handler gets an error where it needs a connection (`PoolClosed`), unless its
statement had begun (`Handle`). `Crash` and `Exit` take all requests with them; tables and tokens
stay.

## 3. What the runs show

| Run | Instance | Checks |
|---|---|---|
| `pipeline_faults` | 1 submission, 2 processes with 1 consumer, one fault of each of the five kinds | types, one owner of a running row, verdict iff done, acks, events, orphans, the inductive invariant, rows never go back, refinement of `OneShotJob` |
| `backstop` | 1 submission, 2 processes, a crash, a failing statement, a Redis fault; fair | every queued row is claimed while API, group and a worker stay up; claimed rows are settled through any shutdown; stopping workers end |
| `live` | 1 client, 1 submission, a Redis fault and a lost Redis; fair | types; a client never sees its submission go back; terminal events are the row's state; the inductive invariant; streams subscribed in time end; no goroutine leaks |
| `requests` | 2 clients, an address and a slug typed in two ways, 3 bodies, 1 submission, one fault, one role change, one expiry | types; answers are true when read; only admins create; both tables are `UniqueTable` |
| `server` | an author, who also lists the problems, and an onlooker, up to 2 submissions, a fault and a crash; fair | clients are closed under nobody; own rows only; what was acknowledged is found; the inductive invariant; a stop ends |
| `judge` | 3 tests, compiled or not, 5 reports, one fault of each of the four kinds; fair | the verdict is earned, as far as the output could be read; rows fit it, and the run time is that of the longest unless one was lost; one container at a time; the inductive invariant; `Run` returns although a container may hang |
| `classify` | all pairs of texts up to 4 characters over x, blank, CR, LF | AC exactly for texts that look the same |
| `runner` | limit 2, up to 4 bytes, one process left behind; fair | kills are TLE; output is whole or marked; the inductive invariant; `run` ends |

Four further runs state what a comment of the code says and find it violated (`findings` in
`PROJECT.json`):

- `stranded`: *"the DB-backed sweeper is the ultimate backstop for anything that gets stuck here"*
  (`redisstream.go:99-102`). After a crash, a failed statement or an expired job the row is running
  and its entry pending; nobody reads the pending list, and the sweeper lists queued rows only. The
  row stays running. The run has one of each of the three faults, and each alone suffices.
- `lost_messages`: the sweeper *"guarantees every queued submission eventually reaches the queue even
  if ... the message was lost"* (`sweeper.go:13-15`). The group is created at start-up only. When
  Redis, which has no volume in `compose.yaml`, comes back empty, reads fail until a restart, and a
  group made by the restart begins at `$`, past whatever the sweeper appended meanwhile.
- `missed_change`: *"Subscribe before reading the snapshot so we can't miss a change"*
  (`handler.go:166-167`). `Subscribe` does not wait for Redis's confirmation, so the worker's last
  event may be published before the subscription is known; the stream then waits for ever.
- `false_failed`: the stream sends updates *"until the submission reaches a terminal state"*
  (`handler.go:143-145`). When MarkFailed fails, "failed" is published for a row that is running.

### Bounds

- One submission is enough for ownership, refinement and repair, because consumers, stream entries
  and sweeps of different submissions interact only through the shared stream and the order of a
  sweep. `PipelineProofs` removes the bound.
- `MaxStream` caps the undelivered entries; `XADD` waits at the bound instead of failing. With one
  submission two entries are what two consumers need to meet on the same row; the liveness runs
  have one at a time in the stream, next to those in hand.
- `Budget` and `Faults` cap how often each kind of fault strikes. One of each lets any two or three
  combine (a lost reply, then a crash, then an expired job).
- `NumTests = 3` has a first, a middle and a last test; of the runner's verdicts `TLE` stands for
  MLE and RE too, after which `classify` and the loop go the same way.
- `MaxLen = 4` fits two lines with a blank or a CR at either end and trailing blank lines.
- `MaxOutput = 4` against `Limit = 2`: below, at, one beyond and two beyond the cap, in chunks.
- Two clients in `requests` and `server` are what a race at a unique index, a role change under a
  request and somebody else's submission need. `MaxSubs` is 1 in `requests`, which asks about
  accounts and problems, and 2 in `server`, one more than the id that is asked for. Each client has
  requests of its own, which meet at one address, one slug and one submission. A role change, an
  expiry, a fault and a crash happen once each: every property of these runs but `StopEnds` is also
  proved for any number.
- One client in `live`: streams share nothing but the channel's publisher. A request by somebody
  else's user takes the same branch as one for a missing row.
- A failed read leaves every prefix of a text. With texts of at most one character that is the empty
  one, which is enough to make a wrong output right and a padded one exact.
- `Reports` in `judge` uses the shortest texts that tell right, padded, wrong and truncated output
  apart, and `TLE` for all that ends badly; longer texts and every other report are the question of
  `classify`.

`pipeline_faults` uses the symmetry `Alike`: permutations of processes and consumers that keep each
consumer in its process. Neither the specification nor the properties tell them apart. No other run
uses a symmetry.

### Fairness

- `WF(ConsumerStep(c))`: goroutines are scheduled, and every call has a deadline or a block time.
  It does not force success: a faulty action is a step too, and only the budgets end the faults.
- `WF(EnqueueNew)`, `WF(SweepEnqueue)`, `WF(SweepList)`: handlers go on, the ticker ticks.
  `WF(Age)`: time passes. `WF(ExitWorker)`: `wg.Wait` returns; `WF(ExitApi)`: `Shutdown` has ten
  seconds.
- Streams: Redis processes SUBSCRIBE, handler and forwarder run. Nothing obliges a client to stay.
- API process: `WF(Handle(c))`, handlers run; `WF(ShutdownDone \/ ShutdownTimeout)`, the timer of
  ten seconds; `WF(Exit)`, the deferred closes return. No stream has to end and no client to leave.
- Judge: `WF(RunStep)` and `WF(Expire)`, nothing about containers, which may hang.
- Runner: `run`, the timer, its callback and the copying goroutine; nothing about the command.

Nothing makes a process start or stop, a user submit, or a fault strike. "The API, the group and a
worker stay up" is a premise of the properties, not a fairness condition.

`CHECK_DEADLOCK FALSE` is set for `judge`, `classify` and `runner`, which model something that
ends, and for `requests`, where every client may have nothing left to ask.

## 4. What is proved

`PipelineProofs`, for any sets of submissions, processes and consumers, any bound on stream and
faults, under `ConstantsAssumption` alone (ids are numbers, `None` is neither an id nor a verdict):

| Theorem | Says |
|---|---|
| `Invariance` | `Spec => []IndInv` |
| `TypesAreOK` | types |
| `JudgedByOne`, `JudgedRowsRun`, `OrphansHaveACause` | at most one judge, of a running row; a running row without one has a cause |
| `VerdictsOnlyWhenDone`, `EventsRepeatTheRow`, `NoEarlyAck` | verdict, events and acks agree with the row |
| `RowsOnlyAdvance` | status never goes back and settled rows never change |
| `OnlyHoldersSettle` | a running row is settled by the consumer that holds its claim, with what its own `judge.Run` returned |
| `ImplementsOneShot` | every behaviour is one of `OneShotJob` |

`AtMostOneOwner` is not inductive: that a claim cannot give a row a second owner needs the first
owner's row to be running (`OwnerHoldsRunningRow`), which is kept because only owners settle rows,
which needs that jobs in hand are rows (`TypeOK`) and that a process that is started has no consumer
in mid-job (`DownIsIdle`). `OrphanNeedsCause` needs that an expired job has used up a deadline
(`FaultsAccounted`), `DoneEventMatchesRow` that the report is still in hand (`ReportInHand`),
`AckNeverQueued` that what is read from the stream names a persisted row (`EntriesNameRows`). `IndInv`
is the conjunction; `pipeline_faults` checks it too. There is one lemma per action, with the frame
lemmas `RowsFrame` and `OwnersFrame` for the actions that move no row or no owner. The refinement
maps `holder[s]` to the set of consumers that own `s`: a claim adds one (or none, when the reply is
lost), recording removes it with the outcome, and a crash, a failed record or an expired job is
`Abandon`. `OnlyHoldersSettle` says more than the refinement: which consumer, and which verdict.

`LiveProofs`, for any clients and what they watch, under `ClientsAssumption` and `EventsAssumption`
(an empty hand is not an event):

| Theorem | Says |
|---|---|
| `LiveInvariance`, `LiveTypesAreOK` | `LiveSpec => []LiveIndInv`, and the types |
| `ShownIsTrue`, `NeverBack` | a terminal state shown is the row's; no stream goes back |
| `LiveRowsOnlyAdvance`, `LiveImplementsOneShot` | what the pipeline promises it also keeps under its streams |
| `TerminalLasts` | nothing follows a terminal event, and its row never differs from it later, unless a statement failed |
| `NoEndIsLost` | without faults, a client that is subscribed has the end of its stream still to come until the stream closes |

Every step of `LiveSpec` is one of the pipeline, leaves it alone, or only uses up a
Redis fault (`PipelineSteps`), so `IndInv` and "settled rows do not change" carry over
(`PipelineKept`). `LiveIndInv` adds that a "failed" about to be published has its cause
(`FailedHasCause`), that what is in `inbox` or `hand` was published and is true of the row
(`OnTheWay`), and that what follows the snapshot was published and nothing follows a terminal state
(`StreamSound`). `StreamMonotone` follows from these alone: before the last place there is no
terminal state, and after the first nothing lower than "running". In the proof the events that may
be delivered or shown to a client are sets, which only grow (`TrueStays`).

`NoEndIsLost` is the safety half of `SubscribedStreamEnds`: at every moment the row is unsettled, or
the consumer that settled it has still to announce it (`Announcing`), or the event is in `inbox` or
`hand` (`OnItsWay`). One lemma for each who could drop it: the pipeline (`AnnouncingStays`), PUBLISH
(`BroadcastStays`), forwarder and handler (`StreamStays`). That each of them does act is what
fairness adds, and only TLC checks. With faults it is false: a dropped subscription, a failed
PUBLISH or a crash before it each lose the event.

`RunnerProofs`, for any limit and amount of output: `Invariance`, `TypesAreOK`, `KillsAreTLE`,
`NothingIsCutSilently` and `ResultIsFinal`: once `run` has returned, a late callback or a process
left behind changes neither verdict nor file. The argument is that the flag is set before the kill and the kill before
anything it ends is waited for (`FlagBeforeKill`), that the file always mirrors the bytes copied
(`FileMirrorsCopy`, lemma `WriteMirrors`), and that after `Wait` nobody is left to write
(`NobodyLeft`).

`JudgeProofs`, for any number of tests, any reports of the runner and any number of faults, under
`JudgeAssumption` (a report has a verdict, a text, a truncation mark and a run time, and is neither
`None` nor `Broken`):

| Theorem | Says |
|---|---|
| `JudgeInvariance`, `JudgeTypesAreOK` | `Spec => []IndInv`, and the types |
| `EarnedVerdicts`, `RowsAgree`, `OneAtATime` | if the runner could write `result.json`, the verdict is what ran, as far as Exec could read the output; rows fit it; one container at a time |
| `VerdictsAreRight` | if the runner could write `result.json`, AC means that every test ended well, uncut, with output that looks like the expected one; any other verdict but CE that a first test did not. Of a test whose `output.txt` Exec could not read (`unread`) it is said only that, if accepted, it ended well and uncut |
| `RunIsBounded` | at most `4 * NumTests + 4` steps of `Run` are between claim and answer |
| `LaunchesAreJustified` | a container starts only before the deadline, alone, and, if the runner could write, only after tests accepted on what Exec could read |
| `ResultsAreFinal` | a row is never written twice; nothing changes after the answer |

In the invariant how `classify` compares texts plays no part; `VerdictsAreRight` joins it with the
theorems of `ClassifyProofs`. `VerdictIsEarned` needs that the two
files in the directory are those of this execution, from the end of the container until `Exec` has
read them (`OwnResult`), which the runner's failing write may break and nothing else does; that what
`Exec` makes of them is one of the `Readings` of the report, of which there is more than one only
after a failed read (`ReadingsKeep`, `ReadingsGrow`); that containers run one after the other
(`OneContainer`, `InOrder`); and that every test before the current one was accepted. `RowsFitAnswer` needs that rows are written in order, while all is well
(`RowsInOrder`). `RunIsBounded` is the safety half of `RunReturns`: every step of `Run` lowers
`Distance`, and containers, faults and the deadline leave it alone.

`LeftFold`, `ClassifyProofs` and `AcceptedProofs`, for texts of any length over any alphabet:

| Theorem | Says |
|---|---|
| `RunEmpty`, `RunAppend` | `FoldLeft` returns the base for the empty sequence, and one step more for each element appended |
| `LinesAreLaid` | the lines of a text hold each of its visible characters in the line and at the column where it stands |
| `NormalizeKeepsAppearance` | two texts are normalized alike exactly when they look the same |
| `Accepted` | `classify` answers AC exactly for what ended well, uncut, and looks like the expected output |

Induction over the length of a text is not cited but carried out: the library's induction theorems
take an operator, so `NatInd` states the principle for a set of naturals, from the well-order of the
naturals. `FoldLeft` chooses its recursive function; `IterExists` and `IterUnique` show that there
is one and one only, from which `RunAppend` follows. In `ClassifyProofs` an induction along the text
shows how each line and each column is laid out. Trimmed lines are determined by their visible
characters, and cutting a joined text up again gives back its lines, so equal normal forms and equal
appearances are the same thing. `AcceptedProofs` needs only that the texts being enumerated are texts.

`ServerProofs`, for any clients, names, bodies, bounds and events, under `RequestsAssumption`:

| Theorem | Says |
|---|---|
| `Invariance`, `TypesAreOK` | `Spec => []IndInv` of the requests, and the types |
| `AnswersStayTrue`, `OnlyAdminsCreate` | an answer not yet read is true; creating a problem needs an admin |
| `AccountsAreUnique`, `SlugsAreUnique` | both tables implement `UniqueTable` |
| `ServerInvariance`, `CleanStops` | the process around the requests keeps `IndInv`; clients are closed under nobody |
| `NobodySeesMore`, `WritesAreFound` | own rows only, and acknowledged rows are found, through stops and crashes |
| `ServerAnswersStayTrue`, `ServerKeepsAccounts`, `ServerKeepsSlugs` | the promises of the requests, kept through stops and crashes too |

The invariant is a conjunction over clients of facts about that client and the tables (`Bookkeeping`
and the promises). A step of one client changes the tables only by adding to them, and what is said
of the other clients survives any growth of the tables; so there is one lemma per action for the
client that acts and one lemma for all who look on. A role change is the one step that does not
only add, and `Witnessed` is what it must keep.

Model-checked only: the liveness properties, because fairness and ENABLED are out of the prover's
reach (`QueuedIsClaimed`, `RunningSettles`, `GracefulStopCompletes`, `SubscribedStreamEnds`,
`NoForwarderLeaks`, `StopEnds`, `RunReturns`, `RunEnds`). Of three the safety half is proved:
`OrphansHaveACause` for `RunningSettles`, `NoEndIsLost` and `RunIsBounded`. All other properties of
the passing runs are theorems. No module declares a RECURSIVE operator.

## 5. Not modelled

- The stderr excerpt of the runner and the flags of `docker run` (memory, network, pids): the
  container's business. A process that leaves the command's group is not killed by the runner; the
  judge's deadline then ends the run (`RunReturns`).
- Acknowledging entries that do not parse (`redisstream.go:79-85`): nothing in the system writes one.
- The details of validation (which field is wrong), tokens as texts, an empty `JWT_SECRET` (every
  log-in is then a 500), salts; logging and request ids, environment variables, migrations,
  deployment. `ListByUser` leaves out `compile_error`, which the models do not read either.
- What a program computes from its input. That the runner drops the error of opening `input.txt` and
  runs the command without it (`main.go:56`) makes no difference to the models.
- `/ping`, `/healthz`, `/me`: they touch no state.
- A sweep interval of zero or less, which makes `time.NewTicker` panic at the start.
- A client that repeats a request whose answer it lost: to the code it is a new request.
- One model of the pipeline and of `ApiServer` together: `ExitApi` of the pipeline may come at any
  time after the signal, which covers what `ApiServer` says about when it does.
- More than one API process. The code's deployment has one; sweeps of two would only add duplicate
  entries, which the pipeline already has from other sources.

## 6. Plan

Done: sections 2 to 4. What would come next:

1. `JudgeDeadline`: the pipeline's `judge` step replaced by `JudgeRun`, shown to implement `JudgeOk`
   and `JudgeErr`, with the two-minute context shared by both.
2. The pipeline's API actions refined by `ApiServer`, so that one `main` drives requests, sweeper and
   streams.
