------------------------------- MODULE LiveEvents -------------------------------
(***************************************************************************)
(* GET /submissions/{id}/events on top of the pipeline.  A handler         *)
(* subscribes to the submission's Redis channel, sends a snapshot of the   *)
(* row and then relays what workers publish until a terminal state.  The   *)
(* SUBSCRIBE command is only written when the handler goes on: Redis may   *)
(* process it later.  A forwarder goroutine per stream stands between the  *)
(* subscription and the handler.                                           *)
(***************************************************************************)
EXTENDS SubmissionPipeline

CONSTANTS
  Clients,   \* requests to the events endpoint
  Watches,   \* the submission a request asks for
  Owners     \* the requests made by the submission's own user

ASSUME ClientsAssumption ==
  /\ Watches \in [Clients -> Submissions]
  /\ Owners \subseteq Clients

VARIABLES
  conn,    \* the handler: idle, subscribed, streaming, closed
  sub,     \* its subscription in Redis: off, asked, active
  inbox,   \* received messages the forwarder has not taken
  hand,    \* the event the forwarder offers to the handler
  fwd,     \* the forwarder goroutine: off, running, ended
  sent     \* what was written to the client

liveVars == <<conn, sub, inbox, hand, fwd, sent>>

Event(st, v) == [status |-> st, verdict |-> v]
Events == [status : RowStates, verdict : Verdicts \cup {None}]

(* An empty hand holds no event.                                           *)
ASSUME EventsAssumption == None \notin Events

IsTerminalNever(e) == FALSE                  \* mutant: the stream never ends by itself
IsTerminal(e) == e.status \in Settled

LiveInit ==
  /\ Init
  /\ conn = [k \in Clients |-> "idle"]
  /\ sub = [k \in Clients |-> "off"]
  /\ inbox = [k \in Clients |-> <<>>]
  /\ hand = [k \in Clients |-> None]
  /\ fwd = [k \in Clients |-> "off"]
  /\ sent = [k \in Clients |-> <<>>]

-----------------------------------------------------------------------------
(* What pipeline steps do to the streams.                                  *)

EventOfUnknownStatus(c) ==   \* mutant: publishes a status no row has
  IF pc[c] = "pubDone" THEN Event("judged", report[c]) ELSE Event("running", None)

EventOf(c) ==
  CASE pc[c] = "pubRunning" -> Event("running", None)
    [] pc[c] = "pubFailed"  -> Event("failed", None)
    [] OTHER                -> Event("done", report[c])

(* PUBLISH reaches the subscriptions Redis knows of at that moment.        *)
Broadcast(c) ==
  /\ Publish(c)
  /\ inbox' = [k \in Clients |->
       IF sub[k] = "active" /\ Watches[k] = job[c]
         THEN Append(inbox[k], EventOf(c)) ELSE inbox[k]]
  /\ UNCHANGED <<conn, sub, hand, fwd, sent>>

(* The API process ends: its handlers and forwarders end with it.          *)
StreamsCut ==
  LET open == {k \in Clients : conn[k] # "idle"} IN
  /\ ApiEnds
  /\ conn'  = [k \in Clients |-> IF k \in open THEN "closed" ELSE conn[k]]
  /\ sub'   = [k \in Clients |-> "off"]
  /\ inbox' = [k \in Clients |-> <<>>]
  /\ hand'  = [k \in Clients |-> None]
  /\ fwd'   = [k \in Clients |-> IF k \in open THEN "ended" ELSE fwd[k]]
  /\ UNCHANGED sent

(* A broken connection is dialled again and re-subscribed: what is         *)
(* published in between is not delivered.                                  *)
Resubscribe(K) ==
  /\ sub' = [k \in Clients |-> IF k \in K /\ sub[k] = "active" THEN "asked" ELSE sub[k]]
  /\ UNCHANGED <<conn, inbox, hand, fwd, sent>>

RedisRestarts == Wipe /\ Resubscribe(Clients)

-----------------------------------------------------------------------------
(* The handler.                                                            *)

Connect(k) ==
  /\ api # "down" /\ conn[k] = "idle"
  /\ conn' = [conn EXCEPT ![k] = "subscribed"]
  /\ sub' = [sub EXCEPT ![k] = "asked"]
  /\ fwd' = [fwd EXCEPT ![k] = "running"]
  /\ UNCHANGED <<inbox, hand, sent, vars>>

(* Redis processes the SUBSCRIBE.                                          *)
Subscribed(k) ==
  /\ sub[k] = "asked" /\ sub' = [sub EXCEPT ![k] = "active"]
  /\ UNCHANGED <<conn, inbox, hand, fwd, sent, vars>>

SubscriptionDrops(k) ==
  /\ sub[k] = "active" /\ Fault("redis") /\ Resubscribe({k})
  /\ UNCHANGED <<rowVars, queueVars, apiVars, workerVars>>

(* The handler returns: cancel closes the subscription, net/http ends the  *)
(* request's context.                                                      *)
Close(k) ==
  /\ conn' = [conn EXCEPT ![k] = "closed"]
  /\ sub' = [sub EXCEPT ![k] = "off"]

Write(k, e) == sent' = [sent EXCEPT ![k] = Append(@, e)]

SnapshotKeepsOpen(k) ==      \* mutant: no return after a terminal snapshot
  /\ conn[k] = "subscribed"
  /\ conn' = [conn EXCEPT ![k] = "streaming"] /\ UNCHANGED sub
  /\ Write(k, Event(status[Watches[k]], verdict[Watches[k]]))
  /\ UNCHANGED <<inbox, hand, fwd, vars>>

Snapshot(k) ==
  LET s == Watches[k]
      e == Event(status[s], verdict[s])
  IN
  /\ conn[k] = "subscribed"
  /\ \/ (status[s] = "none" \/ k \notin Owners) /\ Close(k) /\ UNCHANGED sent
     \/ /\ status[s] # "none" /\ k \in Owners
        /\ Write(k, e)
        /\ IF IsTerminal(e) THEN Close(k)
           ELSE conn' = [conn EXCEPT ![k] = "streaming"] /\ UNCHANGED sub
  /\ UNCHANGED <<inbox, hand, fwd, vars>>

(* The SELECT fails, which no row notices: it needs no budget.             *)
SnapshotErr(k) ==
  /\ conn[k] = "subscribed" /\ Close(k)
  /\ UNCHANGED <<inbox, hand, fwd, sent, vars>>

(* The handler receives from the forwarder and writes to the client.       *)
Relay(k) ==
  LET e == hand[k] IN
  /\ conn[k] = "streaming" /\ e # None
  /\ hand' = [hand EXCEPT ![k] = None]
  /\ Write(k, e)
  /\ IF IsTerminal(e) THEN Close(k) ELSE UNCHANGED <<conn, sub>>
  /\ UNCHANGED <<inbox, fwd, vars>>

(* The client goes away: its context ends, in whatever the handler waits.  *)
Disconnect(k) ==
  /\ conn[k] \in {"subscribed", "streaming"} /\ Close(k)
  /\ UNCHANGED <<inbox, hand, fwd, sent, vars>>

-----------------------------------------------------------------------------
(* The forwarder.                                                          *)

Take(k) ==
  /\ fwd[k] = "running" /\ hand[k] = None /\ inbox[k] # <<>>
  /\ hand' = [hand EXCEPT ![k] = Head(inbox[k])]
  /\ inbox' = [inbox EXCEPT ![k] = Tail(@)]
  /\ UNCHANGED <<conn, sub, fwd, sent, vars>>

MayQuitIfEmpty(k) ==         \* mutant: the send has no way out
  hand[k] = None /\ inbox[k] = <<>>

(* Either its send loses to the end of the context, or the closed          *)
(* subscription is drained.                                                *)
MayQuit(k) == hand[k] # None \/ inbox[k] = <<>>

Quit(k) ==
  /\ fwd[k] = "running" /\ conn[k] = "closed" /\ MayQuit(k)
  /\ fwd' = [fwd EXCEPT ![k] = "ended"]
  /\ hand' = [hand EXCEPT ![k] = None] /\ inbox' = [inbox EXCEPT ![k] = <<>>]
  /\ UNCHANGED <<conn, sub, sent, vars>>

-----------------------------------------------------------------------------
StreamStep(k) ==
  \/ Connect(k) \/ Subscribed(k) \/ SubscriptionDrops(k)
  \/ Snapshot(k) \/ SnapshotErr(k) \/ Relay(k) \/ Disconnect(k)
  \/ Take(k) \/ Quit(k)

LiveNext ==
  \/ QuietNext /\ UNCHANGED liveVars
  \/ \E c \in Consumers : Broadcast(c)
  \/ StreamsCut
  \/ RedisRestarts
  \/ \E k \in Clients : StreamStep(k)

LiveSpec == LiveInit /\ [][LiveNext]_<<vars, liveVars>>

(* As in the pipeline: goroutines that can run do; Redis processes what it *)
(* is sent.  Clients connect and leave as they like.                       *)
LiveFairness ==
  /\ \A c \in Consumers :
       WF_<<vars, liveVars>>((QuietStep(c) /\ UNCHANGED liveVars) \/ Broadcast(c))
  /\ \A s \in Submissions :
       WF_<<vars, liveVars>>(
         (EnqueueNew(s) \/ Age(s) \/ SweepEnqueue(s)) /\ UNCHANGED liveVars)
  /\ WF_<<vars, liveVars>>(SweepList /\ UNCHANGED liveVars)
  /\ \A k \in Clients :
       /\ WF_<<vars, liveVars>>(Subscribed(k))
       /\ WF_<<vars, liveVars>>(Snapshot(k))
       /\ WF_<<vars, liveVars>>(Relay(k))
       /\ WF_<<vars, liveVars>>(Take(k))
       /\ WF_<<vars, liveVars>>(Quit(k))

LiveFairSpec == LiveSpec /\ LiveFairness

-----------------------------------------------------------------------------
(* The shape of the stream state.                                          *)
LiveTypeOK ==
  /\ conn \in [Clients -> {"idle", "subscribed", "streaming", "closed"}]
  /\ sub \in [Clients -> {"off", "asked", "active"}]
  /\ inbox \in [Clients -> Seq(Events)]
  /\ hand \in [Clients -> Events \cup {None}]
  /\ fwd \in [Clients -> {"off", "running", "ended"}]
  /\ sent \in [Clients -> Seq(Events)]

(* A client never sees its submission go back, although the snapshot and   *)
(* the events reach it by different ways, and it sees nothing after a      *)
(* terminal state.                                                         *)
StreamMonotone ==
  \A k \in Clients : \A i, j \in DOMAIN sent[k] :
    i < j => /\ Rank(sent[k][i].status) <= Rank(sent[k][j].status)
             /\ ~IsTerminal(sent[k][i])

(* A terminal state shown to a client is the row's, the verdict included.  *)
(* Only a failed statement may leave "failed" shown for a row that is not. *)
EventTrue(s, e) ==
  /\ e.status = "done" => status[s] = "done" /\ verdict[s] = e.verdict
  /\ e.status = "failed" => status[s] = "failed" \/ Used("db")

TerminalMatchesRow ==
  \A k \in Clients : \A i \in DOMAIN sent[k] : EventTrue(Watches[k], sent[k][i])

(* Why both hold: "failed" is only published for a reason, what is on its  *)
(* way to a client is as true as what has been shown, everything after the *)
(* snapshot was published, and nothing follows a terminal state.           *)
FailedHasCause ==
  \A c \in Consumers :
    pc[c] = "pubFailed" => status[job[c]] = "failed" \/ c \in expired \/ Used("db")

Published == {"running", "done", "failed"}

Deliverable(k, e) == e.status \in Published /\ EventTrue(Watches[k], e)

OnTheWay(k) ==
  /\ \A i \in DOMAIN inbox[k] : Deliverable(k, inbox[k][i])
  /\ hand[k] # None => Deliverable(k, hand[k])

StreamSound(k) ==
  /\ conn[k] \in {"idle", "subscribed"} => sent[k] = <<>>
  /\ \A i \in DOMAIN sent[k] :
       /\ i < Len(sent[k]) \/ conn[k] = "streaming" => ~IsTerminal(sent[k][i])
       /\ i > 1 => sent[k][i].status \in Published

LiveIndInv ==
  /\ IndInv /\ FailedHasCause /\ LiveTypeOK /\ TerminalMatchesRow
  /\ \A k \in Clients : OnTheWay(k) /\ StreamSound(k)

(* Without faults, once Redis knows the subscription while the row is      *)
(* unsettled, the stream ends with the submission: nothing between the     *)
(* worker and the client loses the terminal event.                         *)
SubscribedStreamEnds ==
  (\E p \in Workers : <>[]Served(p)) /\ [](budget = Budget) =>
    \A k \in Clients :
      (conn[k] = "streaming" /\ sub[k] = "active" /\ status[Watches[k]] \notin Settled)
        ~> conn[k] = "closed"

(* No forwarder outlives its handler: whatever it holds when the handler   *)
(* returns, it ends.                                                       *)
NoForwarderLeaks == \A k \in Clients : conn[k] = "closed" ~> fwd[k] = "ended"

-----------------------------------------------------------------------------
(* Claims of comments that the code does not keep.                         *)

(* handler.go: "Subscribe before reading the snapshot so we can't miss a   *)
(* change that lands between the two": so every stream would end once the  *)
(* submission is settled.                                                  *)
NoChangeMissed ==
  (\E p \in Workers : <>[]Served(p)) =>
    \A k \in Clients : conn[k] = "streaming" ~> conn[k] = "closed"

(* handler.go: Events sends "live updates until the submission reaches a   *)
(* terminal state (done/failed)": so a "failed" that ends a stream would   *)
(* be the state of the row.                                                *)
FailedMeansFailed ==
  \A k \in Clients : \A i \in DOMAIN sent[k] :
    sent[k][i].status = "failed" => status[Watches[k]] = "failed"
=============================================================================
