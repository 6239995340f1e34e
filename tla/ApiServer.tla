-------------------------------- MODULE ApiServer --------------------------------
(***************************************************************************)
(* The life of the API process around its requests: main connects to       *)
(* Postgres and Redis, makes the consumer group, serves, and on SIGTERM    *)
(* gives the handlers ten seconds before its deferred calls close both     *)
(* clients and the process ends.                                           *)
(***************************************************************************)
EXTENDS ApiRequests

VARIABLES
  main,     \* where main is
  forced    \* it closed its clients without having waited for all handlers

serverVars == <<main, forced>>
allVars == <<vars, serverVars>>

Starting  == {"pool", "redis", "queue"}
MainSteps == Starting \cup {"off", "serving", "draining", "closing"}

ServerInit == Init /\ main = "off" /\ forced = FALSE

-----------------------------------------------------------------------------
(* Start: storage.New, NewRedis, redisstream.New, then ListenAndServe.     *)

AfterStart == [off |-> "pool", pool |-> "redis", redis |-> "queue", queue |-> "serving"]

StartStep ==
  /\ main \in DOMAIN AfterStart /\ main' = AfterStart[main] /\ forced' = FALSE
  /\ UNCHANGED vars

(* A connection is refused, or the signal comes first: main returns.       *)
StartErr ==
  /\ main \in Starting /\ main' = "off"
  /\ UNCHANGED <<vars, forced>>

(* The port is taken, the listener breaks: main returns, handlers or not.  *)
ListenErr ==
  /\ main = "serving" /\ main' = "closing" /\ forced' = TRUE
  /\ UNCHANGED vars

-----------------------------------------------------------------------------
(* Stop.                                                                   *)

Signal ==
  /\ main = "serving" /\ main' = "draining"
  /\ UNCHANGED <<vars, forced>>

Drained == \A c \in Clients : pc[c] = "idle"

ShutdownAtOnce ==      \* mutant: Close in the place of Shutdown
  /\ main = "draining" /\ main' = "closing"
  /\ UNCHANGED <<vars, forced>>

(* Shutdown returns nil: no connection is busy any more.                   *)
ShutdownDone ==
  /\ main = "draining" /\ Drained /\ main' = "closing"
  /\ UNCHANGED <<vars, forced>>

ShutdownWaits ==       \* mutant: Shutdown gets a context without a timeout
  /\ main = "draining" /\ Drained /\ main' = "closing" /\ forced' = TRUE
  /\ UNCHANGED vars

(* Ten seconds are over: Shutdown returns an error, main returns.          *)
ShutdownTimeout ==
  /\ main = "draining" /\ ~Drained /\ main' = "closing" /\ forced' = TRUE
  /\ UNCHANGED vars

(* The process is gone, with whatever its handlers were at.                *)
Gone ==
  /\ main' = "off"
  /\ pc' = [c \in Clients |-> "idle"] /\ req' = [c \in Clients |-> None]
  /\ code' = [c \in Clients |-> 0] /\ shown' = [c \in Clients |-> {}]
  /\ wasAdmin' = {}
  /\ UNCHANGED <<tables, sessions, acked, forced>>

Exit == main = "closing" /\ Gone /\ UNCHANGED budget

Crash == main # "off" /\ Gone /\ Happens("crash")

-----------------------------------------------------------------------------
(* The handlers.  Shutdown closes the listener, but a connection accepted  *)
(* before may still bring its request.                                     *)

Serve(c) ==
  /\ main \in {"serving", "draining"}
  /\ \E r \in Requests[c] : Arrive(c, r)
  /\ UNCHANGED serverVars

(* A statement that began before pool.Close is waited for.                 *)
Handle(c) ==
  /\ Work(c)
  /\ UNCHANGED serverVars

NeedsPool(c) == pc[c] \in {"role", "call"}

(* One that begins later gets ErrClosedPool.                               *)
PoolClosed(c) ==
  /\ main = "closing" /\ NeedsPool(c)
  /\ Answer(c, IF pc[c] = "role" THEN 401 ELSE 500)
  /\ UNCHANGED <<shown, tables, sessions, history, budget, serverVars>>

ServerNext ==
  \/ StartStep \/ StartErr \/ ListenErr
  \/ Signal \/ ShutdownDone \/ ShutdownTimeout \/ Exit \/ Crash
  \/ \E c \in Clients : Serve(c) \/ Handle(c) \/ PoolClosed(c)
  \/ Outside /\ UNCHANGED serverVars

ServerSpec == ServerInit /\ [][ServerNext]_allVars

(* Handlers run, Shutdown has a timer, main's deferred calls return: what  *)
(* pool.Close waits for are single statements.  Nothing obliges a process  *)
(* to start, a client to ask or to leave, or a stream to end.              *)
ServerFairness ==
  /\ \A c \in Clients : WF_allVars(Handle(c))
  /\ WF_allVars(ShutdownDone \/ ShutdownTimeout)
  /\ WF_allVars(Exit)

FairServerSpec == ServerSpec /\ ServerFairness

-----------------------------------------------------------------------------
ServerTypeOK == main \in MainSteps /\ forced \in BOOLEAN

(* A handler works only while Redis and Postgres clients are open: not     *)
(* before the start is complete, and after the end of Shutdown only when   *)
(* the ten seconds were not enough or the listener failed.  So a shutdown  *)
(* that reports "server stopped cleanly" has answered everybody, also      *)
(* those who asked while it waited.                                        *)
ClosedUnderNobody ==
  Drained \/ main \in {"serving", "draining"} \/ (main = "closing" /\ forced)

(* The inductive invariant of the process.                                 *)
ServerIndInv == IndInv /\ ServerTypeOK /\ ClosedUnderNobody

(* A process told to stop ends, whatever its event streams wait for: they  *)
(* are not told of the shutdown, and need not end by themselves.           *)
StopEnds == main = "draining" ~> main = "off"
=============================================================================
