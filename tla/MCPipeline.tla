-------------------------------- MODULE MCPipeline --------------------------------
(* Values of the pipeline's constants for TLC.                             *)
EXTENDS SubmissionPipeline, TLC

CONSTANTS c1, c2, w1, w2

(* two processes with one consumer each / one process with one consumer    *)
TwoProcesses == (c1 :> w1) @@ (c2 :> w2)
OneConsumer  == (c1 :> w1)

(* Processes are alike as long as each keeps its own consumers.            *)
Alike ==
  {p \in Permutations(Consumers \cup Workers) :
     \A c \in Consumers : p[c] \in Consumers /\ WorkerOf[p[c]] = p[WorkerOf[c]]}

NoFaults == [k \in FaultKinds |-> 0]

EveryFaultOnce == [k \in FaultKinds |-> 1]
RepairLoad     == [NoFaults EXCEPT !["crash"] = 1, !["db"] = 1, !["redis"] = 1]
OneJobLost     == [NoFaults EXCEPT !["crash"] = 1, !["db"] = 1, !["deadline"] = 1]
OneWipe        == [NoFaults EXCEPT !["wipe"] = 1]
=============================================================================
