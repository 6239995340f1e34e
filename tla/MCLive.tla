---------------------------------- MODULE MCLive ----------------------------------
(* Values of the constants of LiveEvents for TLC: every client watches the *)
(* one submission, some are not its owner.                                 *)
EXTENDS LiveEvents, TLC

CONSTANTS c1, w1, k1, k2

OneConsumer == c1 :> w1
AllWatchOne == [k \in Clients |-> 1]

NoFaults    == [k \in FaultKinds |-> 0]
OneDbError  == [NoFaults EXCEPT !["db"] = 1]
RedisFaults == [NoFaults EXCEPT !["redis"] = 1, !["wipe"] = 1]
=============================================================================
