------------------------------- MODULE OneShotJob -------------------------------
(***************************************************************************)
(* What the pipeline promises about a submission, whatever happens to the  *)
(* queue and the processes: it is claimed at most once, only its holder    *)
(* can give it an outcome, and an outcome is final.  It does not promise   *)
(* that a claimed job ever gets one: the holder may be lost.               *)
(***************************************************************************)
CONSTANTS Jobs, Holders, Outcomes, None

VARIABLES state, outcome, holder

vars == <<state, outcome, holder>>

Init ==
  /\ state = [j \in Jobs |-> "none"]
  /\ outcome = [j \in Jobs |-> None]
  /\ holder = [j \in Jobs |-> {}]

Move(j, from, to) == state[j] = from /\ state' = [state EXCEPT ![j] = to]

Submit(j) == Move(j, "none", "queued") /\ UNCHANGED <<outcome, holder>>

(* The claimant may never learn that it won: then nobody holds the job.    *)
Claim(j) ==
  /\ Move(j, "queued", "running")
  /\ \E H \in {{h} : h \in Holders} \cup {{}} : holder' = [holder EXCEPT ![j] = H]
  /\ UNCHANGED outcome

Settle(j) ==
  /\ holder[j] # {} /\ holder' = [holder EXCEPT ![j] = {}]
  /\ \/ /\ Move(j, "running", "done")
        /\ \E v \in Outcomes : outcome' = [outcome EXCEPT ![j] = v]
     \/ Move(j, "running", "failed") /\ UNCHANGED outcome

(* The holders in G crash or give up: their jobs stay running for good.    *)
Abandon(G) ==
  /\ holder' = [j \in Jobs |-> holder[j] \ G]
  /\ UNCHANGED <<state, outcome>>

Next ==
  \/ \E j \in Jobs : Submit(j) \/ Claim(j) \/ Settle(j)
  \/ \E G \in SUBSET Holders : Abandon(G)

Spec == Init /\ [][Next]_vars
=============================================================================
