------------------------------ MODULE JobLedger -----------------------------
(***************************************************************************)
(* What job tracking promises, without calls, threads or answers: a ledger *)
(* beside a compute service.  The service runs each job forward to one     *)
(* final status.  The ledger opens an entry only for a job the service     *)
(* has, and an entry may say at any time that the job is still under way   *)
(* (the ledger may be behind) but may say that it ended only after it did, *)
(* and only the way it did.  The ledger may be lost as a whole.            *)
(***************************************************************************)
CONSTANT Jobs

VARIABLES
    truth,  \* what has become of each job
    told    \* what the ledger says of it

Absent == "nothing"
NoEntry == "unknown"
UnderWay == {"queued", "running"}
Ended == {"succeeded", "failed"}

Init ==
    /\ truth = [j \in Jobs |-> Absent]
    /\ told = [j \in Jobs |-> NoEntry]

Launch(j) ==
    /\ truth[j] = Absent
    /\ truth' = [truth EXCEPT ![j] = "queued"]
    /\ UNCHANGED told

Advance(j) ==
    /\ truth[j] \in UnderWay
    /\ \E s \in Ended \cup {"running"} : truth' = [truth EXCEPT ![j] = s]
    /\ UNCHANGED told

Open(j) ==
    /\ truth[j] # Absent /\ told[j] = NoEntry
    /\ told' = [told EXCEPT ![j] = "queued"]
    /\ UNCHANGED truth

Refresh(j) ==
    /\ told[j] # NoEntry
    /\ \E s \in UnderWay \cup (Ended \cap {truth[j]}) : told' = [told EXCEPT ![j] = s]
    /\ UNCHANGED truth

Lose == told' = [j \in Jobs |-> NoEntry] /\ UNCHANGED truth

Next ==
    \/ \E j \in Jobs : Launch(j) \/ Advance(j) \/ Open(j) \/ Refresh(j)
    \/ Lose

Spec == Init /\ [][Next]_<<truth, told>>

=============================================================================
