-------------------------- MODULE ComputeJobsProofs -------------------------
(***************************************************************************)
(* Proofs about ComputeJobs for any number of submissions, queries, worker *)
(* threads and restarts: the registry is right about AWS Batch, and the    *)
(* whole implements JobLedger.                                             *)
(***************************************************************************)
EXTENDS ComputeJobs, TLAPS

(***************************************************************************)
(* The strengthening.  The safety properties compare the registry with AWS *)
(* at one moment, while a call carries what it saw from one moment to the  *)
(* next.  So the invariant speaks of what calls carry: a final status in a *)
(* reply is still the job's status when the coroutine resumes, a jobId in  *)
(* a reply belongs to a job that exists, and a call that is not waiting    *)
(* any more cannot resume.                                                 *)
(***************************************************************************)
SubmitCarries ==
    \A c \in Submits :
        /\ reply[c] \in Failed \cup {Nothing, "accepted", "no jobId"}
        /\ call[c] = "idle" => thread[c] = "none"
        /\ call[c] = "waiting" => thread[c] \in {"pending", "running", "ended"}
        /\ thread[c] = "pending" => call[c] = "waiting"
        /\ thread[c] = "ended" => reply[c] # Nothing
        /\ thread[c] = "running" => call[c] = "waiting" \/ result[c] = "network"
        /\ thread[c] \in {"none", "pending"} => batch[c] = Nothing
        /\ thread[c] = "withdrawn" => batch[c] = Nothing \/ restarts > 0
        /\ reply[c] \in {"accepted", "no jobId"} => batch[c] # Nothing
        /\ thread[c] = "ended" /\ reply[c] = "access denied" => batch[c] = Nothing
        /\ call[c] \in {"idle", "waiting", "lost"} => result[c] = Nothing
        /\ call[c] = "done" /\ batch[c] # Nothing =>
               result[c] \in {Receipt, "network", "upstream"} \/ restarts > 0

QueryCarries ==
    \A q \in Queries :
        /\ reply[q] \in Snapshots \cup Failed \cup {Nothing}
        /\ thread[q] = "ended" => reply[q] # Nothing
        /\ call[q] = "idle" => thread[q] = "none"
        /\ thread[q] = "running" => batch[about[q]] # Nothing
        /\ thread[q] \in {"pending"} => records[about[q]] # NoRecord
        /\ call[q] = "waiting" => records[about[q]] # NoRecord
        /\ reply[q] \in Terminal => batch[about[q]] = reply[q]

RegistryCarries ==
    \A j \in Submits :
        /\ records[j] # NoRecord => batch[j] # Nothing /\ result[j] = Receipt
        /\ records[j].status \in Terminal => records[j].status = batch[j]
        /\ restarts = 0 /\ result[j] = Receipt => records[j] # NoRecord
        /\ result[j] = Receipt => call[j] = "done"

JobsInv ==
    /\ TypeOK
    /\ SubmitCarries
    /\ QueryCarries
    /\ RegistryCarries

LEMMA CallsDisjoint ==
    /\ Submits \cap Queries = {}
    /\ Submits \subseteq Calls /\ Queries \subseteq Calls
    /\ \A c \in Calls : c \in Submits \/ c \in Queries
BY JobsAssumption DEF JobsAssumption, Calls

LEMMA JobsInit == Init => JobsInv
<1> SUFFICES ASSUME Init PROVE JobsInv OBVIOUS
<1>1. TypeOK
  BY JobsAssumption DEF JobsAssumption, Init, TypeOK
<1>2. SubmitCarries
  BY CallsDisjoint DEF Init, SubmitCarries, Nothing
<1>3. QueryCarries
  BY CallsDisjoint DEF Init, QueryCarries, Nothing, Terminal
<1>4. RegistryCarries
  BY CallsDisjoint DEF Init, RegistryCarries, NoRecord, Nothing, Receipt, Terminal
<1> QED BY <1>1, <1>2, <1>3, <1>4 DEF JobsInv

LEMMA SubmitKeeps ==
    ASSUME JobsInv, NEW c \in Submits, Submit(c)
    PROVE  JobsInv'
<1>0. c \in Calls /\ c \notin Queries BY CallsDisjoint
<1>1. PICK t \in TaskTypes :
          \/ /\ Refusal(t) # Nothing
             /\ Return(c, Refusal(t))
             /\ UNCHANGED thread
          \/ /\ Refusal(t) = Nothing
             /\ Await(c)
             /\ UNCHANGED result
  BY DEF Submit
<1>2. Refusal(t) \in {"authentication", "validation", "upstream", Nothing}
  BY DEF JobsInv, TypeOK, Refusal
<1>3. call[c] = "idle" /\ thread[c] = "none" /\ result[c] = Nothing /\ batch[c] = Nothing
  BY DEF Submit, JobsInv, SubmitCarries
<1>4. TypeOK'
  BY <1>0, <1>1, <1>2 DEF Submit, Return, Await, JobsInv, TypeOK, Errors
<1>5. SubmitCarries'
  <2>1. CASE Return(c, Refusal(t)) /\ UNCHANGED thread
    BY <2>1, <1>0, <1>3, CallsDisjoint
       DEF Submit, Return, JobsInv, TypeOK, SubmitCarries
  <2>2. CASE Await(c) /\ UNCHANGED result
    BY <2>2, <1>0, <1>3, CallsDisjoint
       DEF Submit, Await, JobsInv, TypeOK, SubmitCarries
  <2> QED BY <1>1, <2>1, <2>2
<1>6. QueryCarries'
  BY <1>0, <1>1, CallsDisjoint
     DEF Submit, Return, Await, JobsInv, TypeOK, QueryCarries
<1>7. RegistryCarries'
  BY <1>0, <1>1, <1>2, <1>3, CallsDisjoint
     DEF Submit, Return, Await, JobsInv, TypeOK, RegistryCarries, Nothing, Receipt
<1> QED BY <1>4, <1>5, <1>6, <1>7 DEF JobsInv

LEMMA StatusKeeps ==
    ASSUME JobsInv, NEW q \in Queries, Status(q)
    PROVE  JobsInv'
<1>0. q \in Calls /\ q \notin Submits BY CallsDisjoint
<1>1. TypeOK'
  BY <1>0 DEF Status, Return, Await, JobsInv, TypeOK, Errors
<1>2. SubmitCarries'
  BY <1>0, CallsDisjoint DEF Status, Return, Await, JobsInv, TypeOK, SubmitCarries
<1>3. QueryCarries'
  BY <1>0, CallsDisjoint DEF Status, Return, Await, JobsInv, TypeOK, QueryCarries
<1>4. RegistryCarries'
  BY <1>0, CallsDisjoint DEF Status, Return, Await, JobsInv, TypeOK, RegistryCarries
<1> QED BY <1>1, <1>2, <1>3, <1>4 DEF JobsInv

LEMMA ThreadKeeps ==
    ASSUME JobsInv, NEW c \in Calls, StartThread(c)
    PROVE  JobsInv'
<1>1. TypeOK'
  BY DEF StartThread, JobsInv, TypeOK
<1>2. SubmitCarries'
  BY CallsDisjoint DEF StartThread, JobsInv, TypeOK, SubmitCarries
<1>3. QueryCarries'
  BY CallsDisjoint DEF StartThread, JobsInv, TypeOK, QueryCarries, RegistryCarries
<1>4. RegistryCarries'
  BY CallsDisjoint DEF StartThread, JobsInv, TypeOK, RegistryCarries
<1> QED BY <1>1, <1>2, <1>3, <1>4 DEF JobsInv

LEMMA LaunchKeeps ==
    ASSUME JobsInv, NEW c \in Submits, Launch(c)
    PROVE  JobsInv'
<1>0. c \in Calls /\ c \notin Queries BY CallsDisjoint
<1>1. TypeOK'
  BY <1>0 DEF Launch, JobsInv, TypeOK, JobStatus
<1>2. SubmitCarries'
  BY <1>0, CallsDisjoint DEF Launch, JobsInv, TypeOK, SubmitCarries, Nothing
<1>3. QueryCarries'
  BY <1>0, CallsDisjoint DEF Launch, JobsInv, TypeOK, QueryCarries, Nothing, Terminal
<1>4. RegistryCarries'
  BY <1>0, CallsDisjoint
     DEF Launch, JobsInv, TypeOK, RegistryCarries, Nothing, Terminal
<1> QED BY <1>1, <1>2, <1>3, <1>4 DEF JobsInv

LEMMA SubmitReturnsKeeps ==
    ASSUME JobsInv, NEW c \in Submits, SubmitReturns(c)
    PROVE  JobsInv'
<1>0. c \in Calls /\ c \notin Queries BY CallsDisjoint
<1>1. TypeOK'
  BY <1>0 DEF SubmitReturns, Answer, Failed, JobsInv, TypeOK
<1>2. SubmitCarries'
  <2>1. PICK r \in {"accepted", "no jobId", "rejected", "access denied"} :
            /\ Answer(c, r)
            /\ r \in {"accepted", "no jobId"} => batch[c] # Nothing
            /\ r = "access denied" => batch[c] = Nothing
    BY DEF SubmitReturns, Failed
  <2>2. UNCHANGED <<call, result, batch, restarts>> /\ thread[c] = "running"
    BY DEF SubmitReturns
  <2>3. /\ thread' = [thread EXCEPT ![c] = "ended"]
        /\ reply' = [reply EXCEPT ![c] = r]
    BY <2>1 DEF Answer
  <2> QED BY <2>1, <2>2, <2>3, <1>0, CallsDisjoint
          DEF JobsInv, TypeOK, SubmitCarries, Nothing, Failed
<1>3. QueryCarries'
  BY <1>0, CallsDisjoint DEF SubmitReturns, Answer, JobsInv, TypeOK, QueryCarries
<1>4. RegistryCarries'
  BY <1>0, CallsDisjoint DEF SubmitReturns, Answer, JobsInv, TypeOK, RegistryCarries
<1> QED BY <1>1, <1>2, <1>3, <1>4 DEF JobsInv

LEMMA DescribeKeeps ==
    ASSUME JobsInv, NEW q \in Queries, Describe(q)
    PROVE  JobsInv'
<1>0. q \in Calls /\ q \notin Submits /\ about[q] \in Submits
  BY CallsDisjoint DEF JobsInv, TypeOK
<1>1. PICK r \in {"blank", "gone", batch[about[q]]} \cup Failed : Answer(q, r)
  BY DEF Describe
<1>2. /\ r \in Snapshots \cup Failed /\ r # Nothing
      /\ r \in Terminal => r = batch[about[q]]
  BY <1>0 DEF Describe, JobsInv, TypeOK, QueryCarries, Snapshots, Failed, Terminal,
             JobStatus, Nothing
<1>3. TypeOK'
  BY <1>0, <1>1, <1>2 DEF Describe, Answer, JobsInv, TypeOK
<1>4. SubmitCarries'
  BY <1>0, <1>1, CallsDisjoint DEF Describe, Answer, JobsInv, TypeOK, SubmitCarries
<1>5. QueryCarries'
  BY <1>0, <1>1, <1>2, CallsDisjoint
     DEF Describe, Answer, JobsInv, TypeOK, QueryCarries
<1>6. RegistryCarries'
  BY <1>0, CallsDisjoint DEF Describe, JobsInv, TypeOK, RegistryCarries
<1> QED BY <1>3, <1>4, <1>5, <1>6 DEF JobsInv

LEMMA ServiceKeeps ==
    ASSUME JobsInv, NEW j \in Submits, Advance(j) \/ Forget(j)
    PROVE  JobsInv'
<1>1. TypeOK'
  BY DEF Advance, Forget, JobsInv, TypeOK, JobStatus, Terminal
<1>b. \A i \in Submits :
         /\ batch'[i] = Nothing <=> batch[i] = Nothing
         /\ batch[i] \in Terminal => batch'[i] = batch[i]
  <2>1. CASE Advance(j)
    <3>1. PICK s \in Terminal \cup {"running"} : batch' = [batch EXCEPT ![j] = s]
      BY <2>1 DEF Advance, Terminal
    <3>2. batch[j] \in {"queued", "running"}
      BY <2>1 DEF Advance
    <3> QED BY <3>1, <3>2 DEF JobsInv, TypeOK, Terminal, Nothing
  <2>2. CASE Forget(j)
    BY <2>2 DEF Forget
  <2> QED BY <2>1, <2>2
<1>u. UNCHANGED <<wired, records, call, about, thread, reply, result, restarts, overtaken>>
  BY DEF Advance, Forget
<1>2. SubmitCarries'
  BY <1>b, <1>u DEF JobsInv, SubmitCarries, Nothing, Failed, Receipt
<1>3. QueryCarries'
  BY <1>b, <1>u DEF JobsInv, TypeOK, QueryCarries, Nothing, NoRecord, Terminal, Failed, Snapshots
<1>4. RegistryCarries'
  BY <1>b, <1>u DEF JobsInv, RegistryCarries, Nothing, NoRecord, Terminal, Receipt
<1> QED BY <1>1, <1>2, <1>3, <1>4 DEF JobsInv

LEMMA SubmitResumesKeeps ==
    ASSUME JobsInv, NEW c \in Submits, SubmitResumes(c)
    PROVE  JobsInv'
<1>0. c \in Calls /\ c \notin Queries BY CallsDisjoint
<1>1. ToState("queued") = [status |-> "queued", output |-> Nothing, detail |-> Nothing]
  BY DEF ToState
<1>2. ToState("queued") \in Record /\ ToState("queued") # NoRecord
  <2>1. [status |-> "queued", output |-> Nothing, detail |-> Nothing] \in Record
    BY DEF Record, JobStatus
  <2>2. ToState("queued").status = "queued" BY <1>1
  <2>3. NoRecord.status = "unknown" BY DEF NoRecord
  <2> QED BY <1>1, <2>1, <2>2, <2>3
<1>3. reply[c] # "accepted" => Classify(reply[c]) \in {"authentication", "upstream"}
  BY DEF Classify
<1>u. /\ call' = [call EXCEPT ![c] = "done"]
      /\ UNCHANGED <<wired, about, thread, reply, batch, forgotten, restarts, overtaken>>
  BY DEF SubmitResumes, Return
<1>4. CASE reply[c] = "accepted"
  <2> DEFINE st == ToState("queued")
  <2>1. /\ records' = [records EXCEPT ![c] = st]
        /\ result' = [result EXCEPT ![c] = Receipt]
    BY <1>4 DEF SubmitResumes, Return
  <2>2. st \in Record /\ st # NoRecord /\ st.status \notin Terminal
    BY <1>1, <1>2 DEF Terminal
  <2>3. call[c] = "waiting" /\ batch[c] # Nothing
    BY <1>4 DEF SubmitResumes, JobsInv, SubmitCarries
  <2> HIDE DEF st
  <2>4. TypeOK'
    BY <1>0, <1>u, <2>1, <2>2 DEF JobsInv, TypeOK
  <2>5. SubmitCarries'
    <3>1. /\ result'[c] = Receipt /\ call'[c] = "done" /\ thread[c] = "ended"
          /\ \A d \in Submits : d # c => result'[d] = result[d] /\ call'[d] = call[d]
      BY <1>0, <1>u, <2>1, CallsDisjoint DEF SubmitResumes, JobsInv, TypeOK
    <3> QED BY <1>u, <3>1 DEF JobsInv, SubmitCarries
  <2>6. QueryCarries'
    BY <1>0, <1>u, <2>1, <2>2, CallsDisjoint DEF JobsInv, TypeOK, QueryCarries
  <2>7. RegistryCarries'
    BY <1>0, <1>u, <2>1, <2>2, <2>3, CallsDisjoint DEF JobsInv, TypeOK, RegistryCarries
  <2> QED BY <2>4, <2>5, <2>6, <2>7 DEF JobsInv
<1>5. CASE reply[c] # "accepted"
  <2>1. /\ records' = records
        /\ result' = [result EXCEPT ![c] = Classify(reply[c])]
        /\ call[c] = "waiting"
    BY <1>5 DEF SubmitResumes, Return
  <2>2. records[c] = NoRecord /\ result[c] = Nothing
    BY <2>1 DEF JobsInv, SubmitCarries, RegistryCarries, Nothing, Receipt
  <2>4. TypeOK'
    BY <1>0, <1>3, <1>5, <1>u, <2>1 DEF JobsInv, TypeOK, Errors
  <2>3. /\ thread[c] = "ended"
        /\ batch[c] # Nothing => Classify(reply[c]) = "upstream"
    BY DEF SubmitResumes, Classify, JobsInv, SubmitCarries
  <2>5. SubmitCarries'
    <3>1. /\ result'[c] = Classify(reply[c]) /\ call'[c] = "done"
          /\ \A d \in Submits : d # c => result'[d] = result[d] /\ call'[d] = call[d]
      BY <1>0, <1>u, <2>1, CallsDisjoint DEF JobsInv, TypeOK
    <3>2. batch[c] # Nothing => result'[c] = "upstream"
      BY <2>3, <3>1
    <3> SUFFICES ASSUME NEW d \in Submits PROVE SubmitCarries!(d)'
      BY DEF SubmitCarries
    <3>3. CASE d = c
      BY <1>u, <2>3, <3>1, <3>2, <3>3 DEF JobsInv, SubmitCarries, Nothing, Receipt
    <3>4. CASE d # c
      BY <1>u, <3>1, <3>4 DEF JobsInv, SubmitCarries, Nothing, Receipt
    <3> QED BY <3>3, <3>4
  <2>6. QueryCarries'
    BY <1>0, <1>u, <2>1, CallsDisjoint DEF JobsInv, TypeOK, QueryCarries
  <2>7. RegistryCarries'
    BY <1>0, <1>3, <1>5, <1>u, <2>1, <2>2, CallsDisjoint
       DEF JobsInv, TypeOK, RegistryCarries, Receipt
  <2> QED BY <2>4, <2>5, <2>6, <2>7 DEF JobsInv
<1> QED BY <1>4, <1>5

\* The state a description maps to is a record, never ahead of AWS Batch.
LEMMA SnapshotState ==
    ASSUME JobsInv, NEW q \in Queries, Describes(reply[q]), reply[q] # Nothing
    PROVE  /\ ToState(reply[q]) \in Record
           /\ ToState(reply[q]) # NoRecord
           /\ ToState(reply[q]).status \in {"queued", "running"}
                  \cup (Terminal \cap {batch[about[q]]})
<1>1. reply[q] \in JobStatus \cup {"blank"}
  BY DEF JobsInv, QueryCarries, Describes, Snapshots
<1>2. /\ ToState(reply[q]).status = (IF reply[q] = "blank" THEN "running" ELSE reply[q])
      /\ ToState(reply[q]).output \in {"s3 uri", Nothing}
      /\ ToState(reply[q]).detail \in {"reason", Nothing}
  BY DEF ToState
<1>3. ToState(reply[q]) = [status |-> ToState(reply[q]).status,
                           output |-> ToState(reply[q]).output,
                           detail |-> ToState(reply[q]).detail]
  BY DEF ToState
<1>4. ToState(reply[q]).status \in JobStatus
  BY <1>1, <1>2 DEF JobStatus
<1>5. ToState(reply[q]) \in Record
  BY <1>2, <1>3, <1>4 DEF Record
<1>6. ToState(reply[q]) # NoRecord
  BY <1>4 DEF NoRecord, JobStatus
<1>7. reply[q] \in Terminal => batch[about[q]] = reply[q]
  BY DEF JobsInv, QueryCarries
<1> QED BY <1>1, <1>2, <1>5, <1>6, <1>7 DEF JobStatus, Terminal

LEMMA StatusResumesKeeps ==
    ASSUME JobsInv, NEW q \in Queries, StatusResumes(q)
    PROVE  JobsInv'
<1>0. q \in Calls /\ q \notin Submits /\ about[q] \in Submits
  BY CallsDisjoint DEF JobsInv, TypeOK
<1>1. reply[q] # Nothing /\ records[about[q]] # NoRecord
  BY DEF StatusResumes, JobsInv, QueryCarries
<1>2. CASE ~Describes(reply[q])
  <2>1. /\ call' = [call EXCEPT ![q] = "done"]
        /\ \E w \in {"not-found", "authentication", "upstream"} :
              result' = [result EXCEPT ![q] = w]
        /\ UNCHANGED <<records, overtaken>>
    BY <1>2 DEF StatusResumes, Return, Classify
  <2>2. UNCHANGED <<wired, about, thread, reply, batch, forgotten, restarts>>
    BY DEF StatusResumes
  <2>3. TypeOK'
    BY <1>0, <2>1, <2>2 DEF JobsInv, TypeOK, Errors
  <2>4. SubmitCarries'
    BY <1>0, <2>1, <2>2, CallsDisjoint DEF JobsInv, TypeOK, SubmitCarries
  <2>5. QueryCarries'
    BY <1>0, <2>1, <2>2, CallsDisjoint DEF JobsInv, TypeOK, QueryCarries
  <2>6. RegistryCarries'
    BY <1>0, <2>1, <2>2, CallsDisjoint DEF JobsInv, TypeOK, RegistryCarries
  <2> QED BY <2>3, <2>4, <2>5, <2>6 DEF JobsInv
<1>3. CASE Describes(reply[q])
  <2> DEFINE st == ToState(reply[q])
  <2>1. /\ st \in Record /\ st # NoRecord
        /\ st.status \in {"queued", "running"} \cup (Terminal \cap {batch[about[q]]})
    BY <1>1, <1>3, SnapshotState
  <2>2. /\ records' = [records EXCEPT ![about[q]] = st]
        /\ call' = [call EXCEPT ![q] = "done"]
        /\ \E w \in {"job-failed", "succeeded without output"}
                          \cup ({st.status} \ {"failed"}) :
              result' = [result EXCEPT ![q] = w]
        /\ overtaken' \subseteq Queries
    BY <1>3 DEF StatusResumes, Return, JobsInv, TypeOK
  <2>3. UNCHANGED <<wired, about, thread, reply, batch, forgotten, restarts>>
    BY DEF StatusResumes
  <2>4. PICK w \in {"job-failed", "succeeded without output"}
                    \cup ({st.status} \ {"failed"}) :
              result' = [result EXCEPT ![q] = w]
    BY <2>2
  <2> HIDE DEF st
  <2>5. w \in Errors \cup Views
    BY <2>1, <2>4 DEF Errors, Views, Terminal
  <2>6. TypeOK'
    BY <1>0, <2>1, <2>2, <2>3, <2>4, <2>5 DEF JobsInv, TypeOK
  <2>7. SubmitCarries'
    BY <1>0, <2>2, <2>3, <2>4, CallsDisjoint DEF JobsInv, TypeOK, SubmitCarries
  <2>8. QueryCarries'
    BY <1>0, <2>1, <2>2, <2>3, <2>4, CallsDisjoint DEF JobsInv, TypeOK, QueryCarries
  <2>9. RegistryCarries'
    BY <1>0, <1>1, <2>1, <2>2, <2>3, <2>4, CallsDisjoint
       DEF JobsInv, TypeOK, RegistryCarries, Terminal
  <2> QED BY <2>6, <2>7, <2>8, <2>9 DEF JobsInv
<1> QED BY <1>2, <1>3

LEMMA TimeoutKeeps ==
    ASSUME JobsInv, NEW c \in Calls, Timeout(c)
    PROVE  JobsInv'
<1>1. TypeOK'
  BY DEF Timeout, Return, JobsInv, TypeOK, Errors
<1>2. SubmitCarries'
  BY CallsDisjoint DEF Timeout, Return, JobsInv, TypeOK, SubmitCarries
<1>3. QueryCarries'
  BY CallsDisjoint DEF Timeout, Return, JobsInv, TypeOK, QueryCarries
<1>4. RegistryCarries'
  BY CallsDisjoint
     DEF Timeout, Return, JobsInv, TypeOK, SubmitCarries, RegistryCarries, Receipt, Nothing
<1> QED BY <1>1, <1>2, <1>3, <1>4 DEF JobsInv

LEMMA RestartKeeps ==
    ASSUME JobsInv, Restart
    PROVE  JobsInv'
<1>0. restarts' > 0 /\ restarts' # 0 /\ restarts' \in 0..MaxRestarts
  <2>1. restarts \in 0..MaxRestarts BY DEF JobsInv, TypeOK
  <2>2. MaxRestarts \in Nat BY JobsAssumption DEF JobsAssumption
  <2>3. restarts < MaxRestarts /\ restarts' = restarts + 1 BY DEF Restart
  <2> QED BY <2>1, <2>2, <2>3
<1>1. TypeOK'
  BY <1>0 DEF Restart, JobsInv, TypeOK
<1>2. SubmitCarries'
  BY <1>0, CallsDisjoint DEF Restart, JobsInv, TypeOK, SubmitCarries
<1>3. QueryCarries'
  BY <1>0, CallsDisjoint DEF Restart, JobsInv, TypeOK, QueryCarries
<1>4. RegistryCarries'
  BY <1>0, CallsDisjoint
     DEF Restart, JobsInv, TypeOK, RegistryCarries, SubmitCarries, NoRecord, Terminal
<1> QED BY <1>1, <1>2, <1>3, <1>4 DEF JobsInv

LEMMA JobsStutter ==
    ASSUME JobsInv, UNCHANGED vars
    PROVE  JobsInv'
BY DEF vars, JobsInv, TypeOK, SubmitCarries, QueryCarries, RegistryCarries

LEMMA JobsStep == JobsInv /\ [Next]_vars => JobsInv'
<1> SUFFICES ASSUME JobsInv, [Next]_vars PROVE JobsInv'
  OBVIOUS
<1>1. CASE \E c \in Submits : Submit(c) \/ Launch(c) \/ SubmitReturns(c) \/ SubmitResumes(c)
  BY <1>1, SubmitKeeps, LaunchKeeps, SubmitReturnsKeeps, SubmitResumesKeeps
<1>2. CASE \E q \in Queries : Status(q) \/ Describe(q) \/ StatusResumes(q)
  BY <1>2, StatusKeeps, DescribeKeeps, StatusResumesKeeps
<1>3. CASE \E c \in Calls : StartThread(c) \/ Timeout(c)
  BY <1>3, ThreadKeeps, TimeoutKeeps
<1>4. CASE \E j \in Submits : Advance(j) \/ Forget(j)
  BY <1>4, ServiceKeeps
<1>5. CASE Restart BY <1>5, RestartKeeps
<1>6. CASE Done \/ UNCHANGED vars BY <1>6, JobsStutter DEF Done
<1> QED BY <1>1, <1>2, <1>3, <1>4, <1>5, <1>6 DEF Next

LEMMA JobsInvariant == Spec => []JobsInv
BY JobsInit, JobsStep, PTL DEF Spec

-----------------------------------------------------------------------------

\* The registry, the calls and the threads keep their types.
THEOREM JobsTypeCorrect == Spec => []TypeOK
<1>1. JobsInv => TypeOK BY DEF JobsInv
<1> QED BY JobsInvariant, <1>1, PTL

\* A job id is registered exactly when its receipt was returned.
THEOREM Registration == Spec => []RegisteredIffReceipted
<1>1. JobsInv => RegisteredIffReceipted
  BY DEF JobsInv, RegistryCarries, RegisteredIffReceipted
<1> QED BY JobsInvariant, <1>1, PTL

\* No job runs on AWS Batch that no caller was told about, one way or another.
THEOREM Accounting == Spec => []LaunchesAccountedFor
<1>1. JobsInv => LaunchesAccountedFor
  <2> SUFFICES ASSUME JobsInv, NEW j \in Submits, batch[j] # Nothing, ~(restarts > 0)
               PROVE  \/ result[j] = Receipt
                      \/ call[j] \in {"waiting", "lost"}
                      \/ result[j] \in {"network", "upstream"} /\ thread[j] # "withdrawn"
    BY DEF LaunchesAccountedFor
  <2>1. call[j] \in {"idle", "waiting", "done", "lost"}
    BY CallsDisjoint DEF JobsInv, TypeOK
  <2> QED BY <2>1 DEF JobsInv, SubmitCarries
<1> QED BY JobsInvariant, <1>1, PTL

\* The registry is never ahead of AWS Batch.
THEOREM NotAhead == Spec => []RegistryNotAhead
<1>1. JobsInv => RegistryNotAhead
  BY DEF JobsInv, RegistryCarries, RegistryNotAhead
<1> QED BY JobsInvariant, <1>1, PTL

LEMMA LedgerInit == Init => Ledger!Init
BY DEF Init, Ledger!Init, Ledger!Absent, Ledger!NoEntry, NoRecord, Nothing

\* A step that touches neither AWS Batch nor the registry is a stutter.
LEMMA LedgerStutter ==
    ASSUME UNCHANGED <<records, batch>>
    PROVE  UNCHANGED <<batch, [j \in Submits |-> records[j].status]>>
OBVIOUS

\* A record refreshed from a description is a refreshed ledger entry.
LEMMA LedgerRefresh ==
    ASSUME JobsInv, NEW q \in Queries, StatusResumes(q), Describes(reply[q]),
           NEW j \in Submits, j = about[q]
    PROVE  Ledger!Refresh(j)
<1>1. reply[q] # Nothing /\ records[j] # NoRecord
  BY DEF StatusResumes, JobsInv, QueryCarries
<1> DEFINE st == ToState(reply[q])
<1>2. /\ st \in Record /\ st # NoRecord
      /\ st.status \in {"queued", "running"} \cup (Terminal \cap {batch[j]})
  BY <1>1, SnapshotState
<1>3. records' = [records EXCEPT ![j] = st] /\ UNCHANGED batch
  BY DEF StatusResumes
<1> HIDE DEF st
<1>4. records \in [Submits -> Record \cup {NoRecord}]
  BY DEF JobsInv, TypeOK
<1>5. records[j].status # "unknown"
  BY <1>1, <1>4 DEF Record, JobStatus
<1>6. [i \in Submits |-> records[i].status]' =
        [[i \in Submits |-> records[i].status] EXCEPT ![j] = st.status]
  BY <1>3, <1>4
<1> QED BY <1>2, <1>3, <1>5, <1>6
        DEF Ledger!Refresh, Ledger!NoEntry, Ledger!UnderWay, Ledger!Ended, Terminal

LEMMA LedgerStep ==
    ASSUME JobsInv, [Next]_vars
    PROVE  [Ledger!Next]_<<batch, [j \in Submits |-> records[j].status]>>
<1> DEFINE told == [j \in Submits |-> records[j].status]
<1>1. ASSUME NEW c \in Submits, Submit(c) \/ SubmitReturns(c)
      PROVE  UNCHANGED <<batch, told>>
  BY <1>1 DEF Submit, SubmitReturns
<1>2. ASSUME NEW c \in Submits, Launch(c)
      PROVE  Ledger!Launch(c)
  BY <1>2 DEF Launch, Ledger!Launch, Ledger!Absent, Nothing
<1>3. ASSUME NEW c \in Submits, SubmitResumes(c)
      PROVE  Ledger!Open(c) \/ UNCHANGED <<batch, told>>
  <2>1. CASE reply[c] = "accepted"
    <3>1. /\ batch[c] # Nothing /\ records[c] = NoRecord
          /\ records \in [Submits -> Record \cup {NoRecord}]
      BY <1>3, <2>1 DEF SubmitResumes, JobsInv, TypeOK, SubmitCarries, RegistryCarries,
                        Receipt, Nothing
    <3>2. /\ records' = [records EXCEPT ![c] = ToState("queued")]
          /\ UNCHANGED batch
      BY <1>3, <2>1 DEF SubmitResumes
    <3>3. ToState("queued").status = "queued" BY DEF ToState
    <3>4. told' = [told EXCEPT ![c] = "queued"]
      BY <3>1, <3>2, <3>3
    <3> QED BY <3>1, <3>2, <3>4
            DEF Ledger!Open, Ledger!Absent, Ledger!NoEntry, NoRecord, Nothing
  <2>2. CASE reply[c] # "accepted"
    BY <1>3, <2>2 DEF SubmitResumes
  <2> QED BY <2>1, <2>2
<1>4. ASSUME NEW q \in Queries, Status(q) \/ Describe(q)
      PROVE  UNCHANGED <<batch, told>>
  BY <1>4 DEF Status, Describe
<1>5. ASSUME NEW q \in Queries, StatusResumes(q)
      PROVE  \/ \E j \in Submits : Ledger!Refresh(j)
             \/ UNCHANGED <<batch, told>>
  <2>1. CASE Describes(reply[q])
    <3>1. PICK j \in Submits : j = about[q] BY DEF JobsInv, TypeOK
    <3>2. Ledger!Refresh(j) BY <1>5, <2>1, <3>1, LedgerRefresh
    <3> QED BY <3>2
  <2>2. CASE ~Describes(reply[q])
    BY <1>5, <2>2 DEF StatusResumes
  <2> QED BY <2>1, <2>2
<1>6. ASSUME NEW c \in Calls, StartThread(c) \/ Timeout(c)
      PROVE  UNCHANGED <<batch, told>>
  BY <1>6 DEF StartThread, Timeout
<1>7. ASSUME NEW j \in Submits, Advance(j)
      PROVE  Ledger!Advance(j)
  BY <1>7 DEF Advance, Ledger!Advance, Ledger!UnderWay, Ledger!Ended, Terminal
<1>8. ASSUME NEW j \in Submits, Forget(j)
      PROVE  UNCHANGED <<batch, told>>
  BY <1>8 DEF Forget
<1>9. ASSUME Restart
      PROVE  Ledger!Lose
  BY <1>9 DEF Restart, Ledger!Lose, Ledger!NoEntry, NoRecord
<1>10. ASSUME Done \/ UNCHANGED vars
       PROVE  UNCHANGED <<batch, told>>
  BY <1>10 DEF Done, vars
<1> QED BY <1>1, <1>2, <1>3, <1>4, <1>5, <1>6, <1>7, <1>8, <1>9, <1>10
        DEF Next, Ledger!Next

\* The detailed system implements the ledger, for any number of calls.
THEOREM Refinement == Spec => ImplementsLedger
<1>1. JobsInv /\ [Next]_vars =>
        [Ledger!Next]_<<batch, [j \in Submits |-> records[j].status]>>
  BY LedgerStep
<1> QED BY LedgerInit, JobsInvariant, <1>1, PTL
        DEF Spec, ImplementsLedger, Ledger!Spec
-----------------------------------------------------------------------------

(***************************************************************************)
(* FinalUnlessOvertaken.  A query that nothing overtook, and whose job's   *)
(* record is final, began to wait when the record was final already: what  *)
(* AWS told it of the job can only be that status again, or nothing.       *)
(***************************************************************************)
RepliesAreInTime ==
    \A q \in Queries :
        call[q] = "waiting" /\ thread[q] = "ended" /\ q \notin overtaken
        /\ records[about[q]].status \in Terminal
           => reply[q] \in Failed \cup {"gone", "blank", records[about[q]].status}

RecordsAreWhole ==
    \A j \in Submits :
        records[j].status \in Terminal => records[j] = ToState(records[j].status)

\* What StatusResumes does to the registry.
LEMMA ResumedRecord ==
    ASSUME JobsInv, NEW q \in Queries, StatusResumes(q)
    PROVE  /\ about[q] \in Submits /\ reply[q] \in Snapshots \cup Failed
           /\ call' = [call EXCEPT ![q] = "done"]
           /\ \/ ~Describes(reply[q]) /\ UNCHANGED <<records, overtaken>>
              \/ /\ Describes(reply[q])
                 /\ records' = [records EXCEPT ![about[q]] = ToState(reply[q])]
                 /\ overtaken' = overtaken \cup
                      {p \in Queries : p # q /\ about[p] = about[q] /\ call[p] = "waiting"}
BY DEF StatusResumes, Return, JobsInv, TypeOK, QueryCarries

LEMMA InTimeStep ==
    ASSUME JobsInv, RepliesAreInTime, RecordsAreWhole, [Next]_vars
    PROVE  RepliesAreInTime' /\ RecordsAreWhole'
<1> USE DEF RepliesAreInTime, RecordsAreWhole
<1>t. TypeOK
  BY DEF JobsInv
<1>1. ASSUME NEW c \in Submits, Submit(c)
      PROVE  RepliesAreInTime' /\ RecordsAreWhole'
  BY <1>1, <1>t, CallsDisjoint DEF Submit, Return, Await, TypeOK, ToState
<1>2. ASSUME NEW c \in Submits, Launch(c)
      PROVE  RepliesAreInTime' /\ RecordsAreWhole'
  BY <1>2 DEF Launch, ToState
<1>3. ASSUME NEW c \in Submits, SubmitReturns(c)
      PROVE  RepliesAreInTime' /\ RecordsAreWhole'
  BY <1>3, <1>t, CallsDisjoint DEF SubmitReturns, Answer, TypeOK, ToState
<1>4. ASSUME NEW c \in Submits, SubmitResumes(c)
      PROVE  RepliesAreInTime' /\ RecordsAreWhole'
  <2>1. /\ \/ UNCHANGED records \/ records' = [records EXCEPT ![c] = ToState("queued")]
        /\ UNCHANGED <<thread, reply, overtaken, about>>
        /\ \A q \in Queries : call'[q] = call[q]
    <3>1. PICK what : Return(c, what)
      BY <1>4 DEF SubmitResumes
    <3>2. \A q \in Queries : call'[q] = call[q]
      BY <1>t, <3>1, CallsDisjoint DEF Return, TypeOK
    <3> QED
      BY <1>4, <3>2 DEF SubmitResumes
  <2>2. ToState("queued").status \notin Terminal
    BY DEF ToState, Terminal
  <2>3. RecordsAreWhole'
    BY <1>t, <2>1, <2>2 DEF TypeOK, ToState
  <2>4. RepliesAreInTime'
    <3> SUFFICES ASSUME NEW q \in Queries,
                        call'[q] = "waiting", thread'[q] = "ended", q \notin overtaken',
                        records'[about'[q]].status \in Terminal
                 PROVE  reply'[q] \in Failed \cup {"gone", "blank", records'[about'[q]].status}
      BY DEF Terminal, Failed
    <3>1. about[q] \in Submits /\ records'[about[q]] = records[about[q]]
      BY <1>t, <2>1, <2>2 DEF TypeOK
    <3> QED
      BY <2>1, <3>1
  <2> QED
    BY <2>3, <2>4
<1>5. ASSUME NEW q \in Queries, Status(q)
      PROVE  RepliesAreInTime' /\ RecordsAreWhole'
  BY <1>5, <1>t, CallsDisjoint DEF Status, Return, Await, TypeOK, ToState
<1>6. ASSUME NEW q \in Queries, Describe(q)
      PROVE  RepliesAreInTime' /\ RecordsAreWhole'
  <2>1. /\ reply'[q] \in {"blank", "gone"} \cup Failed \cup {batch[about[q]]}
        /\ \A p \in Queries \ {q} : thread'[p] = thread[p] /\ reply'[p] = reply[p]
        /\ UNCHANGED <<records, call, about, overtaken>>
    <3>1. PICK r \in {"blank"} \cup Failed
                 \cup {IF about[q] \in forgotten THEN "gone" ELSE batch[about[q]]} :
             Answer(q, r)
      BY <1>6 DEF Describe
    <3>2. r \in {"blank", "gone"} \cup Failed \cup {batch[about[q]]}
      BY <3>1
    <3>3. /\ reply'[q] = r
          /\ \A p \in Queries \ {q} : thread'[p] = thread[p] /\ reply'[p] = reply[p]
      BY <1>t, <3>1, CallsDisjoint DEF Answer, TypeOK
    <3> QED
      BY <1>6, <3>2, <3>3 DEF Describe
  <2>2. records[about[q]].status \in Terminal => batch[about[q]] = records[about[q]].status
    BY <1>t DEF JobsInv, TypeOK, RegistryCarries
  <2> QED
    BY <2>1, <2>2 DEF ToState
<1>7. ASSUME NEW q \in Queries, StatusResumes(q)
      PROVE  RepliesAreInTime' /\ RecordsAreWhole'
  <2>1. UNCHANGED <<thread, reply, about>>
    BY <1>7 DEF StatusResumes
  <2>2. CASE ~Describes(reply[q])
    BY <1>7, <1>t, <2>1, <2>2, CallsDisjoint, ResumedRecord DEF TypeOK, ToState
  <2>3. CASE Describes(reply[q])
    <3>1. /\ about[q] \in Submits
          /\ records' = [records EXCEPT ![about[q]] = ToState(reply[q])]
          /\ call' = [call EXCEPT ![q] = "done"]
          /\ overtaken' = overtaken \cup
               {p \in Queries : p # q /\ about[p] = about[q] /\ call[p] = "waiting"}
      BY <1>7, <2>3, ResumedRecord
    <3>2. ToState(reply[q]).status \in Terminal => ToState(reply[q]).status = reply[q]
      BY DEF ToState, Terminal
    <3>3. RecordsAreWhole'
      BY <1>t, <3>1, <3>2 DEF TypeOK, ToState
    <3>4. RepliesAreInTime'
      <4> SUFFICES ASSUME NEW p \in Queries,
                          call'[p] = "waiting", thread'[p] = "ended", p \notin overtaken',
                          records'[about'[p]].status \in Terminal
                   PROVE  reply'[p] \in Failed \cup {"gone", "blank", records'[about'[p]].status}
        BY DEF Terminal, Failed
      <4>1. p # q /\ call[p] = "waiting" /\ p \notin overtaken /\ about[p] # about[q]
        BY <1>t, <3>1, CallsDisjoint DEF TypeOK
      <4>2. records'[about[p]] = records[about[p]]
        BY <1>t, <3>1, <4>1 DEF TypeOK
      <4> QED
        BY <2>1, <4>1, <4>2
    <3> QED
      BY <3>3, <3>4
  <2> QED
    BY <2>2, <2>3
<1>8. ASSUME NEW c \in Calls, StartThread(c) \/ Timeout(c)
      PROVE  RepliesAreInTime' /\ RecordsAreWhole'
  BY <1>8, <1>t, CallsDisjoint DEF StartThread, Timeout, Return, TypeOK, ToState
<1>9. ASSUME NEW j \in Submits, Advance(j) \/ Forget(j)
      PROVE  RepliesAreInTime' /\ RecordsAreWhole'
  BY <1>9 DEF Advance, Forget, ToState
<1>10. CASE Restart
  BY <1>10, <1>t DEF Restart, NoRecord, Terminal, TypeOK
<1>11. CASE UNCHANGED vars
  BY <1>11 DEF vars, ToState
<1> QED
  BY <1>1, <1>2, <1>3, <1>4, <1>5, <1>6, <1>7, <1>8, <1>9, <1>10, <1>11 DEF Next, Done

\* The one step that takes a final status back.
LEMMA TakenBack ==
    ASSUME JobsInv, RepliesAreInTime, RecordsAreWhole, [Next]_vars, NEW j \in Submits,
           records[j] # NoRecord, records[j].status \in Terminal, records'[j] # records[j]
    PROVE  \/ restarts' # restarts
           \/ \E q \in Queries :
                 /\ about[q] = j /\ call[q] = "waiting" /\ call'[q] = "done"
                 /\ q \in overtaken \/ reply[q] = "blank"
<1>t. TypeOK
  BY DEF JobsInv
<1>1. ASSUME NEW c \in Submits, SubmitResumes(c)
      PROVE  FALSE
  <2>1. records' = [records EXCEPT ![c] = ToState("queued")] /\ call[c] = "waiting"
    BY <1>1 DEF SubmitResumes
  <2>2. j = c
    BY <1>t, <2>1 DEF TypeOK
  <2> QED
    BY <2>1, <2>2 DEF JobsInv, SubmitCarries, RegistryCarries, Receipt
<1>2. ASSUME Restart
      PROVE  restarts' # restarts
  <2>1. restarts \in 0..MaxRestarts /\ MaxRestarts \in Nat
    BY <1>t, JobsAssumption DEF JobsAssumption, TypeOK
  <2>2. restarts' = restarts + 1
    BY <1>2 DEF Restart
  <2> QED
    BY <2>1, <2>2
<1>3. ASSUME NEW q \in Queries, StatusResumes(q)
      PROVE  /\ about[q] = j /\ call[q] = "waiting" /\ call'[q] = "done"
             /\ q \in overtaken \/ reply[q] = "blank"
  <2>1. /\ Describes(reply[q]) /\ about[q] = j
        /\ records'[j] = ToState(reply[q])
        /\ call'[q] = "done"
    <3>1. /\ about[q] \in Submits
          /\ call' = [call EXCEPT ![q] = "done"]
          /\ Describes(reply[q]) /\ records' = [records EXCEPT ![about[q]] = ToState(reply[q])]
      BY <1>3, ResumedRecord
    <3>2. about[q] = j /\ records'[j] = ToState(reply[q])
      BY <1>t, <3>1 DEF TypeOK
    <3> QED
      BY <1>t, <3>1, <3>2, CallsDisjoint DEF TypeOK
  <2>2. call[q] = "waiting" /\ thread[q] = "ended"
    BY <1>3 DEF StatusResumes
  <2>3. q \notin overtaken => reply[q] \in {"blank", records[j].status}
    BY <2>1, <2>2 DEF RepliesAreInTime, Describes
  <2>4. ToState(records[j].status) = records[j]
    BY DEF RecordsAreWhole
  <2> QED
    BY <2>1, <2>2, <2>3, <2>4
<1>4. (\E c \in Submits : SubmitResumes(c)) \/ (\E q \in Queries : StatusResumes(q)) \/ Restart
  BY DEF Next, Submit, Launch, SubmitReturns, Status, Describe, StartThread, Timeout,
         Advance, Forget, Done, vars
<1> QED
  BY <1>1, <1>2, <1>3, <1>4

\* A record that says succeeded or failed is taken back by a restart, by a query
\* that another one overtook, or by an answer without a status, and by nothing else.
THEOREM FinalStays == Spec => FinalUnlessOvertaken
<1>1. Init => RepliesAreInTime /\ RecordsAreWhole
  BY CallsDisjoint DEF Init, RepliesAreInTime, RecordsAreWhole, NoRecord, Terminal
<1>2. JobsInv /\ RepliesAreInTime /\ RecordsAreWhole /\ [Next]_vars
        => (RepliesAreInTime /\ RecordsAreWhole)'
  BY InTimeStep
<1>3. JobsInv /\ RepliesAreInTime /\ RecordsAreWhole /\ [Next]_vars =>
        [\A j \in Submits :
            records[j] # NoRecord /\ records[j].status \in Terminal
            /\ records'[j] # records[j] =>
               \/ restarts' # restarts
               \/ \E q \in Queries :
                     /\ about[q] = j /\ call[q] = "waiting" /\ call'[q] = "done"
                     /\ q \in overtaken \/ reply[q] = "blank"]_vars
  BY TakenBack
<1> QED
  BY <1>1, <1>2, <1>3, JobsInvariant, PTL DEF Spec, FinalUnlessOvertaken
=============================================================================
