----------------------------- MODULE ComputeJobs ----------------------------
(***************************************************************************)
(* Job submission and status of the aws-geo-compute peer: the tools submit *)
(* and status of AwsGeoComputeServer, the JobManager and its in-memory     *)
(* registry (jobs.py), the AwsBatchJobBackend (backends.py) and the AWS    *)
(* Batch service it talks to (external).                                   *)
(*                                                                         *)
(* A tool call awaits asyncio.wait_for(backend call), and the backend call *)
(* awaits asyncio.to_thread(boto3 call).  The deadline cancels the         *)
(* coroutine and never the thread: a boto3 call that a worker thread has   *)
(* begun runs on, so a submission reported as failed may still launch a    *)
(* job.  A call that still waits for a worker is withdrawn.                *)
(*                                                                         *)
(* Every call is made once, so a submit call c also names the uuid4 job id *)
(* it mints and the Batch jobId it is given.                               *)
(***************************************************************************)
EXTENDS Naturals, FiniteSets

CONSTANTS
    Submits,       \* calls of submit
    Queries,       \* calls of status
    TaskTypes,     \* the task types a caller names
    Workers,       \* size of the default thread pool of the event loop
    Configured,    \* queue and definition of AWS Batch are configured
    OutputPrefix,  \* AWS_GEO_COMPUTE_OUTPUT_S3 is set
    MaxRestarts    \* bound: how often the server process is restarted

ASSUME JobsAssumption ==
    /\ Submits \cap Queries = {}
    /\ IsFiniteSet(Submits) /\ IsFiniteSet(Queries)
    /\ Workers \in Nat \ {0}
    /\ Configured \in BOOLEAN
    /\ OutputPrefix \in BOOLEAN
    /\ MaxRestarts \in Nat

Calls == Submits \cup Queries

VARIABLES
    wired,      \* a backend was injected when the process started
    records,    \* JobManager._records: per job id its ComputeJobRecord or NoRecord
    call,       \* per call: where its coroutine is
    about,      \* per query: the job id it asks for
    thread,     \* per call: where its boto3 call is
    reply,      \* per call: what the boto3 call came back with
    result,     \* per call: what the tool returned or raised
    batch,      \* AWS Batch: status of the job each submission launched
    forgotten,  \* AWS Batch: ended jobs it no longer describes
    restarts,   \* restarts so far
    overtaken   \* history: queries whose job's record another query wrote meanwhile

vars == <<wired, records, call, about, thread, reply, result, batch, forgotten,
          restarts, overtaken>>

JobStatus == {"queued", "running", "succeeded", "failed"}
Terminal == {"succeeded", "failed"}
Nothing == "nothing"

\* TASK_TARGET_MAP and the two targets the Batch backend runs.
TaskTarget ==
    [t \in {"bulk-cog-conversion", "windowed-raster-op", "distributed-spatial-join",
            "large-zonal-statistics", "foundation-model-embed", "model-inference"} |->
        CASE t = "bulk-cog-conversion" -> "aws-batch"
          [] t = "windowed-raster-op" -> "fargate"
          [] t \in {"distributed-spatial-join", "large-zonal-statistics"} -> "emr-sedona"
          [] OTHER -> "sagemaker-ai"]
SupportedTargets == {"aws-batch", "fargate"}

\* ComputeJobRecord without the fields that never change.
Record == [status : JobStatus, output : {"s3 uri", Nothing}, detail : {"reason", Nothing}]
NoRecord == [status |-> "unknown", output |-> Nothing, detail |-> Nothing]

\* Errors a tool raises, by Error_Taxonomy category; "job-failed" is the
\* UpstreamError that carries a failed job's failure detail.
Errors == {"validation", "authentication", "upstream", "network", "not-found", "job-failed"}
Receipt == "job id"
Views == {"queued", "running", "succeeded", "succeeded without output"}

\* What describe_jobs can show: the job's state, no state, or no such job.
Snapshots == JobStatus \cup {"blank", "gone"}
Failed == {"rejected", "access denied"}

\* Mistakes; each makes one of the properties below fail.
DescribesMissing(r) == r \notin Failed
ToStateBlankAsEnded(s) ==
    [status |-> IF s = "blank" THEN "succeeded" ELSE s,
     output |-> IF s \in {"succeeded", "blank"} /\ OutputPrefix THEN "s3 uri" ELSE Nothing,
     detail |-> IF s = "failed" THEN "reason" ELSE Nothing]
ClassifyAllAsDenied(f) == "authentication"

\* poll got a description of the job, not an error and not an empty list.
Describes(r) == r \notin Failed \cup {"gone"}

\* _to_state: the JobState of a snapshot; an unknown status counts as running.
ToState(s) ==
    [status |-> IF s = "blank" THEN "running" ELSE s,
     output |-> IF s = "succeeded" /\ OutputPrefix THEN "s3 uri" ELSE Nothing,
     detail |-> IF s = "failed" THEN "reason" ELSE Nothing]

\* _classify: rejected credentials are AUTHENTICATION, the rest UPSTREAM.
Classify(f) == IF f = "access denied" THEN "authentication" ELSE "upstream"

-----------------------------------------------------------------------------

Init ==
    /\ wired \in BOOLEAN
    /\ records = [j \in Submits |-> NoRecord]
    /\ call = [c \in Calls |-> "idle"]
    /\ about \in [Queries -> Submits]
    /\ thread = [c \in Calls |-> "none"]
    /\ reply = [c \in Calls |-> Nothing]
    /\ result = [c \in Calls |-> Nothing]
    /\ batch = [j \in Submits |-> Nothing]
    /\ forgotten = {}
    /\ restarts = 0
    /\ overtaken = {}

Return(c, what) ==
    /\ call' = [call EXCEPT ![c] = "done"]
    /\ result' = [result EXCEPT ![c] = what]

\* The await chain begins: wait_for, the backend coroutine and to_thread.
Await(c) ==
    /\ call' = [call EXCEPT ![c] = "waiting"]
    /\ thread' = [thread EXCEPT ![c] = "pending"]

\* The checks submit passes before anything is handed to a thread, in their
\* order: _require_jobs, select_target, the supported targets, _require_config.
Refusal(t) ==
    CASE ~wired -> "authentication"
      [] wired /\ t \notin DOMAIN TaskTarget -> "validation"
      [] wired /\ t \in DOMAIN TaskTarget ->
            IF TaskTarget[t] \notin SupportedTargets \/ ~Configured THEN "upstream" ELSE Nothing

Submit(c) ==
    /\ call[c] = "idle"
    /\ \E t \in TaskTypes :
          \/ /\ Refusal(t) # Nothing
             /\ Return(c, Refusal(t))
             /\ UNCHANGED thread
          \/ /\ Refusal(t) = Nothing
             /\ Await(c)
             /\ UNCHANGED result
    /\ UNCHANGED <<wired, records, about, reply, batch, forgotten, restarts, overtaken>>

\* status looks the record up before it awaits; an id that was never handed
\* out, or one handed out before a restart, is not found.
Status(q) ==
    /\ call[q] = "idle"
    /\ \/ /\ ~wired
          /\ Return(q, "authentication")
          /\ UNCHANGED thread
       \/ /\ wired /\ records[about[q]] = NoRecord
          /\ Return(q, "not-found")
          /\ UNCHANGED thread
       \/ /\ wired /\ records[about[q]] # NoRecord
          /\ Await(q)
          /\ UNCHANGED result
    /\ UNCHANGED <<wired, records, about, reply, batch, forgotten, restarts, overtaken>>

-----------------------------------------------------------------------------
(* The worker threads and AWS Batch (external).                             *)

\* A free worker takes the call up.
StartThread(c) ==
    /\ thread[c] = "pending"
    /\ Cardinality({d \in Calls : thread[d] = "running"}) < Workers
    /\ thread' = [thread EXCEPT ![c] = "running"]
    /\ UNCHANGED <<wired, records, call, about, reply, result, batch, forgotten,
                   restarts, overtaken>>

Answer(c, r) ==
    /\ thread' = [thread EXCEPT ![c] = "ended"]
    /\ reply' = [reply EXCEPT ![c] = r]

\* submit_job takes effect; its response may still get lost.
Launch(c) ==
    /\ thread[c] = "running" /\ batch[c] = Nothing
    /\ batch' = [batch EXCEPT ![c] = "queued"]
    /\ UNCHANGED <<wired, records, call, about, thread, reply, result, forgotten,
                   restarts, overtaken>>

\* submit_job returns: with a jobId, with none, or with a botocore error.
SubmitReturns(c) ==
    /\ thread[c] = "running"
    /\ \/ batch[c] # Nothing /\ \E r \in {"accepted", "no jobId", "rejected"} : Answer(c, r)
       \/ batch[c] = Nothing /\ \E r \in Failed : Answer(c, r)
    /\ UNCHANGED <<wired, records, call, about, result, batch, forgotten, restarts, overtaken>>

\* describe_jobs reads the job's state.
Describe(q) ==
    /\ thread[q] = "running"
    /\ \E r \in {"blank"} \cup Failed
              \cup {IF about[q] \in forgotten THEN "gone" ELSE batch[about[q]]} :
          Answer(q, r)
    /\ UNCHANGED <<wired, records, call, about, result, batch, forgotten, restarts, overtaken>>

\* A Batch job moves on.
Advance(j) ==
    /\ \/ batch[j] = "queued" /\ \E s \in {"running", "failed"} : batch' = [batch EXCEPT ![j] = s]
       \/ batch[j] = "running" /\ \E s \in Terminal : batch' = [batch EXCEPT ![j] = s]
    /\ UNCHANGED <<wired, records, call, about, thread, reply, result, forgotten,
                   restarts, overtaken>>

\* AWS Batch describes a job for a while after it ended, then no longer.
Forget(j) ==
    /\ batch[j] \in Terminal
    /\ forgotten' = forgotten \cup {j}
    /\ UNCHANGED <<wired, records, call, about, thread, reply, result, batch,
                   restarts, overtaken>>

-----------------------------------------------------------------------------
(* The coroutines resume.                                                   *)

\* A mistake: the answer is awaited elsewhere too, so a launch that outlives the
\* deadline still registers the job.
SubmitResumesLate(c) ==
    /\ call[c] \in {"waiting", "done"} /\ thread[c] = "ended"
    /\ records[c] = NoRecord /\ reply[c] = "accepted"
    /\ records' = [records EXCEPT ![c] = ToState("queued")]
    /\ IF call[c] = "waiting" THEN Return(c, Receipt) ELSE UNCHANGED <<call, result>>
    /\ UNCHANGED <<wired, about, thread, reply, batch, forgotten, restarts, overtaken>>

\* submit stores the record only now, under the id it minted before it awaited.
SubmitResumes(c) ==
    /\ call[c] = "waiting" /\ thread[c] = "ended"
    /\ \/ /\ reply[c] = "accepted"
          /\ records' = [records EXCEPT ![c] = ToState("queued")]
          /\ Return(c, Receipt)
       \/ /\ reply[c] # "accepted"
          /\ Return(c, Classify(reply[c]))
          /\ UNCHANGED records
    /\ UNCHANGED <<wired, about, thread, reply, batch, forgotten, restarts, overtaken>>

\* status overwrites the record with whatever snapshot it awaited.
StatusResumes(q) ==
    /\ call[q] = "waiting" /\ thread[q] = "ended"
    /\ \/ /\ ~Describes(reply[q])
          /\ Return(q, IF reply[q] = "gone" THEN "not-found" ELSE Classify(reply[q]))
          /\ UNCHANGED <<records, overtaken>>
       \/ /\ Describes(reply[q])
          /\ LET state == ToState(reply[q]) IN
                /\ records' = [records EXCEPT ![about[q]] = state]
                /\ Return(q, IF state.status = "failed" THEN "job-failed"
                             ELSE IF state.status = "succeeded" /\ state.output = Nothing
                                  THEN "succeeded without output"
                             ELSE state.status)
          /\ overtaken' = overtaken \cup
                {p \in Queries : p # q /\ about[p] = about[q] /\ call[p] = "waiting"}
    /\ UNCHANGED <<wired, about, thread, reply, batch, forgotten, restarts>>

\* A mistake: the deadline only covers a call a worker has taken up.
TimeoutOfRunning(c) ==
    /\ call[c] = "waiting" /\ thread[c] \in {"running", "ended"}
    /\ Return(c, "network")
    /\ UNCHANGED <<wired, records, about, thread, reply, batch, forgotten, restarts, overtaken>>

\* The deadline (10 s for submit, 5 s for status) cancels the coroutine.
Timeout(c) ==
    /\ call[c] = "waiting"
    /\ Return(c, "network")
    /\ thread' = IF thread[c] = "pending" THEN [thread EXCEPT ![c] = "withdrawn"] ELSE thread
    /\ UNCHANGED <<wired, records, about, reply, batch, forgotten, restarts, overtaken>>

\* The server process dies and is started again: the registry and every call
\* in progress are gone; what AWS Batch runs is not.
Restart ==
    /\ restarts < MaxRestarts
    /\ restarts' = restarts + 1
    /\ records' = [j \in Submits |-> NoRecord]
    /\ call' = [c \in Calls |-> IF call[c] = "waiting" THEN "lost" ELSE call[c]]
    /\ thread' = [c \in Calls |->
                    IF thread[c] \in {"pending", "running"} THEN "withdrawn" ELSE thread[c]]
    /\ UNCHANGED <<wired, about, reply, result, batch, forgotten, overtaken>>

Done ==
    /\ \A c \in Calls : call[c] \in {"done", "lost"} /\ thread[c] \notin {"pending", "running"}
    /\ UNCHANGED vars

Next ==
    \/ \E c \in Submits : Submit(c) \/ Launch(c) \/ SubmitReturns(c) \/ SubmitResumes(c)
    \/ \E q \in Queries : Status(q) \/ Describe(q) \/ StatusResumes(q)
    \/ \E c \in Calls : StartThread(c) \/ Timeout(c)
    \/ \E j \in Submits : Advance(j) \/ Forget(j)
    \/ Restart
    \/ Done

\* The event loop runs what is due: a deadline that has passed fires.  Nothing
\* is assumed of AWS, of the threads or of the order in which answers arrive.
Spec == Init /\ [][Next]_vars /\ \A c \in Calls : WF_vars(Timeout(c))

-----------------------------------------------------------------------------

\* Types of the registry, the calls, the threads and the provider's jobs.
TypeOK ==
    /\ wired \in BOOLEAN
    /\ records \in [Submits -> Record \cup {NoRecord}]
    /\ call \in [Calls -> {"idle", "waiting", "done", "lost"}]
    /\ about \in [Queries -> Submits]
    /\ thread \in [Calls -> {"none", "pending", "running", "ended", "withdrawn"}]
    /\ reply \in [Calls -> Snapshots \cup Failed \cup {Nothing, "accepted", "no jobId"}]
    /\ result \in [Calls -> Errors \cup Views \cup {Receipt, Nothing}]
    /\ batch \in [Submits -> JobStatus \cup {Nothing}]
    /\ forgotten \subseteq Submits
    /\ restarts \in 0..MaxRestarts
    /\ overtaken \subseteq Queries

\* A submission that failed leaves no record behind, not even when the boto3
\* call its deadline abandoned launches the job later: a job id is registered
\* exactly when its receipt was returned, until a restart.
RegisteredIffReceipted ==
    \A j \in Submits :
        /\ records[j] # NoRecord => result[j] = Receipt
        /\ restarts = 0 /\ result[j] = Receipt => records[j] # NoRecord

\* Every job AWS Batch was made to run is accounted for: the caller holds its
\* id, was told the submission failed, is still waiting, or died with the
\* process.  A submission turned away by a check never reaches AWS.
LaunchesAccountedFor ==
    \A j \in Submits : batch[j] # Nothing =>
        \/ result[j] = Receipt
        \/ call[j] \in {"waiting", "lost"}
        \/ result[j] \in {"network", "upstream"} /\ thread[j] # "withdrawn"
        \/ restarts > 0

\* The registry is never ahead of AWS where it matters: no job is registered
\* that AWS was not made to run, and a record says succeeded or failed only of a
\* job that ended that way, whatever order the snapshots arrive in.
RegistryNotAhead ==
    \A j \in Submits : records[j] # NoRecord =>
        /\ batch[j] # Nothing
        /\ records[j].status \in Terminal => records[j].status = batch[j]

\* A record that says succeeded or failed is only ever taken back by a query
\* that was overtaken: another query of the job wrote while it was waiting.
\* Queries of a job that do not overlap never take a final status back, unless
\* AWS answers one of them with no status at all.
FinalUnlessOvertaken ==
    [][\A j \in Submits :
          records[j] # NoRecord /\ records[j].status \in Terminal
          /\ records'[j] # records[j] =>
             \/ restarts' # restarts
             \/ \E q \in Queries :
                   /\ about[q] = j /\ call[q] = "waiting" /\ call'[q] = "done"
                   /\ q \in overtaken \/ reply[q] = "blank"]_vars

\* The registry and AWS Batch, seen without the calls between them, are a
\* JobLedger: what the tools do amounts to its steps and nothing else.
Ledger == INSTANCE JobLedger WITH
    Jobs <- Submits,
    truth <- batch,
    told <- [j \in Submits |-> records[j].status]

ImplementsLedger == Ledger!Spec

\* Every call ends, however long AWS keeps it waiting and even when every
\* worker thread is stuck.
CallsEnd == \A c \in Calls : call[c] = "waiting" ~> call[c] \in {"done", "lost"}

=============================================================================
