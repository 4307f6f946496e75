------------------------------ MODULE Delegation ----------------------------
(***************************************************************************)
(* aws-geo-compute: which engine a task runs on, whether it is handed to   *)
(* the compute peer, and the gate through which it is.  Sizes are in GB.   *)
(***************************************************************************)
EXTENDS ToolCall

SMALL_DATASET_LIMIT == 1
DISTRIBUTED_DATASET_LIMIT == 100
MAX_IN_PROCESS_DATASET == 5

MiddleTier == [single_user_analytical |-> "duckdb", multi_user_transactional |-> "postgis",
               ad_hoc_over_s3 |-> "athena"]

SelectEngine(size, pattern) ==
    IF size < SMALL_DATASET_LIMIT THEN "geopandas"
    ELSE IF size <= DISTRIBUTED_DATASET_LIMIT THEN MiddleTier[pattern] ELSE "emr-sedona"
ShouldDelegate(size, memory, limit) == memory > limit \/ size > MAX_IN_PROCESS_DATASET

\* DelegationGate.delegate: an answer after the time limit is not heard, but the
\* acceptor was asked.  What an acceptor raises is mapped.
GateSays(in) ==
    CASE in.acceptor = "late" -> "network"
      [] in.acceptor = "accepts" -> "ok"
      [] in.acceptor = "raises" -> in.raised
      [] OTHER -> "upstream"
PlanOf(in) == [engine |-> SelectEngine(in.size, in.pattern),
               delegate |-> ShouldDelegate(in.size, in.memory, in.limit)]
PlanExecution(in) == Staged(<<CheckOf(in, {"size", "pattern", "memory"})>>, PlanOf(in))
ExecuteOrDelegate(in) ==
    Staged(<<CheckOf(in, {"size", "pattern", "memory"})>>
           \o (IF PlanOf(in).delegate
               THEN <<CheckThat(in.acceptor # "none", "upstream"), Ask("peer", GateSays(in))>>
               ELSE <<>>), PlanOf(in))

-----------------------------------------------------------------------------

DelegationInputs ==
    [wrong : WrongOne({"size", "pattern", "memory"}), size : {0, 1, 5, 6, 100, 101},
     memory : {0, 4, 5}, limit : {4}, pattern : DOMAIN MiddleTier,
     acceptor : {"none", "accepts", "rejects", "raises", "late"}, raised : {"upstream", "network"}]

\* No task above a limit runs in this process, none below both is sent away, and
\* one that was sent away without an error was accepted.
LimitsAreKept(in, out) ==
    out.reply = "result" =>
      /\ out.sent = <<>> => in.memory <= in.limit /\ in.size <= MAX_IN_PROCESS_DATASET
      /\ out.sent # <<>> =>
            /\ in.acceptor = "accepts"
            /\ in.memory > in.limit \/ in.size > MAX_IN_PROCESS_DATASET

=============================================================================
