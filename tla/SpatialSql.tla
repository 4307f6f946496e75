----------------------------- MODULE SpatialSql -----------------------------
(***************************************************************************)
(* geo-query and geo-warehouse: one SQL query on one engine.  DuckDB opens *)
(* a database in memory, Snowflake, Redshift and Databricks a connection,  *)
(* BigQuery a client; Athena is given the query, asked about it until it   *)
(* has ended, and asked for the pages of its result.                       *)
(***************************************************************************)
EXTENDS ToolCall, SequencesExt

\* How often Athena is asked about a query, 600 times in the code.
CONSTANT MaxPolls
ASSUME SqlAssumption == MaxPolls \in Nat \ {0}

Warehouses == {"snowflake", "redshift", "databricks"}
SqlEngines == {"duckdb", "athena", "bigquery"} \cup Warehouses

\* What a warehouse driver's error is taken for, by the words in its message: those
\* of a bad query first, and those of credentials last.
Classified(words) ==
    IF "syntax" \in words THEN "validation"
    ELSE IF "missing" \in words THEN "not-found"
    ELSE IF "login" \in words THEN "authentication" ELSE "upstream"

-----------------------------------------------------------------------------
(* Athena.                                                                 *)

\* What a call of the API that raises is taken for: credentials come first.
ApiSays(words) ==
    IF "login" \in words THEN "authentication"
    ELSE IF "syntax" \in words THEN "validation"
    ELSE IF "missing" \in words THEN "not-found" ELSE "upstream"
\* The reason that a query failed for is not looked through for credentials.
ReasonSays(words) == Classified(words \ {"login"})

Ended == {"SUCCEEDED", "FAILED", "CANCELLED"}
\* The queries that are asked about, up to the first that has ended.
Polls(in) ==
    LET asked == Take(in.states, MaxPolls)
        end == FirstPos(asked, LAMBDA s : s \in Ended \cup {"raises"})
    IN  IF end = 0 THEN asked ELSE Take(asked, end)
\* A query that has not ended is not cancelled: it goes on, and is paid for.
PollSays(state, words) ==
    CASE state = "raises" -> ApiSays(words)
      [] state \in {"FAILED", "CANCELLED"} -> ReasonSays(words)
      [] state = "SUCCEEDED" -> "ok"
      [] OTHER -> "network"
\* The first row of the first page is the header.
CollectResults(pages) ==
    FlattenSeq([i \in DOMAIN pages |->
        IF i = 1 THEN SubSeq(pages[i], 2, Len(pages[i])) ELSE pages[i]])
\* Without a region no client is made, as without the driver.  The last page asked
\* for is the one that may not come.
AthenaStages(in) ==
    LET polls == Polls(in)
    IN  <<CheckThat(in.driver, "upstream"), CheckThat(in.staging, "authentication"),
          Ask("start", IF in.opens THEN "ok" ELSE ApiSays(in.words))>>
        \o [i \in 1..Len(polls) |-> Ask("poll", IF i < Len(polls) THEN "ok"
                                                 ELSE PollSays(polls[i], in.words))]
        \o [i \in DOMAIN in.pages |-> Ask("page", IF i < Len(in.pages) \/ in.fetches THEN "ok"
                                                 ELSE ApiSays(in.words))]

-----------------------------------------------------------------------------
(* The others: a connection is opened and, whatever the query does, closed *)
(* again.  BigQuery's client is not closed.                                *)

DuckDBStages(in) ==
    <<CheckThat(in.driver, "upstream"), Ask("open", "ok"),
      Ask("extensions", IF in.opens THEN "ok" ELSE "upstream")>>
\* The credential is looked for before the driver, and read after it.
CredentialStages(in) ==
    <<CheckThat(in.credential, "authentication"), CheckThat(in.driver, "upstream"),
      CheckThat(in.parses, "authentication")>>
WarehouseStages(in) ==
    CredentialStages(in) \o <<Ask("open", IF in.opens THEN "ok" ELSE Classified(in.words))>>
BigQueryStages(in) ==
    CredentialStages(in) \o <<Ask("open", IF in.opens THEN "ok" ELSE "authentication")>>
\* BigQuery's errors have a code, and that of the credentials is looked for first.
BigQuerySays(words) ==
    IF "login" \in words THEN "authentication"
    ELSE IF "missing" \in words THEN "not-found"
    ELSE IF "syntax" \in words THEN "validation" ELSE "upstream"
DuckDBSays(words) == IF "missing" \in words THEN "not-found" ELSE "validation"
ErrorSays(in) ==
    CASE in.engine = "duckdb" -> DuckDBSays(in.words)
      [] in.engine = "bigquery" -> BigQuerySays(in.words)
      [] OTHER -> Classified(in.words)
\* The query is run and its rows are fetched, which DuckDB does outside of the try
\* that classifies: its error is no more than one of the upstream (map_error).
QueryStages(in) ==
    <<Ask("query", IF in.runs THEN "ok" ELSE ErrorSays(in)),
      Check(IF in.fetches THEN "ok" ELSE IF in.engine = "duckdb" THEN "upstream" ELSE ErrorSays(in))>>
\* finally: close
Opened(in, so) == Contains(so.sent, IF in.engine = "duckdb" THEN "open" ELSE "query")
Closed(in, so) ==
    IF in.engine = "bigquery" \/ ~Opened(in, so) THEN so
    ELSE [so EXCEPT !.sent = Append(so.sent, "close")]

\* spatial_sql, warehouse_spatial_sql: an engine that is not set up is told apart by
\* whether it needs a credential.
SpatialSqlCall(in) ==
    LET rows == CollectResults(in.pages)
    IN  IF in.wrong # {} THEN Refused
        ELSE IF ~in.configured
        THEN Failed(IF in.engine = "duckdb" THEN "upstream" ELSE "authentication", <<>>)
        ELSE IF in.engine = "athena" THEN Staged(AthenaStages(in), rows)
        ELSE LET opening == CASE in.engine = "duckdb" -> DuckDBStages(in)
                              [] in.engine = "bigquery" -> BigQueryStages(in)
                              [] OTHER -> WarehouseStages(in)
             IN  Closed(in, Staged(opening \o QueryStages(in), FlattenSeq(in.pages)))

-----------------------------------------------------------------------------

\* The row of the column names, which Athena puts before the first of the rows.
Header == 0

SqlInputs ==
    {in \in [wrong : WrongOne({"query", "engine", "sources"}), engine : SqlEngines,
             configured : BOOLEAN, driver : BOOLEAN, staging : BOOLEAN, credential : BOOLEAN,
             parses : BOOLEAN, opens : BOOLEAN, runs : BOOLEAN, fetches : BOOLEAN,
             words : SUBSET {"syntax", "missing", "login"},
             states : {<<"RUNNING", "RUNNING", "SUCCEEDED">>, <<"SUCCEEDED">>, <<"FAILED">>,
                       <<"RUNNING", "RUNNING", "RUNNING", "SUCCEEDED">>, <<"RUNNING", "raises">>},
             pages : {<<<<Header>>>>, <<<<Header, 1>>, <<2, 3>>>>}] :
        /\ in.engine # "athena" => in.staging /\ in.states = <<"SUCCEEDED">>
        /\ in.engine = "athena" => in.credential /\ in.parses /\ in.runs}

\* Athena's rows are given when the query has succeeded and every page of them has
\* come, all but the header; a query that goes on is told of as an error of the
\* network, after every poll there is, and no other query is.
QueryIsAwaited(in, out) ==
    LET polls == Cardinality({i \in DOMAIN out.sent : out.sent[i] = "poll"})
    IN  /\ polls <= MaxPolls
        /\ out.reply = "result" =>
              /\ in.states[polls] = "SUCCEEDED" /\ in.fetches
              /\ FlattenSeq(in.pages) = <<Header>> \o out.value
        /\ out.reply = "network" =>
              polls = MaxPolls /\ \A i \in 1..polls : in.states[i] = "RUNNING"

\* A connection that was opened is closed before the answer, whatever it is; an
\* error that names the credential is one that the words of credentials were in, and
\* of a warehouse none that a missing object or a bad query explains
\* (_connection.py:84, "checked before authentication to avoid mislabeling it").
ConnectionsAreClosed(in, out) ==
    /\ (Contains(out.sent, "open") /\ out.sent # <<"open">> /\ in.engine # "bigquery" =>
          out.sent[Len(out.sent)] = "close")
    /\ (in.engine = "athena" => QueryIsAwaited(in, out))
    /\ (out.reply = "authentication" /\ out.sent # <<>> /\ in.engine # "bigquery" =>
          /\ "login" \in in.words
          /\ in.engine \in Warehouses => "syntax" \notin in.words /\ "missing" \notin in.words)

=============================================================================
