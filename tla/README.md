# A verification project for the geospatial Power pack

TLA+ models, model-checking runs and machine-checked proofs for the programs
under `src/packages`: a Power Hub (`kiro-geospatial`) that installs and
orchestrates some twenty Python MCP servers for geospatial work, the library
they share (`geo-common`), and a peer that runs heavy jobs on AWS
(`aws-geo-compute`).  Nothing here runs the code; every definition is a
translation of the source lines that `PROJECT.json` names under `map`.

Paths below are relative to `src/packages`.

## 1. The system

```
   user / MCP client
        |
   Power Hub  kiro-geospatial
     OnboardingDashboard ---> CredentialManager ---> validators (sources)
        |                          ^  guard
        |                          |
     InstallationManager        OrchestrationRouter ---> BoundServerInvoker
        |                          |                          |
     uv tool (subprocess)       ResourceCatalog        MCP servers (geo-stac, ...)
                                                              |
     SteeringEngine                               geo-common: BaseGeoServer, runtime,
                                                  HttpClient + RetryPolicy, COG reader
                                                              |
                                                        upstream services
   aws-geo-compute (peer): engine selection, DelegationGate,
     JobManager ---> AwsBatchJobBackend ---> worker threads ---> AWS Batch
```

Everything in one process runs on one asyncio event loop.  A coroutine is
interrupted only where it awaits, so the interesting interleavings are between
awaits: several requests, the sources a request asks concurrently, deadlines
(`asyncio.wait_for`) that cancel a coroutine, and worker threads
(`asyncio.to_thread`) that no deadline can stop.

| component | state it keeps | operations | interacts with |
| --- | --- | --- | --- |
| HTTP client (`geo_common/http.py`, `retry.py`) | none between calls; per call the attempt, the last failure | `request` | upstream services; every server |
| Compute jobs (`aws_geo_compute/jobs.py`, `backends.py`) | in-memory registry of job records | `submit`, `status` | AWS Batch through threads |
| Engine selection, delegation (`engine_selection.py`, `delegation.py`) | none | `plan_execution`, `execute_or_delegate` | an acceptor, within 60 s |
| Credential Manager (`credentials.py`) | per source presence and status | `load`, `status_report`, `report`, `validate`, `guard_invocation` | the `mcp.json` surface, validators |
| Orchestration Router (`orchestration.py`) | none between requests; per request the outcomes and the provenance | `plan`, `execute` | catalog, the bound servers |
| Hub wiring (`wiring.py`) | the assembled components | `start`, `run` | all of the Hub |
| Installation Manager (`installation.py`) | none; uv keeps what is installed | `install_server`, `install_set`, `remove_server`, lists | `uv tool` commands |
| Resource Catalog (`catalog.py`) | entries, appended at start | `register`, `search` | router |
| Dashboard (`dashboard.py`) | none | `render`, `render_live` | credentials, installation |
| Steering Engine (`steering.py`) | active workflows and the files that triggered them | loading, `open_or_edit`, `rename`, `close` | the editor, a presenter |
| Server base, runtime (`geo_common/server.py`, `runtime.py`) | the tools of a server | dispatch, error mapping, startup guard | MCP client |
| COG reader (`geo_common/cog.py`, `raster_read.py`) | the header of one open image | `open`, `read_window_pixels`, `resolve_window` | byte ranges over HTTP |
| STAC search (`geo_stac/search.py`) | none between calls; per call the answers, the merge, the page | `stac_search_multi`, `list_collections` | several catalogs at once; pages linked by the catalog |
| Commercial imagery (`geo_commercial_imagery`) | none; the provider keeps drafts and orders | `search_commercial`, `order_scene` | Sentinel Hub (token, order, confirmation), Planet |
| Embedding search (`geo_embedding_search`) | the stored embeddings and the dimension the server believes in | `store_embedding`, `search_embeddings` | memory, LanceDB, OpenSearch |
| Rasters, terrain, models, points, 3D (`geo_raster`, `geo_terrain`, `geo_foundation_models`, `geo_pointcloud`, `geo_3d`) | none | windows, zonal statistics, band math; elevation, slope; embeddings, change maps, masks; point clouds; tilesets and meshes | images, elevation services, endpoints, files |
| Sources of features (`geo_geocode_route`, `geo_biodiversity`, `geo_weather_climate`, `geo_vector`, `geo_ogc`) | none | one tool each or a few | one or several upstream services, in order |
| SQL (`geo_query`, `geo_warehouse`) | none; a connection during a call | one query | DuckDB, Athena, BigQuery, Snowflake, Redshift, Databricks |

### What is hard, and what makes each part correct

* **HTTP client.**  Timeouts, transport errors, 5xx and 429 mix in any order,
  the server chooses sleeps.  Correct: nothing is resent after a final answer,
  exhaustion names the last failure, sleeps are the promised ones, the call is
  bounded and ends.
* **Compute jobs.**  A deadline abandons a thread that goes on to launch a job;
  responses are lost; snapshots of one job arrive out of order; the registry
  dies with the process.  Correct: a record exists exactly for jobs whose
  receipt was returned, every launched job is accounted for, the registry never
  claims an end that did not happen, a final status is only taken back by a
  query that was overtaken.
* **Credentials.**  A validation waits up to 10 s and then writes a record that
  others refreshed meanwhile, about a credential that may be gone.  Correct:
  presence and status agree, absence is told, verdicts rest on answers, the
  guard is exact.
* **Orchestration.**  Sources answer, fail and time out in any order.  Correct:
  provenance is exact, pillars are barriers, the label and the error category
  are honest, the last analyze step decides the analysis, requests end.
* **Installation.**  A command may fail before or after it took effect; the Hub
  may die between two of them.  Correct: other servers stay as they are, a
  rollback is exact up to what could not be known or undone, no server is left
  without its shared base, a report is true.
* **STAC.**  Catalogs answer in any order, some not at all; items are merged in
  turn, without duplicates, up to a limit; a catalog chooses how its pages link.
  Correct: nothing twice, nothing left out below the limit, no catalog crowds
  out another, counts and flags are true, calls end.
* **Steering.**  The relation of files and workflows is kept in two maps, and one
  event may withdraw a file, drop a workflow that cannot be presented and open
  another file.  Correct: the maps agree, an editor that follows the reports
  knows what is active, only files in the editor hold anything active.
* **Commercial imagery.**  An order is a POST that is sent again when its answer
  is lost, and each may have taken effect; a draft is confirmed by a second
  request.  Correct: quota is spent only on `confirm=true`, a confirmation is
  true, no order exists that the caller did not try to place, a search gives the
  first scenes of the pages.
* **Server calls.**  One source answers for another that failed; an answer is put
  together from replies of which one may fail, be short or say nothing; a window
  spans tiles of an image in several planes, compressed and differenced; a cell's
  centre lies on the edge of two zones; a write fails in its middle and is taken
  back; points and cells are cut into parts.  Correct: a failure is never told as
  an absence, an answer is whole or an error, every pixel, point, cell, tile and
  degree is taken exactly once and from its own place.

`PROJECT.json` lists every component with its status and every hazard with its
line and the properties that would catch it.

## 2. The modules

| module | models | composed with |
| --- | --- | --- |
| `HttpClient` | one `HttpClient.request` under a `RetryPolicy` | |
| `ComputeJobs` | server tools, registry, Batch backend, threads, AWS Batch | `JobLedger` (abstract) |
| `JobLedger` | what job tracking promises: a ledger that may lag but never runs ahead | |
| `CredentialManager` | records, concurrent reports and validations, guard, a surface that changes | |
| `Orchestration` | one request: plan, concurrent discovery, fallbacks, provenance | `PlanRun` (abstract) |
| `PlanRun` | what running a plan promises: steps conclude one at a time, in order | |
| `InstallationManager` | atomic installs, rollback, removal, crashes, uv | |
| `StacFederation` | one federated search: queries, merge in turn, de-duplication, outcomes | |
| `StacCollections` | one listing of a catalog's collections: paging, limit, scan cap, `truncated` | |
| `SteeringEngine` | loading, and any sequence of editor events with presentations that fail | `TriggerRelation` (abstract) |
| `TriggerRelation` | what steering promises: one relation of files and workflows | |
| `CommercialImagery` | one search or order with either provider, over requests that are repeated | |
| `ServerCalls` | any call of the servers that keep nothing between calls | the thirteen modules below |
| `ToolCall` | the shape of a call: stages, what each asks and says, the outcome | all below |
| `GeocodeRoute`, `Occurrences`, `Observations`, `FeatureServices` | the servers that ask sources of features | |
| `CogReader`, `CogFormat` | the image reader, and the writer it is the inverse of (TIFF 6.0, external) | |
| `ZonalStatistics`, `Terrain`, `FoundationModels` | the tools over images, zones, elevations and tiles | `CogReader` |
| `PointCloud`, `Tiles3D` | point files; tilesets, meshes and their inspection | |
| `SpatialSql`, `Delegation`, `EmbeddingStore` | the SQL engines; thresholds and the gate; the three stores | |
| `*Proofs` | the theorems of the module they extend; `HubProofs` of `CredentialManager` and `SteeringEngine`, `GeoStacProofs` of both STAC modules, `ToolProofs` of `CommercialImagery` and of the tools, `ServerProofs`, which extends it, of `ServerCalls` | |
| `MC*` | values for the constants that a `.cfg` cannot write | |

Each module declares its parameters as `CONSTANTS` with a named `ASSUME`, has
one action per operation or per stretch of code between two awaits, and states
its type invariant, its properties and its fairness.  Definitions under "A
mistake" are plausible bugs; each one makes a property fail when it replaces the
definition it imitates, which shows that the property has teeth
(`PROJECT.json`, `mutants`).

### HttpClient

`Attempt` is one turn of the loop for every answer an upstream can give:
`RetryLater` (sleep), `Exhaust` (the last attempt failed), `RefuseRetryAfter`
(429 over the cap) and `Answer` (401, 403, an unexpected exception of httpx, or
a response handed back).  `WakeUp` ends the sleep.  `met`, `waits` and `elapsed`
are history.  Times are whole seconds.  The timeout of a request is httpx's and
applies to each network operation of it, so the model bounds a whole attempt by
a parameter of its own, `LongestRequest`.

### ComputeJobs

A call goes through `Submit` or `Status` (checks, in order), `StartThread`,
`Launch` and `SubmitReturns` or `Describe` (AWS), and `SubmitResumes`,
`StatusResumes` or `Timeout` (the coroutine).  `Timeout` leaves a running thread
alone and withdraws a pending one.  `Restart` empties the registry.  A submit
call names the uuid4 it mints, which is taken to be unique.

### CredentialManager

`StartReport`, `StartValidate`, `FinishValidate` and `FinishReport` are the
stretches of `report()` and of the validations it gathers; `StatusReport` and
`Guard` are atomic because the code never awaits in them.  A validator is a
coroutine, which `wait_for` ends, or a plain callable (`Plain`), which
`_invoke_validator` calls on the event loop itself: from `CallPlain` to
`FinishValidate` the loop is its own (`loop`, `MayEnd`), and no other step of the
Hub is taken, the timeout's neither.  What it returns may be a coroutine, which is
then awaited like any other.  `Verdicts` is what
the branches of `validate()` make of an answer, a failure or a timeout.
`overtaken`, `raced` and `unread` are history: the exceptions the
properties name are defined by them.

### Orchestration

A plan is a set of capabilities with the order of pillars and registration,
because the code sorts it.  `BeginStep` starts all sources of a discover step
or the first candidate of another; `SourceEnds` is any answer, failure or
timeout; `ConcludeStep` records provenance and raises or goes on; `Cancel` is
the client.  `fate` is history.  A tool that computes without ever awaiting
blocks the event loop and the 30 s deadline with it; the model takes every tool
to await something, which matters for `RequestEnds` only.

### InstallationManager

`Check`, `RunInstall`, `FinishInstall`, `RollBack`, `FinishRollBack`, `Remove`
and `RunRemove` are one uv command each, with the loop's code around it.  A
command may fail before or after it took effect.  `Crash` is the death of the
Hub.  There is one manager at a time.

### StacFederation

`Search` validates; `Answer` and `Raise` end one query, with items or a
`GeoError`, or with an exception that `_one` does not catch.  `StartMerge`,
`BeginRound`, `Take`, `Skip` and `Finish` are the merge loop turn by turn: the
code runs it without awaiting, so between them nothing else happens; they are
steps of their own because the properties are about the loop.  `Cancel` is the
caller.  An item is its id and its scene key; an item whose key cannot be worked
out (`int(zone)` raises) ends the search where the loop meets it.

### StacCollections

`Call` validates and picks the catalog, `Request` is one GET, `Look` one entry
of the page, `EndPage` follows the next link, `Return` builds the result.  The
catalog is any sequence of pages, the last of which may link to itself.  A page
may fail or hold no list.

### SteeringEngine

`Load` is the constructor with the directory it reads.  `OpenOrEdit`, `Rename`
and `Close` are the three handlers; each runs to its end without awaiting, so an
event is one step.  A handler is put together from `Withdraw`, `Open` (which
contains `Drop`) and `Finish` as the code's is from `_withdraw_trigger`,
`_activate`, `_drop_workflow` and the update it returns; what it has changed so
far is passed from one to the next.  A pattern is given by the files it matches.
`inEditor` is history.

### CommercialImagery

`Call` is the tool up to its first request, `Token`, `Create`, `Confirm` and
`Search` are attempts of one request each: of every attempt the module says what
was heard and, separately, whether the provider acted on it (`Effects`), so an
order may exist without an answer.  The loop of `HttpClient.request` is repeated
here in its outline (`Again`, `Raise`), because what it repeats is the point.
`Collecting` is the loop over the features of a page.
`silent` is history.

### ServerCalls

These servers keep nothing from one call to the next and share nothing between
two calls, and within a call every await is a request whose answer nothing else
in the process can change.  So an interleaving of two calls is their sequence,
and a call is one step: a function of its arguments and of what each source it
may ask will answer.  The order within the call is kept: a tool is a sequence of
stages (`ToolCall.Staged`), each of which asks somebody or not and says "ok" or
the category it raises; the first that does not say "ok" ends it.  The outcome
has the reply, the requests sent in their order, and the value.  `EmbeddingStore`
does keep state; its calls do not overlap (no await between read and write), so
an input is a history of calls, with writes that fail before or after they took
effect, rollbacks that fail, lost records and restarts.  The histories store
several records under one id, as callers of the function `store_embedding` may
(`record_id`; the tool leaves it out and gets a new uuid4 each time).  A search is
what each store makes of it: memory ranks all records, LanceDB its table, and the
server ranks what OpenSearch shows it, which is any choice of at most
`CandidateMultiplier * k` records.  LanceDB's `float32` is a coarser step of the
numbers (`Grain`), the places of PDAL's COPC another (`CopcStep`).

Beside the tools stand the algorithms they are built from, each as an action that
is called on its own with many small inputs: reading the pixels of a window, LZW,
both predictors, windows of boxes, zonal statistics, mosaics, tiles of an area,
UTM zones (of boxes that end before 180 degrees, `CallsAssumption`; beyond is the
wrap told of below), the layout of a points file, ranges of time, the records of CDO rows,
segment masks and aspect.  Each is compared with what it should be: the identity
through `CogFormat`, a partition, a reference definition such as the plain
point-in-polygon test, or a cover.

Integers stand for coordinates: half cells in `ZonalStatistics`, pixels in
`CogReader`, degrees or parts of one in `Terrain` and `FoundationModels`, bits of
a cube's edge in `Tiles3D` and `PointCloud`.  An answer is given by what a parser
can tell apart: an HTTP error, a body that is no JSON, one of another shape, one
that holds nothing, and one that holds what was asked for.

## 3. The runs

| run | instance | shows |
| --- | --- | --- |
| `http_client` | 4 attempts, backoff 1, 3, 5 (capped), Retry-After 0, 7, 8 with cap 7 | `EndIsHonest` (`NothingAfterAFinalAnswer`, `ExhaustionNamesLastFailure`), `WaitsAreKept` (`WaitsAsPromised`, `WithinBudget`), `Terminates` |
| `compute_jobs` | 2 submissions, 2 queries, 1 worker, 1 restart, up to symmetry | `RegisteredIffReceipted`, `LaunchesAccountedFor`, `FinalUnlessOvertaken`, and `ImplementsLedger`: the refinement of `JobLedger` |
| `compute_jobs_live` | 2 submissions, 1 query, 1 worker, 1 restart | `CallsEnd` |
| `credentials` | 2 sources, one that is validated by a plain callable, which may keep the loop or return a coroutine, 2 concurrent reports, 2 changes of the surface | `PresenceAgreesWithStatus`, `ReportsTellAbsence`, `VerdictsRestOnAnAnswer`, `ReportsEnd` |
| `orchestration` | 6 capabilities, 3 sources, any request | `AnswerIsHonest` (`ProvenanceIsComplete`, `LabelIsHonest`, `AnalysisIsTheLast`), `RequestEnds`, and `ImplementsPlanRun`: the refinement of `PlanRun` |
| `installation` | 3 servers and the base, any consistent start, 2 operations, 1 crash | `OthersUntouched`, `AllOrNothing` (the shared base included), `OperationsEnd` |
| `stac_federation` | 3 catalogs, 6 items (one scene under two ids, two items with one id, a broken one), limits 0 to 6 over a cap of 5 | `NoDuplicates`, `NothingLeftOut`, `FairShares`, `SearchEnds` |
| `stac_collections` | every first page of up to 3 entries and a choice of what follows, limits 0 to 9, cap 4 | `FirstMatches`, `FlagIsHonest`, `PagingEnds` |
| `steering` | 3 files, directories of up to 3 workflows, any presentation failing | `Mirrored`, `ReportsSuffice`, and `ImplementsTriggers`: the refinement of `TriggerRelation` |
| `commercial_imagery` | 3 attempts, 1 to 3 pages over a page cap of 2, limits 1, 2, 5 over a cap of 3 | `SpentOnlyOnConfirm`, `ConfirmationIsTrue`, `OrdersAccountedFor`, `FirstScenes`, `CallEnds` |
| `server_calls` | every tool, every argument wrong in turn, every answer of every source; every small input of the algorithms | `FallbackIsHonest`, `AnswersAreWhole`, `PixelsAreTheirOwn`, `EveryCellInOneZone`, `StoredComesBack`, `EveryPartOnce`, `GroundIsCovered` |

These end with no error.  The bounds are chosen so that what the properties
speak of happens: the backoff reaches its cap and a Retry-After lies on either
side of its own; two queries overlap; more calls than workers; a credential is
removed and set again while two validations of it wait; a capability has a
fallback, one shares a source with another, one has no provider, and the
vocabulary is registered against pillar order; a request names a package twice,
an unknown one, and one that an earlier failed operation left behind; two files
hold one workflow and one file two; an order's answer is lost on every attempt
but the last, and the pages of a search go on past either cap; a page of a
source is exactly full and the wanted number falls on it; an image has a last
tile cut off on both sides, in several planes; a compressed row fills the table
of codes twice; the edge of two zones goes through centres of cells and bends in
one; a store is restarted between a deletion and its addition; a box ends on the
border of a tile, and goes from one UTM zone into the next.

The symmetry of `compute_jobs` permutes submissions and queries, which nothing
tells apart; that run checks no liveness, for which symmetry would be unsound.

In `server_calls` the limits of the code (pages, tiles, polls, records, the
width of codes, the length of a day) are constants and are made small.  The
algorithms use a limit only to compare with it or to count up to it, so what
happens at 3 happens at 1000.  Tools with many arguments are called with all
inputs that differ from an ordinary call in at most two ways.

One run ends with a violation on purpose.  It checks a property that a docstring
promises and the code does not keep:

| run | the promise | what happens |
| --- | --- | --- |
| `signed_predictor` | `cog.py:23` reads 8, 16 and 32 bit integers "signed or unsigned", and `cog.py:26` raises an error of anything else so that a failure is never silent | `cog.py:721` masks values that were already decoded with their sign: a negative sample, but for the first of its row, comes back as a positive one |

### Differences without a run

Met while modelling; the models contain the behaviour where a module is named,
no run is spent on it.

Hub and shared code:

* `credentials.py:77` says of a validator that, a coroutine or a plain callable,
  "either way it is bounded by the 10s validation timeout"; `_invoke_validator`
  (line 472) calls a plain callable on the event loop, where the timeout cannot end
  it, and while it runs nothing else of the Hub does.  `ReportsEnd` is of a loop that
  comes free again and again.
* `jobs.py:124` promises an output location with `SUCCEEDED`; without an output
  prefix `_output_uri` returns none (`backends.py:235`).
* `credentials.py:275` has absent credentials reported as missing; a late verdict
  is recorded (line 392) for a credential removed while it was awaited.
  `ReportsTellAbsence` names the exception.
* `credentials.py:316` says every present credential is validated; a report
  chooses by the presence on record (line 328), so one added since the last
  refresh is not.
* `installation.py:18` and `:525` say a failed install leaves nothing behind; a
  package whose command raised after it worked stays (line 520).  `AllOrNothing`
  names the exception.
* `installation.py:18` says an error names the module that failed; a failed
  `uv tool list` names none (line 275).
* `installation.py:506` ensures the shared base first for every server; a
  rollback may remove the base under a server it lost sight of (line 561).
  `AllOrNothing` states the exception exactly.
* `steering.py`: a rename between two files that match one workflow reports it
  deactivated although it is active at the end (and says so, as activated anew);
  a steering file without patterns keeps the engine from being built at all.
* `search.py:341` says a source that errors does not fail the search; an
  exception that is no `GeoError` does (line 385).
* `search.py:504` promises `truncated` when the catalog has more; the scan cap
  ends the paging and the flag stays off (line 592).
* `search.py:893` says a malformed record never breaks a response; a tile
  property that is no number raises in `_scene_key` (line 295).
* `search.py:786` promises a `ValidationError` for a bad range; bounds of which
  one has a time zone raise `TypeError` (line 803; `timerange.py` alike).
* `search.py:553` counts "neither" of catalog and URL as an error; the code lists
  the default catalog (line 573).

* `cog.py:19` and `:23` have Predictor 2 and floating-point samples in the scope;
  `cog.py:713` and `:721` add up the floats that the differences of words stand for:
  other numbers come back, without an error (`UndoHorizontal`).  `PixelsAreTheirOwn`
  says nothing of such rows.

Servers:

* `geocoding.py:365` and `:450`, `routing.py:198` and, in the like words,
  `isochrone.py:187` raise an availability error "only when **every** chosen source
  is unavailable"; `geocoding.py:389` and `routing.py:222` raise it when one was
  unavailable and the others found nothing, as the comment at `geocoding.py:390`
  says.  `ChainIsHonest`, and with it `FallbackIsHonest`, takes the side of the
  comment: what a source that is down would have said is not known to be nothing.
* `occurrences.py` asks each source for one page: a request above the source's
  page limit is answered with that page.
* `observations.py:546` drops the time of day and its offset: bounds that are not
  in UTC ask for the wrong days.  `:419` asks CDO for 1000 rows and for no more
  (`CdoLimit`): the rest of a long range is left out and nothing says so.
* `elevation.py:145` puts the replies of batches one after another without
  counting: a short one moves every elevation behind it.  Its `%g` keeps six
  digits of a coordinate.
* `clay_embeddings.py:151`: a box that ends at 180 degrees wraps to zone 1 and
  loses the zones between; `:491` takes a partition that cannot be listed for an
  empty one.
* `pointcloud.py:603` promises `NotFoundError` "when the source does not exist";
  with PDAL as the only reader line 443 makes an `UpstreamError` of it.  `:598`
  promises "only the points inside that GeoWindow"; line 820 drops a single bound of
  height, and what PDAL gives is not filtered.  The second is the
  exception that `PointsComeBack` names.
* `pointcloud.py`: PDAL writes without the coordinate system, places on its own
  steps and 0 for missing attributes; a truncated gzip file raises an unclassified
  `EOFError`.
* `tiling.py:361`: tiles written before the cap was met are left on disk.
  `inspect.py:38`: a count of contents stops at 1000.
* `dem.py`: a cell without its upper right or lower left corner has no triangle
  even where the three others would make one.
* `dem_sources.py`: a box on a degree and without width meets no tile.
  `derivatives.py`: an extent without width divides by zero.
* `athena_engine.py:166`: a query that outlasts the polls is reported as a network
  error and not cancelled; the sleep between polls blocks the event loop; the
  first row is dropped as a header also where there is none (DDL).  Errors of
  drivers are classified by words in their messages.  `duckdb_engine.py:67`: an
  error while rows are fetched is outside the `try` that classifies.
* `store.py:349`: taking back a failed write deletes what was under its id before.
  `store.py:222` says a confirmation "means the record is retrievable" and `:245`
  that a dropped write is a failure, but OpenSearch answers by the id
  (`opensearch_store.py:148`): where an older record has it, a dropped write is
  confirmed.  Only a caller that gives a `record_id` can meet this; `StoreIsSound`
  names the exception.  `opensearch_store.py:23` says an embedding of another length
  "is rejected with a ValidationError": after a restart line 109 believes the first
  vector it is given, and the index's refusal is told as an `UpstreamError`.
  LanceDB's search is taken to be exact; ties among what OpenSearch shows are taken
  in the order of the records; a delete of OpenSearch is taken to be seen at once,
  which the code does not ask for (`:150`, without `refresh`).
* `sentinelhub.py:381` accepts a confirmation answered by a redirect, which the HTTP
  client hands back unfollowed; the models have no 3xx answers.
* `geo_foundation_models`: the size of a tile and the model are looked at after
  the pixels were read; `RemoteEndpointBackend` blocks the event loop.
* `cog.py:761`: the range reader looks for status 206 only; the page of an error
  HttpClient hands back (a 404) is cut to the range and read as the image's bytes.

### Fairness

Only what the event loop and the timeouts give.  `HttpClient`: httpx ends every
attempt, sleepers wake.  `ComputeJobs`: deadlines fire; nothing is assumed of
AWS, of threads or of the order of answers.  `CredentialManager`: the loop takes its
tasks in turn, so each runs if the loop is free again and again (strong fairness of
each report, `GoOn`: a plain callable takes the loop away between), and `wait_for`
ends coroutines, which are taken to stop where they are cancelled; nothing is assumed
of a plain callable, and `ReportsEnd` is of runs in which the loop always comes free
again.  `Orchestration`: the loop runs on between
awaits and `wait_for` ends every invocation.  `InstallationManager`: every
command ends (its timeout is 300 s) and the manager runs the next one.
`StacFederation`, `StacCollections` and `CommercialImagery`: every request ends,
because the HTTP client's do (`HttpClient`, `Terminates`), and code that does not
await runs on.  `PagingEnds` leaves out a catalog whose last page is empty and
links to itself: the code requests that page for ever.  `SteeringEngine` and
`ServerCalls` assume nothing: editors need not act, and an event or a call is one
step.

## 4. The proofs

All theorems hold for every value of the constants that the named `ASSUME` of
the module allows.  Each proof module defines the strengthening it needs, checks
that it holds initially and that every action preserves it, and derives the
properties from it.

* `HttpClientProofs`.  `LoopInv` says where the loop is: the number of concluded
  attempts and sleeps equals the attempt, what is behind was retryable and not
  over the cap, waits are those the schedule names, and time is bounded by what
  was spent.  None of the properties is inductive without the first part.
  The powers of the multiplier, a recursive function of the module, are shown
  positive and growing (`PowersGrow`), from which the bound on a wait follows.
* `ComputeJobsProofs`.  The strengthening relates the phase of a call, of its
  thread, the reply and the provider: a launched job's thread is running or has
  ended, a terminal snapshot that still waits to be written is the provider's
  status, a record belongs to an accepted launch.  `Refinement` shows that every
  step is a step of `JobLedger` or leaves its variables alone.
  `FinalStays` needs that a query which nothing overtook, about a job whose status
  on record is final, holds that status again, or nothing (`RepliesAreInTime`).
* `HubProofs`, on `CredentialManager`.  `WaitsOnAPresentOne`: a validation that
  waits and was not overtaken still finds its source present on record.  Without it a
  late verdict could break the agreement of presence and status unnoticed.
  `VerdictsAreAnswers` needs besides that only a source with a validator is ever
  waited for (`OnlyCheckedAreAsked`).
* `OrchestrationProofs`.  The strengthening says that the local outcomes of a
  step are the fate of that step, that concluded steps come first in the order
  and, unless the request failed there, were answered, and that nothing later
  was touched.  `RouterRefinesPlanRun` is the refinement of `PlanRun`.
  `LastAnalysis` needs that the analysis in hand is that of the latest analyze
  step concluded so far (`LatestAnalysis`).
* `InstallationManagerProofs`.  An install goes through the first places of its
  list in order, `geo-common` first (`Places`), so the base is the first package
  recorded and the last rolled back (`BaseFirst`); what is there beside what was
  recorded was there before, unseen, or could not be removed (`Known`).  None of
  the properties is inductive without `Known`, nor `Known` without `BaseFirst`.
* `HubProofs`, on `SteeringEngine`.  The maps agree after each of `Withdraw`,
  `Drop` and `Open`, on whatever maps that agree: these lemmas are about the intermediate
  maps of an event, so the three handlers share them.  From `Mirrored` and
  `HeldByOpenFiles` follows the refinement of `TriggerRelation`.
* `GeoStacProofs`.  Of a federated search: what a cursor has passed is a
  duplicate of what was taken (`Passed`, over `SeenIsTaken`), which gives
  completeness; the number a catalog contributed plus one if its turn is still to
  come is balanced over the catalogs that have items left (`Shares`), which gives
  fairness; nothing is merged before all have answered (`Blank`).  Of a listing of
  collections: what is listed are the first matches of what is behind the cursor
  (`Behind`), where each matching entry passed is either listed or beyond the
  limit, and the flag is set exactly where one was left (`FirstMatchesListed`,
  `TruncatedIsHonest`).
* `ToolProofs`, on `CommercialImagery`.  While an order is being placed each
  attempt is `silent` and leaves one order at most (`Counted`); only calls that may
  spend reach the step that does (`Allowed`), and of a Maxar call's orders only the
  one in hand is ever spent (`InHand`, `Books`).  What a search has collected at the
  start of a page are the first scenes of the pages before it; that the loop over a
  page keeps this is an induction over the features of the page (`FirstUpTo`).
* `ToolProofs` and `ServerProofs`, on `ServerCalls`.  A call is one step, so an
  invariant of it says something of a function, and its proof is about the
  functions of the tools:
  - `FallbacksAreHonest`: a chain of sources is a loop that keeps `ChainHonest` of
    the sources it has asked; a tool of stages ends at the first that does not say
    "ok" (`StagedReturns`).
  - `GroundIsAlwaysCovered`: batches of points, grids of a mosaic and partitions are
    loops over parts that keep what was said of the parts before; the tiles and
    zones of a box are found by division, whose facts are lemmas.
  - `AnswersAreAlwaysWhole`: the loops over sources keep that what was gathered are
    the first records, or all features, of the sources asked (`Gathers`, `Fetches`);
    the dates of rows are listed once each; a tool of stages sends the requests of
    the stages it came to (`StagedEnds`), so a connection it opened it closes
    whatever happened between, and a result of Athena has all its pages, or is an
    error of the one that failed; "network" is said of a query that outlasted its
    polls and of nothing else (`PollsAreFew`).
  - `EveryPartIsOnce`: the octree is built by levels, as its nodes do not depend on
    each other; after each level every point is in one tile or in one node still to
    be split, and at the greatest depth no node is left (`LevelStep`, `LevelsMean`).
    The numbers of a mesh are the places at which vertices are first met, so they are
    one to one (`MetAre`, `NumberIsThere`).  `PointsAreOnce` and `MeshesAreSound` say
    this of any number of points and of a grid of any size; the run's clouds and
    grids are instances.  The cuts of a change map tile any window, the classes of a
    mask rise with the intensity, and sections of a file are padded to their
    boundaries for tables and counts of any size.
  - `StoredAlwaysComesBack`: sorting is by rank, the place of a record being the
    number of records before it (`OrderSo`).  A store keeps `StoreGood`, which says
    what each record is and that no id is there twice, through additions, failures
    before and after they took effect, rollbacks and restarts; what a search finds
    are the nearest of the records it ranks, whatever the lengths of their vectors, compared
    as products without a root (`FoundSo`).  What is read of a cloud is taken of
    what was kept, each place once, whether it is cut, filtered or put in Morton
    order on the way (`Taken`, `PointsAlwaysComeBack`).
  - `PixelsAreAlwaysTheirOwn`: the tile and the place in it of a pixel are quotient
    and remainder, so a window of any image is put together of the samples that
    belong there (`PixelsAlwaysRight`).  A linear function on a box is bounded by its
    values at the corners, which is why the window of a box misses no cell even if
    the image is turned (`WindowAlwaysRight`).  Predictors are undone because the
    equation of a running sum has one solution (`RowsComeBack`, `FloatUndone`).
    Writer and reader of LZW go in step: after each code the reader's table is the
    writer's but for the last entry, which it completes from the next code, also
    when that code is the very entry, and both change the width of a code at the
    same place and forget the table together (`Synced`, `WidthsAgree`,
    `LzwUndone`).
  - `CellsAreInOneZone`: a ring comes back to where it began, so an even number of
    its edges straddles a level (`StraddlesAreEven`), and with what lies to the left
    and to the right of an edge (`CrossedFromLeft`) a ring contains only what is in
    its box.  The border of a cut is crossed as often for the zone on the left as
    for the one on the right, which alone has the far side of the frame, so one
    count is odd and the other even (`CutSharesOut`, `PointsAreShared`).  The cells
    found in the window that was read and in the box of a zone are those of the
    plain definition (`FastIsPure`), and sums over two parts make that of the whole,
    in whatever order `FoldSet` takes the cells (`SumsAdd`).

`PROJECT.json` lists the theorems a reader should know.  Among them are
invariants that no run checks any more because they are proved of every
instance: the types of the eight modules, `RegistryNotAhead`, `GuardIsExact`,
`PillarsAreBarriers`, `BaseKept`, `HeldByOpenFiles` and `CountsAreExact`.

Loops over data are in the models as recursive functions over `0..n` (`so[k] == IF
k = 0 THEN ... so[k - 1] ...`) wherever something is proved of them.  The provers
cannot instantiate an induction theorem, whose parameter is an operator; the proofs
go by the least element of a set instead: of the numbers up to `n` at which a claim
fails one would be least (`LeastOf`), and it is neither 0 nor the successor of one
at which the claim holds (`UpToInduction`).  That such a function exists and satisfies its
equation is proved the same way (`RecursionUpTo`).  `FoldSet`,
whose order the library leaves open, is opened to its recursion in the same way
(`SumIsWeight`); `SelectSeq` stays opaque to the provers.

Only model-checked: the liveness properties (`Terminates`, `CallsEnd`,
`ReportsEnd`, `RequestEnds`, `OperationsEnd`, `SearchEnds`, `PagingEnds`,
`CallEnds`), because liveness under fairness is out of the prover's reach.  Every
invariant and action property of the passing runs, and each of the refinements, is a
theorem.

What the theorems of `ServerCalls` assume of their inputs is `CallsAssumption`, which
TLC evaluates on the inputs of the run: sizes are positive, a window lies in its
image, a geotransform can be inverted, numbers fit their width, a raster is finite.
The zones of a split (`SplitOf`) are a rectangle cut along a border of any number of
vertices anywhere in it, or a rectangle with a hole of any shape inside it and what
fills the hole; two neighbours of arbitrary outline are not covered.

The proofs changed the models where these said less or more than they should.
`WindowIsRight` said nothing of the rows of a window, and of its columns what is false
where they run to the left; no instance had such a geotransform, and one has now.
`CogAssumption` asks that the first entry of the LZW table does not fill the codes
of the first width, where reader and writer would change it apart; TIFF has 9 bits
for 256 symbols and two marks.  The edges of a ring are counted by their
places, as `_ring_contains` does; they had been a set, in which an edge that a ring
passes twice counts once.  And the octree, the rank of a sort and the loops over
cells are recursive functions in place of operators.

## 5. What is not modelled, and the plan

* Hub wiring assembles the components once; `MvpHub.run` is `plan` and `execute`
  of the router.  The resource catalog is a list filled at start and a filter
  over its text; the dashboard renders what the credential and installation
  managers say.  None keeps state that a property could be about.
* The startup guard, the registry of tools and the MCP transport of the server
  base run once, before any call, or belong to the MCP library.
* `geo-ops`, `geo-formats` and `geo-index` are pure functions around shapely,
  pyproj, GDAL, pyarrow, H3 and S2: nothing of them is left when the libraries
  are taken for granted.
* Kernels over pixels and vertices (numpy, `std` of a zone, trigonometry of
  slopes, models), the file formats of PDAL, laspy and zlib, expressions of band
  math, the parsers of Overpass and Overture, and texts of messages, logs and
  redaction.
* Skills, steering documents, the workshop, examples and scripts.

What would come next: two installation managers over one uv, which the code does
not guard against; the startup guard with servers that refuse to start;
zones whose outlines are no rectangle together; and `RangeIsCovered` and `GridIsAligned` without their exceptions, should the code
come to keep the offset of a bound and to count the replies of a batch.
