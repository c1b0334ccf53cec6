# A verification of rag-observability in TLA+

rag-observability answers questions over uploaded documents. A document is
spread over three stores that share no transaction -- PostgreSQL rows, an
object in S3 (or on disk) and vectors in Qdrant -- and the program keeps them in
step by the order of its calls. In front of the model calls there is a gate of
rates, budgets and slots, and in front of that a cache of signing keys. Behind
it a query runs through retrieval, fusion, assembly, a model, defect checks and
a judge, leaves rows behind, and a periodic indexer makes those rows searchable
in turn. This directory models these parts, checks them with TLC and proves the
main properties with TLAPS. Paths are relative to the repository.

Sections: [inventory](#inventory), [modules](#modules), [runs](#runs),
[bounds](#bounds), [fairness](#fairness), [proofs](#proofs),
[disagreements](#disagreements-with-the-documentation),
[not modelled](#not-modelled), [plan](#plan), [how to run](#how-to-run).

## Inventory

Everything runs in one asyncio process per replica. A coroutine runs without
interruption from one `await` to the next, so the unit of interleaving is the
stretch between two awaits that leave the process: a database transaction, a
Qdrant call, an object-store call, a Redis script.

| component | state | operations | talks to | hard behaviour | what makes it correct |
|---|---|---|---|---|---|
| Document lifecycle: `documents/service.py`, `api/routers/documents.py`, `ingestion/indexer.py`, `storage/object_store.py` | rows `document`, `document_share`, `ingestion_job`, `document_chunk`; the object; points with `searchable` and `access_subjects` | upload, background ingestion, share, unshare, delete | PostgreSQL, Qdrant, object store; invalidates retrieval | ingestion races share, unshare and delete; each call may fail, or succeed and lose its answer; crash between two calls | nothing deleted is searchable; documents appear whole; rows, object, grants and points agree |
| Hybrid retrieval: `retrieval/retriever.py` | `_bm25_scoped`: one corpus per scope fingerprint | dense search, page-wise corpus build, sparse search, fusion, invalidation | Qdrant; called by queries and by the lifecycle | a build spans many awaits, an invalidation may fall in between; cached rights | an answer holds nothing that its user was not given |
| Document access: `storage/document_store.py`, `auth/principal.py`, row-level security in `storage/migrations` | none of its own | scope, fingerprint, access predicate, retrieval filter | rows, payloads | the same right written four times, in SQL, in RLS, in the scope of a query and in a Qdrant filter | the four agree |
| Resource controls: `api/resource_controls.py` | rate counters, daily units, semaphores or Redis counters | rate, reserve, acquire, release | Redis | concurrent requests, failing Redis, leaked slots, expiring keys | the limits hold, slots are not lost |
| Authentication: `auth/jwks.py`, `auth/dependencies.py` | cached keys, expiry, lock | look a key up, refresh | identity provider | rotation, outage, late answers, concurrent refreshes | withdrawn keys expire, published keys are found |
| Query pipeline: `pipeline/rag_pipeline.py`, `api/routers/query.py` | none beyond a request | admission, retrieval, rerank, assembly, generation, defects, persistence, evaluation | all of the above | one step of several fails | an answer is traced once, or the failure is reported |
| Pipeline runner: `pipeline/pipeline_runner.py` | collaborators, meta-indexer task | startup, shutdown, indexer loop, persist, schedule evaluation | all | fire-and-forget tasks, swallowed failures | no exception ends the loop |
| Trace history and meta-RAG: `storage/*_store.py`, `meta_rag/*` | `trace`, `defect_event`, `eval_score` rows, meta collection | create, reindex a rolling window, answer | PostgreSQL, Qdrant | late evaluations, missed ticks, stale corpora | what happened can be asked about |
| Evaluation: `evaluation/*` | none | judge, metrics, quality gate | judge model | partial metrics | the gate follows the thresholds |
| Defect detection: `observability/defect_detector.py` | none | five checks | | boundaries | each check fires on its condition |
| Context assembly: `retrieval/context_assembler.py` | none | pack chunks into a token budget | | off-by-one at the budget | the budget holds; the order is kept |
| Ingestion parsing and chunking: `ingestion/loader.py`, `ingestion/chunker.py` | none | parse, split | | overlap and size at boundaries | bounded chunks that cover the text |
| Model and embedding clients, read APIs, API shell, observability plumbing, configuration, dashboard and CLI | settings, HTTP clients | calls out, formatting | | retries | |

The hazards found in each, with their lines, are in `PROJECT.json`.

## Modules

### DocumentLifecycle

One document, its three stores and its processes. Every operation is keyed on
one document id, so one document is enough.

| in the model | in the code |
|---|---|
| `lifecycle`, `visibility`, `shares`, `job`, `chunkRows` | columns and rows of `storage/models.py` |
| `object` | the storage key of `storage/object_store.py` |
| `vectors`, `searchable`, `subjects` | the points of the document, one element per upsert batch, and their payload |
| `UploadPut`, `UploadRecord`, `UploadCompensate` | `upload_document` from the object-store put to the background task |
| `WorkerClaim` ... `WorkerPublish`; `WorkerCleanup`, `WorkerRecordFailure` | `process_ingestion`, one action per transaction or call; its `except` block |
| `Begin*`, `Share*`, `Unshare*`, `Delete*` | the owner's requests: `_owned`, then one action per transaction or call |
| `CrashUpload`, `CrashWorker`, `CrashRequest` | the process stops; nothing restarts the task |
| `env` | what may go wrong in a behaviour |

A call to a service has three outcomes (`Outcomes`): it returns, it raises
without effect, or it takes effect and raises. `env`, chosen at the start of a
behaviour and kept, says which services may do which, whether processes may
crash, and whether owner requests come one at a time. A property that some
fault excuses names that fault in its own text. The run has an environment
with everything at once and, for each such property, one with every fault but
the excusing ones.

### ScopedRetrieval

Several documents, one point each, with the queries that search them. Operations
are those of DocumentLifecycle seen from Qdrant: a call takes effect in one step
and the coroutine that made it resumes in a later one, which is where the
invalidation happens. Operations of one document are in sequence here, because
DocumentLifecycle treats the races within a document. `corpora` is
`_bm25_scoped`; `ReadScope`, `DenseSearch`, `SparseHit`/`SparseMiss`,
`ScrollPage`, `StoreCorpus` are the stretches of `_run_query` and `retrieve`.
`active` are the documents whose row is active, which the tombstone of a deletion ends
long before the deletion does; `MayRead` is what `access_predicate` lets a user read.
Ghosts remember what the properties compare: `granted`, whom a document was ever
shared with; `lingering`, the documents tombstoned since an operation last ended and
dropped the corpora; and of each query `entitled`, what its user could read at some time
since it read its scope, and `leftover`, which of the user's documents lingered then.
`setting.overlap` says whether a corpus may be built while an operation is
in flight: it separates what the design guarantees from the race that it loses.

### AdmissionControl

`enforce_endpoint_rate`, `reserve_llm_cost` and `request_capacity`, in the order
in which `/query` uses them, for the in-memory and the Redis backend. A Redis
script is atomic, and so is a stretch under `_lock`. With faults, a Redis call
raises before or after it takes effect and a process may stop while it holds
slots; keys expire when nobody touches them for 300 s, which without `slow`
happens only when none of their holders is running.

### SigningKeys

`get_key` and `_refresh`: the lock, the forced and the ordinary refresh, the
second one, outages, cancellation. The answer carries the keys published when
it was served and may arrive up to `MaxDelay` later. Time counts in units of the
model's `Tick`.

### DocumentAccess

Who may read a document is written in four places: the SQL of the endpoints
(`AccessPredicate`), the row-level policies (`RowPolicy`, `VisibleShares`), the
scope that a query takes from the share rows (`AuthorizationScope`) and the filter
on the payload (`AuthorizationFilter`). The module has no state: it puts the four
over the rows and points of DocumentLifecycle, so that they are compared in every
state that uploads, shares, unshares and deletions reach. A token's roles come
down to `admin`, whether they include `document:content:admin`.

### QueryPipeline and the pure modules under it

The runner (`Startup`, `Shutdown`, `Crash`), the requests in flight and their
evaluation tasks. A request's actions are the stretches of `_run_query` and
`RAGPipeline.run` between two awaits:

| action | code |
|---|---|
| `Submit`, `ReadScope` | the pipeline dependency, which refuses without keys; the scope read |
| `OpenAIEmbed`, `MockEmbed`, `AnthropicGenerate`, `OpenAIGenerate`, `MockGenerate` | the clients; the ones with a provider run under `CallWithRetry`, tenacity's attempts |
| `DenseSearch`, `SparseSearch` | the retriever; the second one goes on to fusion, reranking and assembly, which touch nothing shared |
| `Persist`, `Respond` | `persist_result`, best effort; `schedule_eval` and the answer |
| `Judge`, `SaveVerdict` | `evaluate_async` and `_persist_eval` in the task |

What searches, the cross-encoder, the model and the judge return is any element of
the sets in `setting`. What the program does with it is in four modules without state:

* `HybridRanking`: reciprocal rank fusion, in integers: `Scale` is a common multiple of the
  denominators, so scores are exact. Equal scores keep the order of insertion, as in the code.
  The reranker is any order, cut at `top_k`, or the fused order where it is off.
* `ContextAssembly`: `assemble_context` as a fold over the ranked chunks.
* `DefectDetection`: the five checks and the sort by severity. Word overlap and similarity
  are compared as integer percentages.
* `QualityGate`: the thresholds and the worst of the verdicts.

`QueryService` is the abstract specification: what a client sees of a query (pending,
refused, answered, failed, dropped) and what is stored of it. QueryPipeline implements
it under the mapping at its end: `Status` hides the counters of a request, `record`
and `scored` are the stored rows.

### TraceHistory and TraceReading

`TraceHistory` has the rows (`row`), the meta collection (`collection`, `entry`) and the
processes that copy one into the other (`indexer`): the loop of each API process and the
`index_traces` command. A reindex is `EnsureReady`, `Fetch` (one transaction, whose
documents are formatted at once), one `WriteBatch` per batch, or `ReindexFails` at any of
these. Time is kept as ages, which stop at `Old`, where no window reaches any more, so no
horizon bounds the behaviours. The ghost `excused` collects the traces that a failure, a stop
or more than `Limit` newer traces kept from a reindex that their age would have allowed.

`TraceReading` extends it with one API call at a time, statement by statement: lists (items,
then total), the detail (trace, defects, evaluation), the summary, and meta queries with
their corpora. Rows are written and indexed between the statements.

### MC modules and proof modules

Each `MC` module holds the instances of the module it is named after
(`MCDocumentLifecycle` extends DocumentAccess). Proofs:
`DocumentLifecycleProofs` (types, deletion, the stored object, publication) and, on top of it,
`DocumentSharingProofs` (which also proves the two properties of DocumentAccess); `RetrievalProofs`,
`AdmissionProofs`, `SigningKeysProofs`; `AnswerPathProofs` (lemmas about the operators of HybridRanking,
ContextAssembly and DefectDetection) and, on top of it, `QueryPipelineProofs`; `TraceHistoryProofs` (of
TraceHistory and TraceReading).

In the modules, an operator under a comment that begins with `Wrong:` is a variant of the
definition that follows it, with a plausible bug; nothing uses it. Each property
has one that it rejects, listed under `mutants` in `PROJECT.json`.

## Runs

| run | what it asks | result |
|---|---|---|
| `lifecycle_safety` | ten state properties and one action property in five environments, two concurrent requests, three users, two batches | holds |
| `lifecycle_liveness` | do jobs end, do deletions end, is a deleted document's every copy gone for good | holds |
| `hidden_while_deleting` | are vectors of a deleting document hidden | violated, without any fault |
| `snapshot_access` | does Qdrant never name a user without a grant | violated, without any fault |
| `retry_deletion` | can an interrupted deletion be asked for again | violated by one failing Qdrant call |
| `retrieval_scopes` | what queries of two users find while two documents change | holds |
| `stale_corpus` | are deleted documents never retrieved | violated, without any fault |
| `admission` | limits and slots, both backends, faults, slow requests | holds |
| `signing_keys` | freshness, availability and order of keys | holds |
| `query_pipeline` | the data of each stage against the stage before, in all small cases; everything ends; the refinement of QueryService | holds |
| `trace_history` | what is indexed, with several indexers, failures and stops; what reads show meanwhile | holds |
| `meta_query` | does a meta query find nothing only if nothing is indexed | violated, without any fault |

What the passing runs show:

* `DeletedNeverSearchable`: the late publish of an ingestion task that a
  deletion overtook finds no points, because the task reads the lifecycle after
  its last upsert. It holds in every environment.
* `PublishedWhole`, `SearchableIsCompleted`, `CompletedIsSearchable`: a document
  becomes searchable all at once, only with a completed job, and does so.
* `ActiveHasObject`, `NoOrphanObject`: bytes and rows agree, but for the faults
  that the properties name. An unacknowledged commit is one: the upload's
  compensation then deletes the object of a row that exists.
* `AccessIsGranted`, `PrivateHasNoShares`: for requests in sequence. For requests at
  the same time neither holds: two full rewrites of `access_subjects` from different
  reads can leave a removed user in Qdrant, and unshare makes private a
  document that was shared meanwhile. Nothing in the repository promises more,
  so the properties say `env.serial`.
* `FoundIsReadable`: with requests in sequence, a query finds nothing in an active document that
  the endpoints and the row-level policy would not show the same user, administrator or not,
  except to users of the ingestion snapshot. It is not obvious: the scope is taken from share
  rows and ignores `visibility`. For requests at the same time it fails, as `PrivateHasNoShares`
  does: a share that an unshare overlaps leaves a row, hence a scope, to a private document.
* `ReadableIsFound`: with any overlap, after an undisturbed ingestion whoever may read a
  document finds all of its points. That the two rewrites of `access_subjects` can lose a
  reader does no harm here, because the scope lists the document itself as well.
* `JobEnds`, `DeletionEnds`, `DeletionErases`: with the database (for deletion, all
  stores) answering and no crash. `JobEnds` covers failing and lost calls of
  Qdrant and the object store and a failing parser.
* `StrangersFindNothing`: in every race, a query without the administrator's
  permission finds only published documents of its user or at some time shared
  with that user.
* `AnswersWithinRights`: with no build beside an operation, an answer stays
  within what the user could read at some time since the query read its scope, with one
  exception that the code makes: a document of the user's that was tombstoned before the
  query, while no operation has ended since (see `stale_corpus` below). So a withdrawn grant
  is in no corpus that a query can reach, and a deleted document in none once its own deletion
  or, where that failed, the next operation has ended.
* `CapacityBound`, `TakenIsHeld`, `RateRespected`, `BudgetRespected`: lost calls and
  stopped processes make the Redis counters too high and never too low; without
  faults no slot is lost; limits hold across the turn of a window.
* `ReturnedKeyFresh`, `MissingHasReason`, `NoRollback`: a withdrawn key is refused
  after TTL + MaxDelay even in an outage; a key published throughout a lookup
  is found unless the provider fails to answer; the lock orders the answers.
* `FusionRespectsRanks`, `ContextPacked`: fusion leaves a chunk out only for want of room, and never
  for a worse one; it does not reverse what both lists agree on, and a chunk of both comes before a chunk
  of one. The context is in order and, beyond its first chunk, within the budget, and the first
  chunk left out did not fit after those in front of it.
* `DefectsTellTheTruth`: stated from what the searches returned, not from what the detector was
  given: the defects of an answer hold of its whole way.
* `VerdictTellsTheTruth`: a stored verdict is no better than any scored metric. A partly
  scored evaluation can pass: the gate looks at what there is.
* `HistoryNeverFailsAQuery`: with every combination of providers, keys, optional packages
  and failing services, only what the answer needs can fail the query.
* `EverythingEnds`: requests and evaluations end, through all retries, unless the process stops.
* `KeepsItsPromises`: the refinement. Among other things, stored defects are those of the
  answer, a failed query leaves no rows, and no verdict is stored without its trace, although
  the evaluation is scheduled when the trace write has failed.
* `NothingSlipsBy`: every trace is indexed before it is too old for every window, but for those
  in `excused`. `VerdictReachesTheIndex`: an evaluation written early enough (`InGoodTime`)
  is in the index when the window has passed its trace. With several indexers an overtaken
  reindex may take it back meanwhile, so early enough leaves time for one reindex more; that
  bound is tight, and what is written later may be lost (see below).
* `EntryTellsTheRow`: also with overtaken reindexes, a point never contradicts the rows: at worst it
  says `skip` where there is a verdict.
* `ReadsAreCoherent`: rows written between the statements of one call do not make its answer
  contradict itself, over lists, details and summaries.

## Bounds

* DocumentLifecycle: three users (owner and two grantees: one to remove while another
  stays), two request slots (every pairwise race), two batches (a first, a
  last, and a state in between). The liveness run takes one grantee. The model has no
  counters that grow. `CHECK_DEADLOCK FALSE` because an uploaded, deleted and idle document
  really is the end.
* ScopedRetrieval: two documents (a page read before and one after an operation),
  the owner and one reader, one query at a time in flight; a second query in
  sequence meets the corpora the first one stored. Where steps may raise, those of the first
  document's operations do, so that one operation fails and another one succeeds after it; the
  documents are alike but for their page. Deadlock: all documents deleted.
* AdmissionControl: three requests of two users from one address, two global slots
  and one per user, two windows, `Arrivals` = 5 in all, `LastWindow` = 1: every limit
  can be reached and exceeded by one. The run ends when nobody arrives any more.
* SigningKeys: two keys, two lookups, TTL 2, MaxDelay 1, `Horizon` = 4: long enough for
  a fetch, its expiry and a second fetch, each with a late answer. The horizon
  is an end of the run.
* QueryPipeline: three chunks, two of one file; every list of at most two, with scores on and
  below the similarity threshold; a budget of 10 that two chunks and a separator fill to the token and
  that no other pair fits; answers of twenty words, of which the overlap threshold wants three;
  fusion asked for two or six (`Widening` = `Pool` = 2), so that three chunks meet its limit;
  every triple of metrics from one below and one on each threshold, or missing. `MaxAttempts` = 2 (one
  retry that helps, one that does not), `MaxStarts` = 2 (a start after a crash), two requests (one
  running while the other one's evaluation does). The settings of `MCQueryPipeline` vary one
  group of these at a time, since stages hand on data and nothing else. `Scale` = 113460 is a
  multiple of 60, 61 and 62. `CHECK_DEADLOCK FALSE`: all queries may be over.
* TraceHistory: a window of two intervals as in the settings, and a reindex that takes up to half an
  interval (`Slack`): the next reindex can come too late for a trace by one unit, and by none. Three
  traces against `Limit` 2 and `Batch` 1: a crowd, and a reindex that stops between two batches. Six
  settings: one loop with a crowd, one with failures and stops, two loops, a loop and the command, and
  calls by four kinds of callers. The last ones leave time out, since reads do not depend on it.
  The command is taken to reindex within `Slack` too. Its setting has two traces and no defects,
  which is enough for the bound on a timely verdict to be met: without `Overtaking` the run fails.
  Deadlock is checked.
* Symmetry is used for grantees, request slots, users, lookups and keys, and in runs
  without liveness properties only. The proofs have none of these bounds.

## Fairness

`FairSpec` of DocumentLifecycle asks weak fairness of every step of the upload, the
ingestion task and a request in flight: asyncio resumes a coroutine whose await is
done, and each call has a client timeout after which it raises. It does not ask that
requests begin or that calls succeed; a property that needs a service to answer
says so with `Reliable`.

`Fairness` of QueryPipeline asks the same of the steps of a request and of an evaluation.
It asks neither that the process stays up nor that it starts again: what a stop cuts off is
`dropped`.

TraceHistory has no fairness. That indexers act in time is part of its `Elapse`: time does not pass
a sleep that is over, nor a reindex that has taken `Slack`. So what must happen is a safety
property of a row's age, which is also what the code's window is about. The other modules claim
no liveness.

## Proofs

All invariants and action properties of the passing runs, and the refinement of
`query_pipeline`, are proved for every value of the constants: any sets of users, requests, documents, keys,
lookups, chunks and traces, any limits, budgets, thresholds, intervals and number of batches, any
combination of faults, any settings.
The assumptions are those of the modules: the owner is a user, the numbers are natural, `TTL` is
positive, `None` is neither a lookup nor a key, the requests of AdmissionControl are finitely
many (its counters count them). In TraceHistory there are finitely many processes and gates, "none" is no
gate, `None` no row and no point, and the window is no shorter than an interval and a reindex
(`meta_indexer_window_minutes` is 30, `meta_indexer_interval_seconds` 900); for a shorter window
`NothingSlipsBy` is false. On the way of a query `RankingAssumption` has `PerPath <= RrfK + 1` (the code has 20 and 60):
that is what makes any two terms of fusion larger than any single one. `Scale` is any multiple
of the divisors, so that terms are whole. The lists in `Settings` are ones that a search can return
(`IsRanking`: no longer than its limit, each chunk once, in any order of scores), and answers
have finitely many words.

| theorem | inductive invariant, and why it is needed |
|---|---|
| `TypeCorrect` | `TypeOK` |
| `DeletionIsFinal` | `ErasureInv`. The property breaks if a late publish finds points. So: a request past the tombstone sees a row that is not active; a task that is publishing has points left only if the row is not yet purged |
| `OnlyCompletedIsSearchable`, `AppearsWhole`, `CompletedCanBeFound` | `PublicationInv`. While the row is active nothing deletes points, so the task's counter says which batches exist; from the commit on it is all or none |
| `ActiveRowHasObject`, `ObjectHasRow` | `StorageInv`. Who holds the object at each step of the upload, and that erasing comes after the tombstone |
| `SerialAccessIsGranted`, `SerialVisibility` | `SharingInv`. One request at a time, so what a request remembers of the share rows is still so; between narrowing and revoking, Qdrant is within what will be left |
| `KeysTyped`, `FreshKeys`, `AnswersInOrder` | `KeysInv`. Cached keys were published when they were served and are kept no longer than delay and TTL; who asks holds the lock, and the cache is older than the question |
| `MissingIsJustified` | `ReasonInv`, beside `KeysInv`. A second refresh is a forced one, so the lookup asks by itself, and an answer to a lookup without an excuse holds its key |
| `FoundMayBeRead` | `SerialAccessIsGranted` for the payload and `SerialVisibility` for the scope: together they leave nobody whom the predicate would refuse |
| `ReadableCanBeFound` | `PublicationInv` and `OwnerNamed`: all points are searchable, and a reader is the owner, an administrator or in the scope |
| `RetrievalTyped`, `NothingForStrangers` | `RetrievalInv`: types, and that every row, corpus and answer is fair: it holds what its scope's user owns or was at some time given. `granted` only grows, and a fingerprint determines a scope |
| `AnswersKept` | `RightsInv`, beside `RetrievalInv`. With no build beside an operation, every corpus, stored or half scrolled, is within what its scope has a right to now, or of a document that lingers, because the corpora are gone before other rights are; and what a query's scope has a right to, its user was entitled to at some time since the scope was read, or it was left over when the query began |
| `CountersTyped`, `CapacityBounded`, `SlotsAreHeld`, `RateHolds`, `BudgetHolds` | `GateInv`: `TypeOK`, `SlotInv`, `RateInv`, `BudgetRespected`. Each counter against the cardinality of the set of requests at the stages that have raised it and not yet given it back, or may still pass; the properties speak of some of these stages only, so they are not inductive |
| `RowsLinked`, `PromisesKept` | `LinkInv`. What a request's counter says of its rows: rows only after `persist`, and then its own defects; a task only after the answer; a verdict only with a record and when the task is over. Without it `Answer` and `Attach` of QueryService would have no reason to be enabled |
| `HistoryIsBestEffort` | `BlameInv`, beside `LinkInv`. A runner is ready exactly if its keys are there, so whatever is in flight has them; a failed request keeps a failing service that its answer needed |
| `PointsTellTheRows` | `HistoryTypes` and `PointsInv`. What an indexer has formatted and not yet written is as true of the rows as a point: defects are written with their trace, and a verdict, once stored, never changes |
| `NoTraceSlipsBy` | `HopeInv`, beside these. Of a trace without a point that nothing has excused: while it is young, every loop that is up will be in time for it, and once it is older than the window some loop has begun the reindex that takes it. In time is a bound on the age that depends on where the loop is, on its clock and on what it has still to write |
| `TimelyVerdictsReachTheIndex` | `VerdictInv`, beside these. `HopeInv` holds of a timely trace for a point with its own verdict, and of what the indexers have still to write: no document older than the verdict is left, or it will be written while the trace is so young that every indexer sees it once more after that |
| `CallsReadCoherently` | `CallInv`: what each call has read so far against the rows of now. Rows are only added, and what a statement selects by a filter stays selected, so a page stays within the total that is read after it |
| `TypesOfReading` | `HistoryInv`, `CallInv`, `CorporaInv` |
| `PathSound`, `PipelineTypeOK` | `PathInv`, beside `LinkInv` and `VerdictInv`. Of each request by its stage: its fused list, hits, context and defects are what the operators make of what its searches returned. A retry, a failure or a stop claims nothing new, so one lemma covers them |
| `FusionIsFair` | `PathInv` and `FuseIs`. The `CHOOSE` in `Sorted` has a value, because the order by score and first position is total and every finite set has a list in such an order; shares fall with the rank and two are more than one, so better in `FusionRespectsRanks`'s sense is before in that order |
| `ContextIsPacked` | `PathInv` and `AssemblePacks`. `Packed` is the invariant of the assembler's loop, with `Overflows` for the first chunk left out: all in front of it are in the context and it would have gone over the budget |
| `DefectsAreTrue` | `PathInv` and `DefectsAre`. Fusion and reranking return something if anything was found, so only empty searches leave nothing; hits keep the scores of the searches; and what the context holds and what it dropped are together the hits. So each check, made of the data of its stage, says what the property says of the searches |
| `VerdictIsTruthful` | `VerdictInv`. The result that a task carries is already the gate's |

`PromisesKept` is the refinement: initial states map to initial states, and each action to the one
of QueryService that it is, or to a stutter; `Crash` maps to `Stop`, and `Shutdown`, which waits for the requests in flight, to a stutter.

TLC checked each of these invariants before it was proved.

Only model-checked: liveness (`JobEnds`, `DeletionEnds`, `DeletionErases`, `EverythingEnds`), which is out of
the prover's reach, as is `ENABLED`.

The library's induction theorems are out of the installed provers' reach, since they take an operator as a
parameter. Where a proof needs an induction over finite sets, as `CallsReadCoherently` does for the sum over
the gates, `LeastSubset` takes a least counterexample instead: among the finite subsets of
a set that have a given property there is one none of whose proper subsets has it, by the theorem that proper
inclusion of finite sets is well-founded. In `AnswerPathProofs` it gives the last element of an order, the
list that is in that order, and the function that `FoldLeft` chooses: of the two functions on subsets of the
positions that take the same steps there is no least subset on which they differ. What a fold returns then
follows position by position, from the least position at which the claim would fail.

No module uses recursive operators.

## Disagreements with the documentation

* `hidden_while_deleting`: `docs/SECURITY.md:116-117` says that deleting vectors cannot
  enter candidates. The task publishes after its confirming transaction without
  another look at the lifecycle, so a delete request that hid the vectors and wrote the
  tombstone in between is undone until its purge, or for good if the purge fails.
* `snapshot_access`: `docs/SECURITY.md:119-120` says that both sequences favor denial
  over disclosure. The task upserts the share rows of its first transaction; an unshare
  in between narrows points that do not exist yet.
* `retry_deletion`: `docs/OPERATIONS.md:206` says to retry interrupted deletions. After
  the tombstone `_owned` answers 404 and no other code resumes it.
* `stale_corpus`: the same sentence of `docs/SECURITY.md`. `delete_document` drops the corpora at its
  very end (`documents/service.py:140`), so from the tombstone on queries still get the document from
  the corpus of their scope, and if a later step fails, until another operation ends. `_build_bm25`
  (`retrieval/retriever.py:264`) prolongs this: it stores what it scrolled even if the corpora were dropped
  while it did.
* `meta_query`: `docs/OPERATIONS.md:131-137` explains a meta query without traces by an empty collection.
  `_build_payload` writes no `searchable` flag, and the filter of the shared retriever requires it, so
  no trace is ever found.

Met while modelling, without a run of their own:

* Two indexers: `docs/ARCHITECTURE.md:215-217` and `docs/OPERATIONS.md:82-84` rely on idempotent upserts. A
  reindex writes documents that it formatted earlier, so a slower one can put a `skip` over a verdict that
  another has written meanwhile. The next reindex that sees the trace repairs it; if the verdict came too
  late for that, the `skip` stays.
* `authorization_scope` takes share rows whatever the visibility of their document; only the order of
  share and unshare keeps that from mattering.
* `retrieval/context_assembler.py:3-7` says that packing stops at the first chunk that does not fit; the code goes
  on with the next one. The model follows the code, and `ContextPacked` says only what both agree on.
* `MockEmbedder` promises the same vector for the same text; it uses `hash()`, which differs from process to
  process.
* `docs/SECURITY.md:82-84` wants a database role that row-level security binds. `persist_result`,
  `_persist_eval`, the indexer and the read endpoints set no identity for it, and after the tombstone
  `document_access` would hide the row from the later transactions of `delete_document`. The models
  take the rows as the code without such a role sees them, and `RowPolicy` as a condition.

## Not modelled

* Title updates (`PATCH`), health and metrics endpoints, dashboard, `cli/ingest.py`, `cli/test_query.py`, logging, error
  formatting, prompt templates, token and cost arithmetic: no state that another part reads.
* `ensure_identity`, which only inserts a user and an organization; decoding of tokens into roles.
* Parsing and chunking: library I/O, and pure text functions on lengths of strings that unit tests reach well.
  DocumentLifecycle takes their outcome as some number of chunks or a failure.
* Two replicas in front of one collection of documents: `_bm25_scoped` is per process and an invalidation
  reaches one. ScopedRetrieval has one process; TraceHistory has several.
* Cancellation of a coroutine, except in SigningKeys and at a shutdown. A request that is cancelled
  while it waits for the user's semaphore keeps its global slot; AdmissionControl does not have that step.
* slowapi's limiter, PyJWT's decoding, the ranking inside Qdrant and BM25, ragas: libraries. What
  the models need of them is what `src/` uses them for.
* The redaction of queries and answers in what the read endpoints return (`_serialize_trace`), a condition
  on the caller and the row that nothing else depends on.
* Row-level policies on tables that the code reads without an identity.

## Plan

Order: what loses or discloses data first, then what refuses service, then the query path, its
history and pure functions. All of that is done; in it, the order was DocumentLifecycle,
ScopedRetrieval, AdmissionControl, SigningKeys, QueryPipeline with its pure modules and QueryService,
TraceHistory with TraceReading, DocumentAccess, and the proofs of each.

Left, in this order:

1. Cancellation in AdmissionControl, and what it leaves behind.
2. An abstract specification of a document (absent, hidden, searchable, gone) that
   DocumentLifecycle implements in environments without lost answers.
3. The recursive chunker's size and overlap over bounded texts.

## How to run

`tlc -workers 2 -config <run>.cfg <MC module>` and `tlapm <proof module>.tla`; the runs, their
modules and properties are listed in `PROJECT.json`.
