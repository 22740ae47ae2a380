# Verification of the ingest service

The repository is an on-premises RAG system at an early stage. What exists is its
*ingest side*: an HTTP service that accepts a document, parses, chunks, embeds and
indexes it in the background, answers polls about the job, and lets an administrator
list and edit documents and read the audit trail. The query side (retrieval, rerank,
generation, verification, safety rails, cache, CDC, widget) consists of empty packages.
This directory models the part that has behaviour.

## 1. Inventory

| component | code | state it keeps | operations | what is hard |
|---|---|---|---|---|
| ingest pipeline | `ingest/pipeline.py`, `checkpoints.py` | two checkpoint files per job, points in Qdrant | `ingest_document`, `resume_ingest_job`, the parse, chunk and embed-and-index steps, the retry loop | a crash between any two writes, resume from what was recorded, a lost answer of Qdrant, an outage of the embedding service |
| job store | `ingest/job_store.py`, `ingest/models.py` | the `job_queue` row (status, payload with phase, progress, paths, retries, errors) | `create_job`, `get_payload`, `advance`, `complete`, `fail` | two implementations with different visibility: in memory at once, in Postgres at commit |
| parsing | `ingest/parsing.py` | none | `parse_document` | which parser is chosen, the PDF rescue path |
| chunking, tokenizer | `ingest/chunking.py`, `tokenizer.py` | none | `split_into_chunks`, `build_chunk_id` | window arithmetic, stable ids |
| embedding clients | `ingest/embedding.py`, `retry.py` | none | dense, sparse and hybrid `embed`, backoff | two services, asked one after the other: either may fail or be unreachable, they may disagree, or agree on a wrong number |
| ACL lookup | `acl/ingest_stub.py` | none (reads `document_versions`) | `get_effective_acl`, `get_retention_state` | two reads, and edits in between |
| ingest routes | `api/ingest_routes.py`, `ingest/task_scheduler.py` | the request session, the background session, the queued task | `post_ingest`, the background task, `get_ingest_status`, `get_session` | commit before answer, failure after commit, polls while a run goes on, process death |
| admin document API | `admin/document_store.py`, `api/admin_routes.py` | `documents`, `document_versions` rows | paginated list, `PUT` (soft delete, ACL, authority state) | concurrent edits, edits during a run, pages under inserts |
| audit API | `audit/event_store.py`, `api/audit_routes.py` | `audit_events` rows (read only) | filtered, paginated list | pages under inserts |
| model versions | `config/active_model_version.py`, `ingest/qdrant_setup.py`, `api/config_routes.py` | `model_versions` rows, collections and their payload indexes | active version per role, index target, `create_collection`, the listing of active versions | a collection that is made half-way, an upload into it, a swap between an upload and its run, names of two collections that are the same, a swap during the listing |
| authentication | `api/auth.py` | the JWKS bundle and the admin key, fixed at start | `require_auth`, `verify_jwt`, `verify_admin_api_key` | a function of one request and the settings; the ways in which a token or a key can fail |

Interactions. `post_ingest` creates the job, document and version rows in the request's
session, commits, and queues a closure that calls `resume_ingest_job` on a worker thread
with a session of its own. The run reads the version row the admin API edits, writes
files nobody else reads, and Qdrant points under ids derived from document, version and
sequence. Polls read the job row through a third session. Nothing but committed rows
connects the three.

What makes each component correct:

- *Pipeline and job store*: a recorded checkpoint is a complete file; ready means every
  chunk is in the index; the index holds one run's points with one ACL; without an ACL
  or a text nothing is indexed; what polls see never goes backwards; every run ends and
  reports.
- *Ingest routes*: an acknowledged upload is durable, is run with its rows in sight, and
  settles; a rejected or failed one publishes nothing; successive polls agree.
- *Chunking*: no token that can be shown is lost, neighbours share exactly the overlap, the loop ends.
- *Admin API*: an edit takes effect whole or not at all, on the document as it then is,
  and leaves alone what it does not name; every request is answered.
- *Authentication*: a caller who is not authentic is told so with 401, and before
  anything is created.
- *Index target*: what is uploaded once a collection was created is indexed with all
  payload indexes and stays; a collection holds the points of one repository and one
  model version; the listing is true.
- *Paginated lists*: a walk returns every row it owes, none of them twice, and ends.

The hazards in this code, each at its line with the properties that would catch it, are
listed in `PROJECT.json`.

## 2. Modules

| module | what it models | correspondence |
|---|---|---|
| `JobPhases` | phases, the status derived from them and the order of statuses | `payload["phase"]`, `_map_phase_to_status` |
| `DocumentParsing` | which parser reads an upload | `parse_document`; an upload is its format, what each parser makes of its bytes, and its number of chunks |
| `IngestPipeline` | one job through any number of runs | `job` is the `job_queue` row in the run's session, `durable` the committed one, `files` the checkpoint files, `index` the points in Qdrant, `version` the `document_versions` row, `pc` the statement the run has reached. One action per statement of `_run_pipeline` and its steps that writes, reads shared state or may raise; `embed()` is two calls, and `vectors` is how many the dense one returned. `transactional` is which `JobStore` the runs use |
| `JobLifecycle` | abstract: what polls are promised | implemented by `IngestPipeline` (`ImplementsLifecycle`), phase = committed phase, searchable = all chunks indexed |
| `UploadPromise` | abstract: what the client of one upload is promised | implemented by `IngestService` (`KeepsPromise`): `answer` = status code of the POST, `told` = status in the last answer to a poll, `searchable` = all chunks indexed |
| `Authentication` | `require_auth` | the two methods as functions of the settings and the headers; a token is the first thing that is wrong with it |
| `IngestService` | `IngestPipeline` and `Authentication` inside the HTTP service | extends them with what was posted (`request`), the handler of `POST /v1/ingest` (`post`), the queued task (`scheduled`), the request session (`rows`), failures (`fault`) and polls |
| `IndexTargets` | collections, active versions, and the uploads of several repositories that are sent to them | `exists` and `indexes` are what Qdrant holds, `creating` and `usable` where `create_collection` stands, `active` the committed `model_versions`, `corpus` the repository of an upload, `target` the `IndexTarget` it was resolved to, `listing` the list built by `list_active_model_versions`; one action per call to Qdrant and per SELECT. `prepared` and `since` are history, for the properties |
| `Chunking` | the loop of `split_into_chunks` | `call` is its arguments, the text being its number of tokens and which of them decode leaves out; `start`, `sequence`, `chunks` are its local variables; one action per iteration |
| `AdminDocuments` | PUT and GET on one document | `stage` is the statement a handler has reached, `pending` the uncommitted columns of its session and so its row locks, `busy` the event loop of each process; one action per SQL statement, and the commit as a later one |
| `DocumentEdits` | abstract: edits are atomic | implemented by `AdminDocuments` (`EditsAreAtomic`) |
| `KeysetPagination` | a walk over the pages of either list | `cursor` as the client holds it, `committed` the table, one action per request, insert and edit |
| `MC...` | instances for TLC | |
| `...Proofs` | theorems and their proofs | |

`IngestService` extends `IngestPipeline`, so one set of pipeline actions serves both.
`IngestPipeline` sees the admin API as `EditVersion`, a committed change of the version
row, which `AdminDocuments` refines into statements.

There are two abstract views of a job. `JobLifecycle` is about the job: its committed
phase goes forward, ready only of a searchable document. `UploadPromise` is about the
client, and leaves out phases, runs and rows: nothing is found of an upload that was not
acknowledged, no poll knows of one that was turned away, a poll says ready only of what
can be found, and nothing changes after a verdict was told. `ServiceSpec` implements both,
the second across the handler, the background session and the polls.

`KeysetPagination` is shared by the
two lists: they differ in their tables and filters, and their cursor, clamp and
`_paginate` are the same code twice. `IndexTargets` looks at two lines of the service,
`resolve_index_target` and the upsert, which `IngestService` and `IngestPipeline` have as
steps that may fail, and asks what happens to collections and versions between them.

The two implementations of `JobStore` are the values of a variable that never changes:
`transactional = FALSE` is `InMemoryJobStore`, `TRUE` is `SqlAlchemyJobStore` under the
session of the background task, which is committed once, in a `finally`. The constant
`Stores` says which of them a run considers.

Operators marked `Mutant:` stand before the definition they are a faulty variant of.
`PROJECT.json` says which property finds the fault when one takes the other's place; no
specification uses them.

What data is abstracted to: a document is a number of chunks, a chunk in the index its
sequence number with the edits its ACL and retention state were read at; an edit of the
version row is a count; a document's columns are two fields per table with a few values;
times and ids are numbers, compared as the code compares them; a key is one of a few
values with the empty string and one outside ASCII among them; an embedding is its number
of vectors; a collection is its name and how many payload indexes it has; repository ids,
model versions and the names made of them are sequences of the parts between
underscores, since `build_collection_name` joins by one. The text of a chunk is the set of
tokens of its window that decode shows: the tokenizer of bge-m3 puts a mark before a text
and one behind it and leaves marks out when it decodes. That a token cut off from its
neighbours may be decoded to other characters is left out.

## 3. Runs

| run | question | bounds | result |
|---|---|---|---|
| `pipeline` | one job over either `JobStore`, with its runs, abandoned runs, resumes, edits and embedding failures | 3 runs, 2 edits, 5 retries, 5 uploads | holds |
| `service` | one upload request with everything around it: is it settled once it is closed, and does its client see what `UploadPromise` says? | every setting and header that does not authenticate and one of each kind that does; 1 run, 1 edit, 2 retries, 3 uploads | holds |
| `targets` | is an upload that was resolved after its collection's creation returned indexed with all payload indexes, and does it stay? do two uploads share a collection just if repository and version are the same? is the listing true while versions are swapped? | 2 uploads, 2 repositories, 2 versions, no underscores, 2 indexes, 2 roles; a behaviour is about one of the three questions | holds |
| `chunks` | the chunking loop | texts up to 16 tokens, windows up to 6, and 1024/128 at the lengths where the number of chunks changes; four sets of tokens that decode leaves out | holds |
| `admin_one_worker` | two PUTs and a GET in one process | 8 bodies, 3 values | holds |
| `admin_two_workers` | two PUTs in two processes | 3 bodies that cross on both tables | holds |
| `pages` | a walk under inserts and edits | 5 rows of which 3 share a timestamp, 3 filters, limits 0, 1, 2, 3 and 9 at a maximum of 3 | holds |
| `crash_loses_checkpoint` | does an abandoned run keep its checkpoints? | 2 runs | violated |
| `resume_failed_job` | is a resumed failed job ready only when indexed? | 2 runs | violated |
| `unsupported_name` | is an upload no parser accepts refused? | 1 run | violated |
| `admin_loop_wedge` | is every PUT answered, in one process? | 2 PUTs on `documents` | violated |
| `edit_before_commit` | does a GET after a 200 see the edit? | 2 PUTs, 1 GET | violated |

Why these bounds are enough:

- *3 runs* let a job be abandoned, resumed, abandoned elsewhere and resumed again: every
  pair of stopping points occurs. The proofs hold for any number.
- *2 edits* put one between the two reads of a run and one between two runs.
- *5 retries* is the real `MAX_EMBEDDING_RETRY_ATTEMPTS`; the service run, in which
  everything else interleaves too, has 2, since the counter is all that differs.
- *Uploads*: a text of two chunks, an empty one, a PDF for the rescue parser, one that
  neither parser reads, a name nobody parses. Two chunks tell a complete index from a
  partial one.
- *Answers of the embedding services*: any number of vectors up to one more than there are
  chunks: too few, right, too many, and the same wrong number twice.
- *Requests*: all combinations of settings and headers, except that of those that
  authenticate the caller only one for each method is taken: how the caller was
  authenticated changes nothing afterwards.
- *Collections*: two versions are what a swap needs, with a swap back, and two
  repositories give an active version a collection that is not there yet. Two uploads let
  one be resolved before a swap and one after it; two indexes give a collection with none,
  some and all of them; two roles show every interleaving of a swap with the listing. The
  three questions of the run are too many states together: `about` is the one that a
  behaviour is about, and `Within` leaves out the steps that only the others need (other
  uploads and the listing; indexes and the listing; uploads and collections). The proofs
  know no such limit.
- *Tokens left out*: none, as by the tokenizer of the tests; the first and the last, as by
  that of bge-m3; another in the middle; all.
- *2 PUTs*: the two row locks are all that requests share, and a deadlock or a lost update
  between requests that take them in one fixed order needs two. The proofs of
  `EditsAreAtomic` and of `LockOrder` are for any number of requests, processes and
  bodies.
- *5 rows* give pages before, at and after a tie of three, a row beyond the last full
  page, and inserts above and below the cursor. `EditTime` only has to lie above all
  rows.

Deadlock checking is off in every run: a job that is settled, a request that is closed, a
walk that is done and a list that was returned are proper ends, as is a bound reached.

## 4. Fairness

- `FairSpec` of `IngestPipeline`: weak fairness of `RunStep`. A thread that runs the
  pipeline goes on, every call in it returns or raises, and the retry loop sleeps a finite
  time. Nothing makes anybody resume a job, so `StartRun`, `Abandon` and `EditVersion`
  have none. `RunEnds` is then about the retry counter.
- `ServiceSpec`: weak fairness of the handler, of the start of the queued task
  (Starlette runs it once the response is out) and of the steps of the background thread.
  None for polls, edits and failures; `AcknowledgedSettles` excepts the death of the
  process and the loss of the database session, which nothing repairs.
- `AdminDocuments`: weak fairness of each request's next statement and of the GET's
  second. PostgreSQL grants a free lock, and a waiting request is in the queue for it;
  with two requests, weak fairness is enough because a lock that was released is not
  taken again by the same request. Failures have none.
- `KeysetPagination`: weak fairness of `NextPage(1)`: the client goes on asking, one row
  at a time in the worst case, and rows are finite.
- `IndexTargets` states no liveness: nothing makes an operator finish, and that uploads
  settle is a matter of `IngestService`.
- `Chunking` states no liveness: that the loop ends is in `CountIsExact`, which bounds
  the number of chunks in every state.

## 5. What the runs show

The passing runs say that the design of checkpoints, idempotent upserts and fail-closed
ACL lookup holds up under crashes at every statement, that the commit before the answer
of `POST /v1/ingest` is sufficient and necessary for the background run, that no failure
of either embedding service lets a partial index through or resets the retry counter,
that every way of not being authentic but one ends in 401 before anything is created,
that resolving the target once per upload keeps stamp and collection together, that the
PUT handler merges by column and so loses no concurrent update, and that the keyset cursor
does what `specs/06-api-contracts.md` says of it.

The violated ones:

1. *crash_loses_checkpoint.* The background task commits only after the pipeline is over
   (`api/ingest_routes.py:367-372`). If the process dies, every `advance()` is rolled
   back: the files are there and the row does not know them. `task_scheduler.py:23-25`
   and `specs/09-deployment-ops.md:66` promise the last checkpoint. That the
   transaction alone is to blame is a theorem: with the in-memory store an abandoned run
   keeps its checkpoints wherever it stops (`MemoryKeepsCheckpoint`). For the same reason
   no poll ever sees parsing or indexing, which `specs/03-workflows.md:47` lists
   (`TransactionHidesPhases`, `PollsHidePhases`).
2. *resume_failed_job.* `fail()` overwrites the phase, so `resume_ingest_job` on a failed
   job runs no step and calls `complete()`: ready, with nothing in the index. This is the
   one place where the phase does not say how far the job got. The pipeline's
   theorems about the verdict therefore assume `"failed" \notin Resumable`, and this run
   shows that the assumption is needed. The service's theorems do not: it starts one run
   for an upload, from the beginning, and no route runs a job again.
3. *unsupported_name.* The MIME type is checked by the handler and the file name by the
   parser, after the 200; `parsing.py:34-35` says the HTTP layer answers 415.
4. *admin_loop_wedge.* `put_document` is a coroutine that blocks in SQL, and its session
   is committed on a thread that the event loop has to start. A second PUT on the same
   document, handled in between, waits in the event loop's thread for the row lock of the
   first, and the process is stuck. `admin_two_workers` shows that the row locks by
   themselves do not deadlock: there each request has an event loop of its own. The
   proofs say the same of any number of requests: chains of lock waits have at most two
   links (`LockOrder`), a process per request rules a standstill out
   (`ApartNeverWedges`), and wherever one occurs it has this shape
   (`OnlyDeferredCommitsWedge`).
5. *edit_before_commit.* The same late commit lets a GET after the 200 read the old
   document, against `.scratch/api-surface/issues/03-admin-document-management.md:35`.
   From the commit on the sentence is true: `CommittedEditsObservable`.

Seen while modelling, without a run: a PUT that only changes the ACL does not change
`updated_at` in the SQL store and does in `FakeDocumentStore` (`document_store.py:426`),
which `SameEditAsTestStore` states; no text of the repository says which is meant. A text
whose last window holds nothing but the closing mark (897 tokens, with the default
window) ends with a chunk whose text is empty, which is embedded and indexed like the
others; and for an empty text `embed` is called with no text at all (`pipeline.py:188`).
`UpdatedAtAdvances` holds because one event loop finishes a handler before the next; with
several processes it does not, and nothing promises it. The last chunk may lie wholly
within the one before it (`test_chunking.py` has such a case), as `NeighboursOverlap`
allows. A row that is committed late with a time above the cursor is not returned by a
walk; it is not owed either. `specs/03-workflows.md:59` says an outage "requeues" the job,
where the code retries in place, as its own comment says.

An admin key outside ASCII, set or sent, makes `hmac.compare_digest` raise a `TypeError`
that `verify_admin_api_key` does not catch: 500 instead of 401. `UnauthenticatedGets401`
excepts exactly that, and nothing else; a body the framework cannot parse, which is
answered before the authentication is asked, is not modelled. A cursor that decodes to
JSON whose `last_seen_id` is not a string makes `uuid.UUID` raise an `AttributeError`,
which `decode_cursor` does not catch, although its docstring (`document_store.py:125`)
says that every malformed cursor is a `ValueError`: 500 instead of 400.

`specs/07-database.md:98` has the payload indexes "created before ingest". Nothing on the
way of an upload sees to it: `resolve_index_target` takes the active version and makes a
name of it, and the upsert takes the collection it finds, which is in Qdrant before its
indexes are. A version is active from the first-boot seed on, a repository begins with its
first upload, and the migration that `specs/07-database.md:115-116` plans bumps the row
before it creates the collection; `IndexTargets` therefore lets all of this happen in any
order. If there is no collection the job fails; if it is being made or was left half-made,
the document is indexed where ACL filters have no index, and is lost when the half-made
collection is dropped, while its job stays ready. What does hold is `PreparedIsIndexed`:
an upload that is resolved after the creation of its collection returned is indexed with
all indexes and stays, however many attempts failed before. It rests on
`create_collection` not being idempotent, so that a second attempt cannot take a half-made
collection for a whole one.

The name of a collection joins repository id and version by an underscore, and both may
contain one: the id is a form field of any text (`api/ingest_routes.py:314`), the version
a string. "a" under "b_c" and "a_b" under "c" are then one collection, with vectors of two
models, against "one collection per `(corpus_id, embedding_model_version)`"
(`specs/07-database.md:92`). `OneCollectionPerPair` is checked for names without an
underscore and proved for all that are unambiguous (`NamesAreUnambiguous`).

## 6. What is proved

With TLAPS, for every value of the constants under the named assumptions.

`IngestPipelineProofs`, any uploads, retry limit, store, number of runs and edits:

- `TypeCorrect`.
- `CheckpointsAreComplete`. `CheckpointsComplete` is not inductive: that a path is
  recorded only for a whole file needs what `pc` says about the file just written, and
  that a run that starts at a later step does not reopen an earlier file needs the phase
  to match the recorded paths, in both copies of the row. `CheckpointInv` says so.
- `ReadyIsIndexed` and `IngestFailsClosed`, for stores whose failed jobs are not resumed.
  `VerdictInv` ties each phase to what has to be true when it is recorded, and the
  committed row to the session's.
- `IndexIsCoherent`. `CoherentInv` adds that the ACL in hand was read no later than the
  retention state.

`IngestLifecycleProofs`: `PollsNeverRegress` and `PipelineImplementsLifecycle` with the
same assumption, and without it `RunsReport`, `NoStepIsRepeated`, `MemoryKeepsCheckpoint`,
`TransactionHidesPhases` and `RunsAreBounded`. `TrailInv` says that the committed row is
never ahead of the session's, so that a commit is a step forward and a rollback invisible.
Every step then is a step of `JobLifecycle` or a stutter. `CommitInv` says that the
session that is about to be committed holds a verdict; `StoreInv` what the two stores
differ in: the committed row is the session's, or it is pending or has a verdict.
`RunsAreBounded` is the safety half of `RunEnds`: `Variant`, made of the statement a run
has reached and the retries it has left, is at most `14 + 2 * MaxRetry` and goes down with
every step of the run, whichever of them fail.

`IngestServiceProofs`, any requests, uploads, retry limit and resumable phases:
`ServiceTypeCorrect`, `AcknowledgedStaysDurable`, `RunsFindTheirRows`,
`RejectionLeavesNothing`, `UnauthenticatedAlwaysGets401`, `ErrorsNeverPublish`,
`PollsAreConsistent`. `ServiceInv` is the history of one request: it ties `post`,
`response`, `rows`, `scheduled`, `pc` and, until the background run starts, the phase to
one another, and rows to a request that is not rejected. The theorems about rejection
follow from it without a look at the order of the checks, which is in the lemmas about
`Rejection`. That the one run starts from a pending job (`RunsFromTheUpload`) takes the
place of the assumption on `Resumable` when the invariants of the pipeline are carried
over (`PipelineInv`; the service adds the steps by which the rows appear and by which the
process dies). `FailedInv` adds that a committed failure stays as it is, and `PollInv`
says that the last answer is not ahead of the committed row.

`IngestPromiseProofs`, as general: what the service keeps of the pipeline's guarantees
(`ServiceCheckpointsAreComplete`, `ServiceIndexIsCoherent`, `ServiceReadyIsIndexed`,
`ServiceFailsClosed`), `ClosedUploadsAreSettled`, `PollsHidePhases` for the SQL store, and
the two refinements, `ServiceImplementsLifecycle` and `ServiceKeepsPromise`. `CarriedInv`
collects the invariants of the pipeline that need no verdict. `ClosedInv` adds to
`ClosedIsSettled` the moment between the commit of a run and the end of its request.
`PromiseInv` says that until a 200 is out the committed job is pending and nothing runs,
and that who was turned away was told nothing. A step of the service is then a step of
`UploadPromise` or a stutter: an answer, the upsert, or a poll that says something new.
`PromiseMeansTruth` shows that the promise is worth having: any system that keeps it tells
its clients only what is so.

`IndexTargetsProofs`, any uploads, repositories, versions, roles and payload indexes:
`TargetsTypeCorrect`, `PreparedUploadsAreIndexed`, `CollectionsAreKeptApart` if names are
unambiguous, `ListingsAreTruthful`. `TargetInv` says that a collection whose creation
returned is whole and is not being worked on, that the target of an upload is named after
its repository and the version it was resolved to, that what was prepared has a usable
one, and that points lie where, and carry what, the target of their upload says.

`ChunkingProofs`, any text, window and overlap below it: `ChunkTypeCorrect`,
`EveryTokenIsIndexed`, `ChunksOverlap`, `ChunksAreCounted`. `ChunkInv` is the loop
invariant: where each chunk lies and what its text is, that the window moves by one step, that `start` is the
number of chunks times the step, and that what the window has passed is in a chunk.

`AdminDocumentsProofs`, any number of requests and processes, any bodies:
`DocumentsTypeCorrect`, `ErrorsChangeNothing`, `HandlersImplementEdits`,
`TestStoreMakesTheSameEdit`, `CommittedEditsObservable`, `LockOrder`,
`OnlyDeferredCommitsWedge`, `ApartNeverWedges` for a process per request, and
`OneLoopKeepsTime` for a single process. `EditInv` says of each request what it has
written so far: nothing, its document columns, or both, as a function of its stage, and
nothing any more once it is closed. A commit therefore lays the whole edit over the row.
`ReadInv` adds that a request has read what the row still is, as long as nothing was
applied, which makes the SQL store and `FakeDocumentStore` comparable in the edited
fields; `TimesDiffer`, that a time that may still be committed is none that was, which
makes them comparable in when they move `updated_at`. `LoopInv` says that
a process is busy while one of its handlers is between its statements, and that there is
at most one such handler; `LocksFollowStages` reads off `EditInv` which row locks a
request can hold at which statement, the order of which the three theorems about
standstills rest on. They speak of `CanGoOn`, the guards of `Handle` written out, since
`ENABLED` cannot be proved about. `AppliedInv` says that what a committed edit names holds
the value of a committed edit, and `TimeInv` that the times of the uncommitted changes lie
above `updated_at` and below the time of the handler at work.

`KeysetPaginationProofs`, any table, filters and limits: `PagesTypeCorrect`,
`StoresAlwaysAgree`, `WalkSkipsNothing`, `PagesAlwaysDescend`, `WalksAreBounded`. The
lemmas are about ranks in a finite, totally ordered set: the highest `n` rows are closed
upwards, an answer that is shorter than asked for is everything, one row more than a page
is enough to know that there is a next. `WalkInv` says that the cursor separates what was
returned from what is still owed. `RowsLeft`, the rows below the cursor, goes down with
every page, whatever is inserted, so that a walk over a finite table is finite.

Only checked by TLC: the four liveness properties, since progress under fairness is out of
TLAPS's reach. Of each the safety half is a theorem: a run has a bounded number of steps
(`RunsAreBounded`, for `RunEnds`), a request that is over has a verdict on record
(`ClosedUploadsAreSettled`, for `AcknowledgedSettles`), somebody can always go on
(`ApartNeverWedges`, for `EveryPutAnswered`), and a walk has a bounded number of pages
(`WalksAreBounded`, for `WalkEnds`). What stays with TLC is that the fair steps are taken
and, for `EveryPutAnswered`, that the request that can go on is in its turn the one that
waited. Every other property of the passing runs is a theorem.

## 7. Not modelled

- *Signatures and claims*: PyJWT is external; a token is good, or fails in one of the ways
  `verify_jwt` tells apart.
- *The delay of the backoff* (`retry.py`) is finite; nothing depends on its length.
- *Retiring a collection*: an operator who drops the collection of a former version while
  an upload that was resolved to it is still queued makes that job fail; the code has no
  operation for it, and the model drops only half-made collections, as the docstring of
  `create_collection` says.
- *Writers of `model_versions` and `audit_events`*: there are none in the repository; swaps
  and inserts are external actions.
- *Malformed parameters of the two lists* end in 400 before the store is called (500 in
  the case named in section 5) and change nothing.
- *Application wiring, readiness, persistence base, migrations, evaluation models, tools*:
  no behaviour of their own.
- *Retrieval, generation and the other packages of the query side* are empty.
- *Two jobs at once*: jobs share no row, file or point, since all are keyed by ids made
  fresh for each upload.

## 8. Plan

Done, in this order: `JobPhases`, `DocumentParsing`, `IngestPipeline` with
`JobLifecycle`; `IngestService`; `AdminDocuments` with `DocumentEdits`;
`KeysetPagination`; `Chunking`; the two embedding services; `Authentication`;
`IndexTargets`; proofs for all of them; `UploadPromise`, with the service proved to
implement it and `JobLifecycle` without an assumption on resumed jobs; the safety halves
of the liveness properties.

What would come next depends on the repository: the query graph behind `POST /v1/query`,
crash recovery of queued jobs (TASK-010) and the writer of audit events (TASK-024) are
announced in the code and not there. Of what is there, the answers of the two lists to
malformed parameters could be added to `KeysetPagination`, and `last_seen_id` with them.
