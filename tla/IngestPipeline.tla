---------------------------- MODULE IngestPipeline ----------------------------
(***************************************************************************)
(* One ingest job carried through ingest/pipeline.py: parse, chunk, embed   *)
(* and index, with a checkpoint file and a job-row update between steps.    *)
(*                                                                          *)
(* The job is run any number of times: once by the upload, then again by    *)
(* resume_ingest_job whenever an operator decides to, after a run ended or  *)
(* after it was abandoned half-way (the process died, the thread was        *)
(* killed, the database went away).  Meanwhile the admin API may edit the   *)
(* document version whose ACL the job copies into the index.                *)
(*                                                                          *)
(* Two JobStore implementations exist.  InMemoryJobStore shows an update    *)
(* to everybody at once.  SqlAlchemyJobStore writes to the session of the   *)
(* run, which is committed when the run is over: until then only the run    *)
(* itself sees the update, and the store is transactional.                  *)
(*                                                                          *)
(* The embedding client is HybridTEIEmbeddingClient (ingest/embedding.py):  *)
(* one call to the dense and one to the sparse service, which may each be   *)
(* unreachable, answer with an error, or with another number of vectors     *)
(* than there were texts.                                                   *)
(***************************************************************************)
EXTENDS JobPhases, DocumentParsing

CONSTANTS
    Uploads,        \* the uploads considered
    MaxRetry,       \* MAX_EMBEDDING_RETRY_ATTEMPTS
    Stores,         \* the kinds of JobStore considered: transactional or not
    Resumable,      \* phases in which the job may be run (again)
    MaxRuns,        \* bound: how often the job is run
    MaxEdits        \* bound: how often the admin edits the version row

ASSUME UploadsAssumption == Uploads \subseteq Upload
ASSUME MaxRetryAssumption == MaxRetry \in Nat
ASSUME StoreAssumption == Stores \subseteq BOOLEAN
ASSUME ResumableAssumption == Resumable \subseteq JobPhase
ASSUME BoundsAssumption == MaxRuns \in Nat /\ MaxEdits \in Nat

VARIABLES
    job,      \* the job_queue row as the run's session sees it
    durable,  \* the job_queue row as committed: what polls and restarts see
    files,    \* the two checkpoint files
    index,    \* the points of this document version in Qdrant
    version,  \* the document_versions row: is it there, how often edited
    upload,   \* the uploaded file
    transactional,  \* which JobStore the runs use
    pc,       \* where the run is; "idle" when none is running
    attempt,  \* failed embedding attempts of this run
    vectors,  \* how many vectors the dense service has returned
    seen,     \* edits of the version row that the two ACL reads saw
    runs      \* runs started so far

given == <<upload, transactional>>
locals == <<attempt, vectors, seen>>
vars == <<job, durable, files, index, version, given, pc, locals, runs>>

-----------------------------------------------------------------------------
(* The job row and the two ways of storing it.                             *)

Step == {"parsed", "chunked"}

\* progress is in tenths; paths says which *_checkpoint_path keys are set.
JobRow == [phase    : JobPhase,
           status   : {"pending", "in_progress", "complete", "failed"},
           progress : {0, 2, 4, 7, 10},
           paths    : SUBSET Step,
           fallback : {"none", "primary", "rescue"},
           retry    : 0..MaxRetry,
           error    : BOOLEAN]

NewJob == [phase |-> "pending", status |-> "pending", progress |-> 0,
           paths |-> {}, fallback |-> "none", retry |-> 0, error |-> FALSE]

Store(row) ==
    /\ job' = row
    /\ durable' = IF transactional THEN durable ELSE row

\* JobStore.advance: merge the updates, and the job is in progress.
Advance(row) == Store([row EXCEPT !.status = "in_progress"])

Point == [seq : Nat, acl : Nat, retention : Nat]

Chunks == 1..upload.chunks

AllChunksIndexed == \A s \in Chunks : \E p \in index : p.seq = s

Control == {"idle", "parse", "write_parsed", "advance_parsed", "chunk",
            "write_chunked", "advance_chunked", "acl", "retention", "dense", "sparse",
            "advance_indexing", "upsert", "complete", "fail", "commit"}

\* Steps whose work may raise: everything inside the try of _run_pipeline.
Raising == Control \ {"idle", "complete", "fail", "commit"}

TypeOK ==
    /\ job \in JobRow
    /\ durable \in JobRow
    /\ files \in [Step -> {"absent", "partial", "whole"}]
    /\ index \subseteq Point
    /\ version \in [exists : BOOLEAN, edits : Nat]
    /\ upload \in Uploads
    /\ transactional \in Stores
    /\ pc \in Control
    /\ attempt \in 0..MaxRetry
    /\ vectors \in Nat
    /\ seen \in [acl : Nat, retention : Nat]
    /\ runs \in Nat

Init ==
    /\ job = NewJob
    /\ durable = NewJob
    /\ files = [s \in Step |-> "absent"]
    /\ index = {}
    /\ version \in [exists : BOOLEAN, edits : {0}]
    /\ upload \in Uploads
    /\ transactional \in Stores
    /\ pc = "idle"
    /\ attempt = 0
    /\ vectors = 0
    /\ seen = [acl |-> 0, retention |-> 0]
    /\ runs = 0

-----------------------------------------------------------------------------
(* Starting a run: _run_pipeline reads the phase and picks the first step.  *)

\* Mutant: the index step is taken to be done once embedding is.
DispatchSkipsIndexing(phase) ==
    CASE phase = "pending" -> "parse"
      [] phase = "parsed"  -> "chunk"
      [] phase = "chunked" -> "acl"
      [] OTHER             -> "complete"

\* Mutant: every run starts from the upload.
DispatchFromUpload(phase) == "parse"

Dispatch(phase) ==
    CASE phase = "pending"                -> "parse"
      [] phase = "parsed"                 -> "chunk"
      [] phase \in {"chunked", "indexing"} -> "acl"
      [] OTHER                            -> "complete"

StartRun ==
    /\ pc = "idle"
    /\ runs < MaxRuns
    /\ job.phase \in Resumable
    /\ runs' = runs + 1
    /\ pc' = Dispatch(job.phase)
    /\ attempt' = 0
    /\ vectors' = 0
    /\ UNCHANGED <<job, durable, files, index, version, given, seen>>

-----------------------------------------------------------------------------
(* Checkpoint files.  write_text truncates the file and then fills it, so   *)
(* a run that stops in between leaves part of it.                           *)

OpenFile(s) == files' = [files EXCEPT ![s] = "partial"]

\* Mutant: the path is recorded while the contents sit in a buffer.
LeaveUnflushed(s) == files' = files

FillFile(s) == files' = [files EXCEPT ![s] = "whole"]

-----------------------------------------------------------------------------
(* The parse step.                                                         *)

ParseDocument ==
    /\ pc = "parse"
    /\ Parses(upload)
    /\ OpenFile("parsed")
    /\ pc' = "write_parsed"
    /\ UNCHANGED <<job, durable, index, version, given, locals, runs>>

WriteParsed ==
    /\ pc = "write_parsed"
    /\ FillFile("parsed")
    /\ pc' = "advance_parsed"
    /\ UNCHANGED <<job, durable, index, version, given, locals, runs>>

AdvanceParsed ==
    /\ pc = "advance_parsed"
    /\ Advance([job EXCEPT !.phase = "parsed", !.progress = 2,
                           !.paths = @ \union {"parsed"},
                           !.fallback = FallbackFlag(upload)])
    /\ pc' = "chunk"
    /\ UNCHANGED <<files, index, version, given, locals, runs>>

-----------------------------------------------------------------------------
(* The chunk step reads the first checkpoint and writes the second.         *)

CanRead(s) == s \in job.paths /\ files[s] = "whole"

SplitIntoChunks ==
    /\ pc = "chunk"
    /\ CanRead("parsed")
    /\ OpenFile("chunked")
    /\ pc' = "write_chunked"
    /\ UNCHANGED <<job, durable, index, version, given, locals, runs>>

WriteChunked ==
    /\ pc = "write_chunked"
    /\ FillFile("chunked")
    /\ pc' = "advance_chunked"
    /\ UNCHANGED <<job, durable, index, version, given, locals, runs>>

AdvanceChunked ==
    /\ pc = "advance_chunked"
    /\ Advance([job EXCEPT !.phase = "chunked", !.progress = 4,
                           !.paths = @ \union {"chunked"}])
    /\ pc' = "acl"
    /\ UNCHANGED <<files, index, version, given, locals, runs>>

-----------------------------------------------------------------------------
(* The embed and index step.  The ACL and the retention state of the        *)
(* version row are two reads; an edit may be committed between them.        *)

\* Mutant: a missing version row is read as a default ACL.
DefaultWhenMissing(next) ==
    /\ pc' = next
    /\ UNCHANGED <<job, durable, files, index, version, given, attempt, vectors, runs>>

FetchVersion(next) ==
    /\ version.exists
    /\ pc' = next
    /\ UNCHANGED <<job, durable, files, index, version, given, attempt, vectors, runs>>

GetEffectiveAcl ==
    /\ pc = "acl"
    /\ FetchVersion("retention")
    /\ seen' = [seen EXCEPT !.acl = version.edits]

GetRetentionState ==
    /\ pc = "retention"
    /\ CanRead("chunked")
    /\ FetchVersion("dense")
    /\ seen' = [seen EXCEPT !.retention = version.edits]

\* A service answers with a vector for each text, or with fewer, or more.
AnswerLengths == 0..(upload.chunks + 1)

\* Mutant: an answer of the dense service starts the attempts afresh.
EmbedDenseAfresh ==
    /\ pc = "dense"
    /\ vectors' \in AnswerLengths
    /\ attempt' = 0
    /\ pc' = "sparse"
    /\ UNCHANGED <<job, durable, files, index, version, given, seen, runs>>

EmbedDense ==
    /\ pc = "dense"
    /\ vectors' \in AnswerLengths
    /\ pc' = "sparse"
    /\ UNCHANGED <<job, durable, files, index, version, given, attempt, seen, runs>>

\* Two answers of different length make embed() raise.
EmbedSparse ==
    /\ pc = "sparse"
    /\ \E length \in AnswerLengths :
          pc' = IF length = vectors THEN "advance_indexing" ELSE "fail"
    /\ UNCHANGED <<job, durable, files, index, version, given, locals, runs>>

\* Mutant: one retry too many.
ExhaustedLate(failures) == failures > MaxRetry + 1

Exhausted(failures) == failures > MaxRetry

\* Mutant: the counter starts over where it should have ended the loop.
WrappedAttempt(a) == (a + 1) % (MaxRetry + 1)

NextAttempt(a) == a + 1

\* Mutant: the retry requeues the job from the beginning.
RequeueRow(row) == [row EXCEPT !.phase = "pending", !.retry = NextAttempt(attempt)]

RetryRow(row) == [row EXCEPT !.retry = NextAttempt(attempt)]

Embedding == pc \in {"dense", "sparse"}

\* One of the two cannot be reached: record the attempt, sleep, and begin
\* again with the dense one, whose vectors are forgotten ...
EmbedUnreachable ==
    /\ Embedding
    /\ ~Exhausted(NextAttempt(attempt))
    /\ attempt' = NextAttempt(attempt)
    /\ Advance(RetryRow(job))
    /\ vectors' = 0
    /\ pc' = "dense"
    /\ UNCHANGED <<files, index, version, given, seen, runs>>

\* ... until the attempts are used up and the error propagates.
EmbedGivesUp ==
    /\ Embedding
    /\ Exhausted(NextAttempt(attempt))
    /\ pc' = "fail"
    /\ UNCHANGED <<job, durable, files, index, version, given, locals, runs>>

\* Mutant: zip without strict.
ZipShortest == "upsert"

\* zip(chunk_dicts, embeddings, strict=True) raises on another length.
ZipStrict == IF vectors = upload.chunks THEN "upsert" ELSE "fail"

\* The phase advances before the vectors are zipped with the chunks.
AdvanceIndexing ==
    /\ pc = "advance_indexing"
    /\ Advance([job EXCEPT !.phase = "indexing", !.progress = 7])
    /\ pc' = ZipStrict
    /\ UNCHANGED <<files, index, version, given, locals, runs>>

\* The chunks that the zip gave a vector.
Zipped == {s \in Chunks : s <= vectors}

NewPoints == [seq : Zipped, acl : {seen.acl}, retention : {seen.retention}]

\* Mutant: every point gets a fresh id, so an older one stays beside it.
AppendPoints == index' = index \union NewPoints

\* The point id is the chunk id, so an older point is overwritten.
OverwritePoints == index' = {p \in index : p.seq \notin Zipped} \union NewPoints

\* The write is applied; its answer may be lost on the way back.
Upsert ==
    /\ pc = "upsert"
    /\ OverwritePoints
    /\ \E answered \in BOOLEAN : pc' = IF answered THEN "complete" ELSE "fail"
    /\ UNCHANGED <<job, durable, files, version, given, locals, runs>>

-----------------------------------------------------------------------------
(* The end of a run.                                                       *)

\* Mutant: the exception is logged and the run goes on.
SwallowError == pc' = "complete"

PropagateError == pc' = "fail"

\* Any step raises: parser, tokenizer, disk, a missing or unreadable ACL,
\* an error answer of the embedding service or of Qdrant.
StepRaises ==
    /\ pc \in Raising
    /\ PropagateError
    /\ UNCHANGED <<job, durable, files, index, version, given, locals, runs>>

Complete ==
    /\ pc = "complete"
    /\ Store([job EXCEPT !.phase = "ready", !.progress = 10, !.status = "complete"])
    /\ pc' = "commit"
    /\ UNCHANGED <<files, index, version, given, locals, runs>>

Fail ==
    /\ pc = "fail"
    /\ Store([job EXCEPT !.phase = "failed", !.status = "failed", !.error = TRUE])
    /\ pc' = "commit"
    /\ UNCHANGED <<files, index, version, given, locals, runs>>

\* Mutant: the commit is not in the finally block.
CommitIfReady ==
    IF job.phase = "ready"
    THEN durable' = job /\ job' = job
    ELSE durable' = durable /\ job' = durable

CommitSession == durable' = job /\ job' = job

\* The finally block of the background task.
Commit ==
    /\ pc = "commit"
    /\ CommitSession
    /\ pc' = "idle"
    /\ UNCHANGED <<files, index, version, given, locals, runs>>

\* The run stops where it is and its session is rolled back.
Abandon ==
    /\ pc # "idle"
    /\ job' = durable
    /\ pc' = "idle"
    /\ UNCHANGED <<durable, files, index, version, given, locals, runs>>

\* PUT /v1/admin/documents/{id} commits a change to the version row.
EditVersion ==
    /\ version.exists
    /\ version.edits < MaxEdits
    /\ version' = [version EXCEPT !.edits = @ + 1]
    /\ UNCHANGED <<job, durable, files, index, given, pc, locals, runs>>

RunStep ==
    \/ ParseDocument
    \/ WriteParsed
    \/ AdvanceParsed
    \/ SplitIntoChunks
    \/ WriteChunked
    \/ AdvanceChunked
    \/ GetEffectiveAcl
    \/ GetRetentionState
    \/ EmbedDense
    \/ EmbedSparse
    \/ EmbedUnreachable
    \/ EmbedGivesUp
    \/ AdvanceIndexing
    \/ Upsert
    \/ StepRaises
    \/ Complete
    \/ Fail
    \/ Commit

Next == StartRun \/ RunStep \/ Abandon \/ EditVersion

Spec == Init /\ [][Next]_vars

\* A thread that runs the pipeline keeps running it; nothing makes anybody
\* resume a job, edit a version, or keeps a process from dying.
FairSpec == Spec /\ WF_vars(RunStep)

-----------------------------------------------------------------------------
(* Properties.                                                             *)

\* A checkpoint path recorded in the job row, committed or not, names a
\* completely written file: pipeline.py advances the row only after
\* write_checkpoint returned, so a resume never reads a truncated file.
CheckpointsComplete ==
    \A s \in job.paths \union durable.paths : files[s] = "whole"

\* A job that is, or is about to be, reported ready has every chunk of its
\* document in the index, however its runs were interrupted and resumed.
ReadyMeansIndexed ==
    (job.phase = "ready" \/ durable.phase = "ready") => AllChunksIndexed

\* Upserts by chunk id are all or nothing over the runs of a job: the index
\* is empty or complete, and all of its points were stamped by one reading of
\* the version row, so no run leaves points of an earlier one beside its own
\* (ingest/pipeline.py: "overwrites rather than duplicates").
IndexCoherent ==
    /\ index = {} \/ AllChunksIndexed
    /\ \A p, q \in index : p.acl = q.acl /\ p.retention = q.retention
    /\ \A p \in index : p.seq \in Chunks /\ p.acl <= p.retention

\* Without a version row to take the ACL from, or without a text, nothing
\* reaches the index and the job is never ready (fail-closed ingest).
FailClosed ==
    ~(version.exists /\ Parses(upload)) => index = {} /\ durable.phase # "ready"

\* A run that gets as far as its finally block leaves a verdict behind: the
\* committed row says ready or failed, also when the pipeline raised.
EveryRunReports ==
    [][Commit => durable'.phase \in Settled]_vars

\* What a poll sees of a job never goes backwards: not its phase, not its
\* progress, and a verdict is final.
PollNeverRegresses ==
    [][/\ durable'.progress >= durable.progress
       /\ Rank[durable'.phase] >= Rank[durable.phase]
       /\ durable.phase \in Settled => durable'.phase = durable.phase]_durable

\* A step whose result was checkpointed is not done again by a later run:
\* neither the parser nor the splitter runs when its output is on record.
NoStepRepeated ==
    [][/\ ParseDocument => "parsed" \notin durable.paths
       /\ SplitIntoChunks => "chunked" \notin durable.paths]_vars

\* An abandoned run leaves the job at the checkpoints it had recorded, as
\* ingest/task_scheduler.py says of a process that dies mid-job.
CrashKeepsCheckpoint == [][Abandon => job'.paths = job.paths]_vars

\* A run always comes to an end: the retry loop around the embedding service
\* is bounded, so an outage does not hang a job.
RunEnds == pc # "idle" ~> pc = "idle"

\* Polls see the job through the life that JobLifecycle promises.
Lifecycle == INSTANCE JobLifecycle
                WITH phase <- durable.phase, searchable <- AllChunksIndexed
ImplementsLifecycle == Lifecycle!Spec

=============================================================================
