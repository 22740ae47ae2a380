------------------------- MODULE IngestPipelineProofs -------------------------
(***************************************************************************)
(* Theorems about IngestPipeline, for every set of uploads, retry limit,    *)
(* kind of job store and number of runs.                                    *)
(***************************************************************************)
EXTENDS IngestPipeline, TLAPS

USE DEF given, locals

\* Storing a well-formed row keeps both views of the row well-formed.
LEMMA StoreType ==
    ASSUME NEW row \in JobRow, durable \in JobRow, Store(row)
    PROVE  job' \in JobRow /\ durable' \in JobRow
BY DEF Store

-----------------------------------------------------------------------------
(* Type correctness.                                                       *)

LEMMA InitType == Init => TypeOK
<1> SUFFICES ASSUME Init PROVE TypeOK
  OBVIOUS
<1>1. NewJob \in JobRow
  BY MaxRetryAssumption DEF NewJob, JobRow, JobPhase, Step
<1>2. files \in [Step -> {"absent", "partial", "whole"}]
  BY DEF Init
<1>3. attempt \in 0..MaxRetry
  BY MaxRetryAssumption DEF Init
<1> QED
  BY <1>1, <1>2, <1>3 DEF Init, TypeOK, Control

LEMMA NextType == TypeOK /\ [Next]_vars => TypeOK'
<1> SUFFICES ASSUME TypeOK, [Next]_vars PROVE TypeOK'
  OBVIOUS
<1> USE DEF TypeOK, Control
<1>1. CASE StartRun
  BY <1>1, MaxRetryAssumption DEF StartRun, Dispatch
<1>2. CASE ParseDocument
  BY <1>2 DEF ParseDocument, OpenFile, Step
<1>3. CASE WriteParsed
  BY <1>3 DEF WriteParsed, FillFile, Step
<1>4. CASE AdvanceParsed
  <2> DEFINE row == [job EXCEPT !.phase = "parsed", !.progress = 2,
                                !.paths = @ \union {"parsed"},
                                !.fallback = FallbackFlag(upload),
                                !.status = "in_progress"]
  <2>1. FallbackFlag(upload) \in {"none", "primary", "rescue"}
    BY DEF FallbackFlag
  <2>2. row \in JobRow
    BY <2>1 DEF JobRow, JobPhase, Step
  <2>3. Store(row)
    BY <1>4 DEF AdvanceParsed, Advance
  <2>4. job' \in JobRow /\ durable' \in JobRow
    BY <2>2, <2>3, StoreType
  <2> QED
    BY <1>4, <2>4 DEF AdvanceParsed
<1>5. CASE SplitIntoChunks
  BY <1>5 DEF SplitIntoChunks, OpenFile, Step
<1>6. CASE WriteChunked
  BY <1>6 DEF WriteChunked, FillFile, Step
<1>7. CASE AdvanceChunked
  <2> DEFINE row == [job EXCEPT !.phase = "chunked", !.progress = 4,
                                !.paths = @ \union {"chunked"},
                                !.status = "in_progress"]
  <2>1. row \in JobRow
    BY DEF JobRow, JobPhase, Step
  <2>2. Store(row)
    BY <1>7 DEF AdvanceChunked, Advance
  <2>3. job' \in JobRow /\ durable' \in JobRow
    BY <2>1, <2>2, StoreType
  <2> QED
    BY <1>7, <2>3 DEF AdvanceChunked
<1>8. CASE GetEffectiveAcl
  BY <1>8 DEF GetEffectiveAcl, FetchVersion
<1>9. CASE GetRetentionState
  BY <1>9 DEF GetRetentionState, FetchVersion
<1>10. CASE EmbedDense \/ EmbedSparse
  <2>1. AnswerLengths \subseteq Nat
    BY UploadsAssumption DEF AnswerLengths, Upload
  <2> QED
    BY <1>10, <2>1 DEF EmbedDense, EmbedSparse
<1>11. CASE EmbedUnreachable
  <2> DEFINE row == [job EXCEPT !.retry = NextAttempt(attempt),
                                !.status = "in_progress"]
  <2>1. NextAttempt(attempt) \in 0..MaxRetry
    BY <1>11, MaxRetryAssumption DEF EmbedUnreachable, Exhausted, NextAttempt
  <2>2. row \in JobRow
    BY <2>1 DEF JobRow
  <2>3. Store(row)
    BY <1>11 DEF EmbedUnreachable, Advance, RetryRow
  <2>4. job' \in JobRow /\ durable' \in JobRow
    BY <2>2, <2>3, StoreType
  <2> QED
    BY <1>11, <2>1, <2>4 DEF EmbedUnreachable, Embedding
<1>12. CASE EmbedGivesUp
  BY <1>12 DEF EmbedGivesUp
<1>13. CASE AdvanceIndexing
  <2> DEFINE row == [job EXCEPT !.phase = "indexing", !.progress = 7,
                                !.status = "in_progress"]
  <2>1. row \in JobRow
    BY DEF JobRow, JobPhase
  <2>2. Store(row)
    BY <1>13 DEF AdvanceIndexing, Advance
  <2>3. job' \in JobRow /\ durable' \in JobRow
    BY <2>1, <2>2, StoreType
  <2> QED
    BY <1>13, <2>3 DEF AdvanceIndexing, ZipStrict
<1>14. CASE Upsert
  <2>1. NewPoints \subseteq Point
    BY UploadsAssumption DEF NewPoints, Zipped, Point, Chunks, Upload
  <2>2. index' \subseteq Point
    BY <1>14, <2>1 DEF Upsert, OverwritePoints
  <2> QED
    BY <1>14, <2>2 DEF Upsert
<1>15. CASE StepRaises
  BY <1>15 DEF StepRaises, PropagateError
<1>16. CASE Complete
  <2> DEFINE row == [job EXCEPT !.phase = "ready", !.progress = 10, !.status = "complete"]
  <2>1. row \in JobRow
    BY DEF JobRow, JobPhase
  <2>2. job' \in JobRow /\ durable' \in JobRow
    BY <1>16, <2>1, StoreType DEF Complete
  <2> QED
    BY <1>16, <2>2 DEF Complete
<1>17. CASE Fail
  <2> DEFINE row == [job EXCEPT !.phase = "failed", !.status = "failed", !.error = TRUE]
  <2>1. row \in JobRow
    BY DEF JobRow, JobPhase
  <2>2. job' \in JobRow /\ durable' \in JobRow
    BY <1>17, <2>1, StoreType DEF Fail
  <2> QED
    BY <1>17, <2>2 DEF Fail
<1>18. CASE Commit
  BY <1>18 DEF Commit, CommitSession
<1>19. CASE Abandon
  BY <1>19 DEF Abandon
<1>20. CASE EditVersion
  BY <1>20 DEF EditVersion
<1>21. CASE UNCHANGED vars
  BY <1>21 DEF vars
<1> QED
  BY <1>1, <1>2, <1>3, <1>4, <1>5, <1>6, <1>7, <1>8, <1>9, <1>10, <1>11, <1>12,
     <1>13, <1>14, <1>15, <1>16, <1>17, <1>18, <1>19, <1>20, <1>21
     DEF Next, RunStep

\* The variables keep their types: in particular no run records more failed
\* embedding attempts than MAX_EMBEDDING_RETRY_ATTEMPTS.
THEOREM TypeCorrect == Spec => []TypeOK
BY InitType, NextType, PTL DEF Spec

-----------------------------------------------------------------------------
(* Checkpoints.  A path is recorded only in the phase that follows its      *)
(* step, and a step opens its file only in the phase before.                *)

PathsMatchPhase(row) ==
    /\ row.phase = "pending" => row.paths = {}
    /\ row.phase = "parsed" => row.paths = {"parsed"}
    /\ row.phase \in {"chunked", "indexing"} => row.paths = Step

PhaseMatchesControl ==
    /\ pc \in {"parse", "write_parsed", "advance_parsed"} => job.phase = "pending"
    /\ pc \in {"chunk", "write_chunked", "advance_chunked"} => job.phase = "parsed"
    /\ pc \in {"acl", "retention", "dense", "sparse", "advance_indexing"}
          => job.phase \in {"chunked", "indexing"}
    /\ pc = "upsert" => job.phase = "indexing" /\ vectors = upload.chunks

CheckpointInv ==
    /\ PathsMatchPhase(job) /\ PathsMatchPhase(durable)
    /\ durable.paths \subseteq job.paths
    /\ PhaseMatchesControl
    /\ pc = "advance_parsed" => files["parsed"] = "whole"
    /\ pc = "advance_chunked" => files["chunked"] = "whole"
    /\ CheckpointsComplete

\* Storing a row that keeps the recorded paths, or adds some, keeps both
\* views of the row consistent.
LEMMA StorePaths ==
    ASSUME NEW row, PathsMatchPhase(row), PathsMatchPhase(durable),
           durable.paths \subseteq row.paths, Store(row)
    PROVE  /\ job' = row
           /\ PathsMatchPhase(job)' /\ PathsMatchPhase(durable)'
           /\ durable'.paths \subseteq job'.paths
           /\ job'.paths \union durable'.paths = row.paths
BY DEF Store, PathsMatchPhase

LEMMA InitCheckpoint == Init => CheckpointInv
BY DEF Init, NewJob, CheckpointInv, PathsMatchPhase, PhaseMatchesControl, CheckpointsComplete

LEMMA NextCheckpoint == TypeOK /\ CheckpointInv /\ [Next]_vars => CheckpointInv'
<1> SUFFICES ASSUME TypeOK, CheckpointInv, [Next]_vars PROVE CheckpointInv'
  OBVIOUS
<1> USE DEF CheckpointInv, PhaseMatchesControl, CheckpointsComplete
<1>0. job \in JobRow /\ durable \in JobRow /\ pc \in Control
      /\ files \in [Step -> {"absent", "partial", "whole"}]
  BY DEF TypeOK
<1>1. CASE StartRun
  <2>1. job.phase \in JobPhase
    BY <1>0 DEF JobRow
  <2>2. /\ job.phase = "pending" => Dispatch(job.phase) = "parse"
        /\ job.phase = "parsed" => Dispatch(job.phase) = "chunk"
        /\ job.phase \in {"chunked", "indexing"} => Dispatch(job.phase) = "acl"
        /\ job.phase \in {"ready", "failed"} => Dispatch(job.phase) = "complete"
    BY DEF Dispatch
  <2> QED
    BY <1>1, <2>1, <2>2 DEF StartRun, JobPhase, PathsMatchPhase
<1>2. CASE ParseDocument
  BY <1>0, <1>2 DEF ParseDocument, OpenFile, PathsMatchPhase
<1>3. CASE WriteParsed
  BY <1>0, <1>3 DEF WriteParsed, FillFile, PathsMatchPhase, Step
<1>4. CASE AdvanceParsed
  <2> DEFINE row == [job EXCEPT !.phase = "parsed", !.progress = 2,
                                !.paths = @ \union {"parsed"},
                                !.fallback = FallbackFlag(upload),
                                !.status = "in_progress"]
  <2>1. job.paths = {} /\ files["parsed"] = "whole"
    BY <1>4 DEF AdvanceParsed, PathsMatchPhase
  <2>2. row.phase = "parsed" /\ row.paths = {"parsed"}
    BY <1>0, <2>1 DEF JobRow
  <2>3. Store(row)
    BY <1>4 DEF AdvanceParsed, Advance
  <2>4. PathsMatchPhase(row)
    BY <2>2 DEF PathsMatchPhase
  <2>5. /\ job' = row
        /\ PathsMatchPhase(job)' /\ PathsMatchPhase(durable)'
        /\ durable'.paths \subseteq job'.paths
        /\ job'.paths \union durable'.paths = row.paths
    <3> HIDE DEF row
    <3> QED
      BY <2>1, <2>2, <2>3, <2>4, StorePaths
  <2> QED
    BY <1>4, <2>1, <2>2, <2>5 DEF AdvanceParsed
<1>5. CASE SplitIntoChunks
  BY <1>0, <1>5 DEF SplitIntoChunks, OpenFile, PathsMatchPhase
<1>6. CASE WriteChunked
  BY <1>0, <1>6 DEF WriteChunked, FillFile, PathsMatchPhase, Step
<1>7. CASE AdvanceChunked
  <2> DEFINE row == [job EXCEPT !.phase = "chunked", !.progress = 4,
                                !.paths = @ \union {"chunked"},
                                !.status = "in_progress"]
  <2>1. job.paths = {"parsed"} /\ files["chunked"] = "whole" /\ files["parsed"] = "whole"
    BY <1>7 DEF AdvanceChunked, PathsMatchPhase
  <2>2. row.phase = "chunked" /\ row.paths = Step
    BY <1>0, <2>1 DEF JobRow, Step
  <2>3. Store(row)
    BY <1>7 DEF AdvanceChunked, Advance
  <2>4. PathsMatchPhase(row)
    BY <2>2 DEF PathsMatchPhase
  <2>5. /\ job' = row
        /\ PathsMatchPhase(job)' /\ PathsMatchPhase(durable)'
        /\ durable'.paths \subseteq job'.paths
        /\ job'.paths \union durable'.paths = row.paths
    <3> HIDE DEF row
    <3>1. durable.paths \subseteq row.paths
      BY <2>1, <2>2 DEF Step
    <3> QED
      BY <2>3, <2>4, <3>1, StorePaths
  <2>6. \A s \in Step : files[s] = "whole"
    BY <2>1 DEF Step
  <2> QED
    BY <1>7, <2>2, <2>5, <2>6 DEF AdvanceChunked
<1>8. CASE GetEffectiveAcl
  BY <1>8 DEF GetEffectiveAcl, FetchVersion, PathsMatchPhase
<1>9. CASE GetRetentionState
  BY <1>9 DEF GetRetentionState, FetchVersion, PathsMatchPhase
<1>10. CASE EmbedDense \/ EmbedSparse
  BY <1>10 DEF EmbedDense, EmbedSparse, PathsMatchPhase
<1>11. CASE EmbedUnreachable
  <2> DEFINE row == [job EXCEPT !.retry = NextAttempt(attempt), !.status = "in_progress"]
  <2>1. row.phase = job.phase /\ row.paths = job.paths
    BY <1>0 DEF JobRow
  <2>2. Store(row)
    BY <1>11 DEF EmbedUnreachable, Advance, RetryRow
  <2>3. PathsMatchPhase(row)
    BY <2>1 DEF PathsMatchPhase
  <2>4. /\ job' = row
        /\ PathsMatchPhase(job)' /\ PathsMatchPhase(durable)'
        /\ durable'.paths \subseteq job'.paths
        /\ job'.paths \union durable'.paths = row.paths
    <3> HIDE DEF row
    <3> QED
      BY <2>1, <2>2, <2>3, StorePaths
  <2> QED
    BY <1>11, <2>1, <2>4 DEF EmbedUnreachable, Embedding
<1>12. CASE EmbedGivesUp
  BY <1>12 DEF EmbedGivesUp, PathsMatchPhase
<1>13. CASE AdvanceIndexing
  <2> DEFINE row == [job EXCEPT !.phase = "indexing", !.progress = 7, !.status = "in_progress"]
  <2>1. row.phase = "indexing" /\ row.paths = job.paths
    BY <1>0 DEF JobRow
  <2>2. Store(row)
    BY <1>13 DEF AdvanceIndexing, Advance
  <2>3. PathsMatchPhase(row)
    BY <1>13, <2>1 DEF AdvanceIndexing, PathsMatchPhase
  <2>4. /\ job' = row
        /\ PathsMatchPhase(job)' /\ PathsMatchPhase(durable)'
        /\ durable'.paths \subseteq job'.paths
        /\ job'.paths \union durable'.paths = row.paths
    <3> HIDE DEF row
    <3> QED
      BY <2>1, <2>2, <2>3, StorePaths
  <2>5. pc' = "fail" \/ (pc' = "upsert" /\ vectors' = upload'.chunks)
    BY <1>13 DEF AdvanceIndexing, ZipStrict
  <2> QED
    BY <1>13, <2>1, <2>4, <2>5 DEF AdvanceIndexing
<1>14. CASE Upsert
  <2>1. pc' \in {"complete", "fail"}
    BY <1>14 DEF Upsert
  <2> QED
    BY <1>14, <2>1 DEF Upsert, PathsMatchPhase
<1>15. CASE StepRaises
  BY <1>15 DEF StepRaises, PropagateError, PathsMatchPhase
<1>16. CASE Complete
  <2> DEFINE row == [job EXCEPT !.phase = "ready", !.progress = 10, !.status = "complete"]
  <2>1. row.phase = "ready" /\ row.paths = job.paths
    BY <1>0 DEF JobRow
  <2>2. Store(row)
    BY <1>16 DEF Complete
  <2>3. PathsMatchPhase(row)
    BY <2>1 DEF PathsMatchPhase
  <2>4. /\ job' = row
        /\ PathsMatchPhase(job)' /\ PathsMatchPhase(durable)'
        /\ durable'.paths \subseteq job'.paths
        /\ job'.paths \union durable'.paths = row.paths
    <3> HIDE DEF row
    <3> QED
      BY <2>1, <2>2, <2>3, StorePaths
  <2> QED
    BY <1>16, <2>1, <2>4 DEF Complete
<1>17. CASE Fail
  <2> DEFINE row == [job EXCEPT !.phase = "failed", !.status = "failed", !.error = TRUE]
  <2>1. row.phase = "failed" /\ row.paths = job.paths
    BY <1>0 DEF JobRow
  <2>2. Store(row)
    BY <1>17 DEF Fail
  <2>3. PathsMatchPhase(row)
    BY <2>1 DEF PathsMatchPhase
  <2>4. /\ job' = row
        /\ PathsMatchPhase(job)' /\ PathsMatchPhase(durable)'
        /\ durable'.paths \subseteq job'.paths
        /\ job'.paths \union durable'.paths = row.paths
    <3> HIDE DEF row
    <3> QED
      BY <2>1, <2>2, <2>3, StorePaths
  <2> QED
    BY <1>17, <2>1, <2>4 DEF Fail
<1>18. CASE Commit
  BY <1>18 DEF Commit, CommitSession, PathsMatchPhase
<1>19. CASE Abandon
  BY <1>19 DEF Abandon, PathsMatchPhase
<1>20. CASE EditVersion
  BY <1>20 DEF EditVersion, PathsMatchPhase
<1>21. CASE UNCHANGED vars
  BY <1>21 DEF vars, PathsMatchPhase
<1> QED
  BY <1>1, <1>2, <1>3, <1>4, <1>5, <1>6, <1>7, <1>8, <1>9, <1>10, <1>11, <1>12,
     <1>13, <1>14, <1>15, <1>16, <1>17, <1>18, <1>19, <1>20, <1>21
     DEF Next, RunStep

LEMMA CheckpointInvariant == Spec => []CheckpointInv
BY TypeCorrect, InitCheckpoint, NextCheckpoint, PTL DEF Spec

\* Whatever phases are resumed and whichever store is used, a checkpoint
\* path in the job row always names a completely written file.
THEOREM CheckpointsAreComplete == Spec => []CheckpointsComplete
<1>1. CheckpointInv => CheckpointsComplete
  BY DEF CheckpointInv
<1> QED
  BY <1>1, CheckpointInvariant, PTL

-----------------------------------------------------------------------------
(* Verdicts.  A job is told ready only behind a successful upsert, or again *)
(* after it was ready already; this needs that failed jobs are not resumed. *)

Publishable == version.exists /\ Parses(upload)

Verdict(row) == row.phase = "ready" => AllChunksIndexed /\ Publishable

VerdictInv ==
    /\ Verdict(job) /\ Verdict(durable)
    /\ durable.phase \in Settled => job.phase = durable.phase
    /\ job.phase \in {"parsed", "chunked", "indexing"} => Parses(upload)
    /\ durable.phase \in {"parsed", "chunked", "indexing"} => Parses(upload)
    /\ pc \in {"write_parsed", "advance_parsed"} => Parses(upload)
    /\ pc \in {"retention", "dense", "sparse", "advance_indexing", "upsert"}
          => version.exists
    /\ pc = "fail" => job.phase \in Working
    /\ pc = "complete" => job.phase \in {"indexing", "ready"} /\ AllChunksIndexed /\ Publishable
    /\ pc = "commit" => job.phase \in Settled
    /\ index # {} => Publishable

\* An upsert leaves every chunk of the document in the index.
LEMMA UpsertIndexesAll ==
    ASSUME PhaseMatchesControl, Upsert PROVE AllChunksIndexed'
<1> SUFFICES ASSUME NEW s \in Chunks' PROVE \E p \in index' : p.seq = s
  BY DEF AllChunksIndexed
<1> DEFINE point == [seq |-> s, acl |-> seen.acl, retention |-> seen.retention]
<1>1. s \in Chunks
  BY DEF Upsert, Chunks
<1>2. s <= vectors
  BY <1>1 DEF Upsert, PhaseMatchesControl, Chunks
<1>3. point \in NewPoints
  BY <1>1, <1>2 DEF NewPoints, Zipped
<1>4. point \in index'
  BY <1>3 DEF Upsert, OverwritePoints
<1> QED
  BY <1>4

\* As long as neither changes, so does what is derived from them.
LEMMA SameIndex ==
    ASSUME index' = index, upload' = upload PROVE AllChunksIndexed' = AllChunksIndexed
BY DEF AllChunksIndexed, Chunks

LEMMA SamePublishable ==
    ASSUME version'.exists = version.exists, upload' = upload
    PROVE  Publishable' = Publishable
BY DEF Publishable

LEMMA InitVerdict == Init => VerdictInv
BY DEF Init, NewJob, VerdictInv, Verdict, Settled

LEMMA NextVerdict ==
    ASSUME TypeOK, CheckpointInv, VerdictInv, [Next]_vars,
           StartRun => job.phase # "failed"
    PROVE  VerdictInv'
<1>0. /\ job \in JobRow /\ durable \in JobRow /\ pc \in Control
      /\ job.phase \in JobPhase /\ durable.phase \in JobPhase
      /\ PhaseMatchesControl
  BY DEF TypeOK, CheckpointInv, JobRow
<1> USE DEF VerdictInv, Verdict, Settled, Working, JobPhase
<1>1. CASE StartRun
  <2>1. /\ UNCHANGED <<job, durable, index, version, upload>>
        /\ job.phase # "failed"
    BY <1>1 DEF StartRun
  <2>2. AllChunksIndexed' = AllChunksIndexed /\ Publishable' = Publishable
    BY <2>1, SameIndex, SamePublishable
  <2>3. \/ pc' \in {"parse", "chunk", "acl"}
        \/ pc' = "complete" /\ job.phase = "ready"
    BY <1>0, <1>1, <2>1 DEF StartRun, Dispatch
  <2> QED
    BY <2>1, <2>2, <2>3
<1>2. CASE ParseDocument
  <2>1. /\ UNCHANGED <<job, durable, index, version, upload>>
        /\ pc' = "write_parsed" /\ Parses(upload)
    BY <1>2 DEF ParseDocument
  <2> QED
    BY <2>1, SameIndex, SamePublishable
<1>3. CASE WriteParsed
  <2>1. /\ UNCHANGED <<job, durable, index, version, upload>>
        /\ pc = "write_parsed" /\ pc' = "advance_parsed"
    BY <1>3 DEF WriteParsed
  <2> QED
    BY <2>1, SameIndex, SamePublishable
<1>4. CASE AdvanceParsed
  <2>1. /\ UNCHANGED <<index, version, upload>>
        /\ pc = "advance_parsed" /\ pc' = "chunk"
        /\ job'.phase = "parsed"
        /\ durable' = durable \/ durable' = job'
    BY <1>0, <1>4 DEF AdvanceParsed, Advance, Store, JobRow
  <2>2. job.phase = "pending"
    BY <1>0, <2>1 DEF PhaseMatchesControl
  <2> QED
    BY <2>1, <2>2, SameIndex, SamePublishable
<1>5. CASE SplitIntoChunks
  <2>1. /\ UNCHANGED <<job, durable, index, version, upload>>
        /\ pc' = "write_chunked"
    BY <1>5 DEF SplitIntoChunks
  <2> QED
    BY <2>1, SameIndex, SamePublishable
<1>6. CASE WriteChunked
  <2>1. /\ UNCHANGED <<job, durable, index, version, upload>>
        /\ pc' = "advance_chunked"
    BY <1>6 DEF WriteChunked
  <2> QED
    BY <2>1, SameIndex, SamePublishable
<1>7. CASE AdvanceChunked
  <2>1. /\ UNCHANGED <<index, version, upload>>
        /\ pc = "advance_chunked" /\ pc' = "acl"
        /\ job'.phase = "chunked"
        /\ durable' = durable \/ durable' = job'
    BY <1>0, <1>7 DEF AdvanceChunked, Advance, Store, JobRow
  <2>2. job.phase = "parsed"
    BY <1>0, <2>1 DEF PhaseMatchesControl
  <2> QED
    BY <2>1, <2>2, SameIndex, SamePublishable
<1>8. CASE GetEffectiveAcl
  <2>1. /\ UNCHANGED <<job, durable, index, version, upload>>
        /\ pc' = "retention" /\ version.exists
    BY <1>8 DEF GetEffectiveAcl, FetchVersion
  <2> QED
    BY <2>1, SameIndex, SamePublishable
<1>9. CASE GetRetentionState
  <2>1. /\ UNCHANGED <<job, durable, index, version, upload>>
        /\ pc' = "dense" /\ version.exists
    BY <1>9 DEF GetRetentionState, FetchVersion
  <2> QED
    BY <2>1, SameIndex, SamePublishable
<1>10. CASE EmbedDense \/ EmbedSparse
  <2>1. /\ UNCHANGED <<job, durable, index, version, upload>>
        /\ pc \in {"dense", "sparse"}
        /\ pc' \in {"sparse", "advance_indexing", "fail"}
    BY <1>10 DEF EmbedDense, EmbedSparse
  <2>2. job.phase \in {"chunked", "indexing"}
    BY <1>0, <2>1 DEF PhaseMatchesControl
  <2> QED
    BY <2>1, <2>2, SameIndex, SamePublishable
<1>11. CASE EmbedUnreachable
  <2>1. /\ UNCHANGED <<index, version, upload>>
        /\ pc \in {"dense", "sparse"} /\ pc' = "dense"
        /\ job'.phase = job.phase
        /\ durable' = durable \/ durable' = job'
    BY <1>0, <1>11 DEF EmbedUnreachable, Embedding, Advance, RetryRow, Store, JobRow
  <2>2. job.phase \in {"chunked", "indexing"}
    BY <1>0, <2>1 DEF PhaseMatchesControl
  <2> QED
    BY <2>1, <2>2, SameIndex, SamePublishable
<1>12. CASE EmbedGivesUp
  <2>1. /\ UNCHANGED <<job, durable, index, version, upload>>
        /\ pc \in {"dense", "sparse"} /\ pc' = "fail"
    BY <1>12 DEF EmbedGivesUp, Embedding
  <2>2. job.phase \in {"chunked", "indexing"}
    BY <1>0, <2>1 DEF PhaseMatchesControl
  <2> QED
    BY <2>1, <2>2, SameIndex, SamePublishable
<1>13. CASE AdvanceIndexing
  <2>1. /\ UNCHANGED <<index, version, upload>>
        /\ pc = "advance_indexing" /\ pc' \in {"upsert", "fail"}
        /\ job'.phase = "indexing"
        /\ durable' = durable \/ durable' = job'
    BY <1>0, <1>13 DEF AdvanceIndexing, ZipStrict, Advance, Store, JobRow
  <2>2. job.phase \in {"chunked", "indexing"}
    BY <1>0, <2>1 DEF PhaseMatchesControl
  <2> QED
    BY <2>1, <2>2, SameIndex, SamePublishable
<1>14. CASE Upsert
  <2>1. /\ UNCHANGED <<job, durable, version, upload>>
        /\ pc = "upsert" /\ pc' \in {"complete", "fail"}
    BY <1>14 DEF Upsert
  <2>2. job.phase = "indexing"
    BY <1>0, <2>1 DEF PhaseMatchesControl
  <2>3. Publishable /\ Publishable'
    BY <2>1, <2>2, SamePublishable DEF Publishable
  <2>4. AllChunksIndexed'
    BY <1>0, <1>14, UpsertIndexesAll
  <2> QED
    BY <2>1, <2>2, <2>3, <2>4
<1>15. CASE StepRaises
  <2>1. /\ UNCHANGED <<job, durable, index, version, upload>>
        /\ pc \in Raising /\ pc' = "fail"
    BY <1>15 DEF StepRaises, PropagateError
  <2>2. job.phase \in Working
    BY <1>0, <2>1 DEF PhaseMatchesControl, Raising, Control
  <2> QED
    BY <2>1, <2>2, SameIndex, SamePublishable
<1>16. CASE Complete
  <2>1. /\ UNCHANGED <<index, version, upload>>
        /\ pc = "complete" /\ pc' = "commit"
        /\ job'.phase = "ready"
        /\ durable' = durable \/ durable' = job'
    BY <1>0, <1>16 DEF Complete, Store, JobRow
  <2> QED
    BY <2>1, SameIndex, SamePublishable
<1>17. CASE Fail
  <2>1. /\ UNCHANGED <<index, version, upload>>
        /\ pc = "fail" /\ pc' = "commit"
        /\ job'.phase = "failed"
        /\ durable' = durable \/ durable' = job'
    BY <1>0, <1>17 DEF Fail, Store, JobRow
  <2> QED
    BY <2>1, SameIndex, SamePublishable
<1>18. CASE Commit
  <2>1. /\ UNCHANGED <<index, version, upload>>
        /\ pc = "commit" /\ pc' = "idle"
        /\ job' = job /\ durable' = job
    BY <1>18 DEF Commit, CommitSession
  <2> QED
    BY <2>1, SameIndex, SamePublishable
<1>19. CASE Abandon
  <2>1. /\ UNCHANGED <<durable, index, version, upload>>
        /\ pc' = "idle" /\ job' = durable
    BY <1>19 DEF Abandon
  <2> QED
    BY <2>1, SameIndex, SamePublishable
<1>20. CASE EditVersion
  <2>1. /\ UNCHANGED <<job, durable, index, upload, pc>>
        /\ version'.exists = version.exists
    BY <1>20 DEF EditVersion, TypeOK
  <2> QED
    BY <2>1, SameIndex, SamePublishable
<1>21. CASE UNCHANGED vars
  <2>1. UNCHANGED <<job, durable, index, version, upload, pc>>
    BY <1>21 DEF vars
  <2> QED
    BY <2>1, SameIndex, SamePublishable
<1> QED
  BY <1>1, <1>2, <1>3, <1>4, <1>5, <1>6, <1>7, <1>8, <1>9, <1>10, <1>11, <1>12,
     <1>13, <1>14, <1>15, <1>16, <1>17, <1>18, <1>19, <1>20, <1>21
     DEF Next, RunStep

LEMMA VerdictInvariant ==
    ASSUME "failed" \notin Resumable PROVE Spec => []VerdictInv
<1>1. StartRun => job.phase # "failed"
  BY DEF StartRun
<1>2. TypeOK /\ CheckpointInv /\ VerdictInv /\ [Next]_vars => VerdictInv'
  BY <1>1, NextVerdict
<1> QED
  BY <1>2, TypeCorrect, CheckpointInvariant, InitVerdict, PTL DEF Spec

\* If failed jobs are never resumed, a job that is reported ready has all of
\* its chunks in the index, after any number of crashes and resumes.
THEOREM ReadyIsIndexed ==
    ASSUME "failed" \notin Resumable PROVE Spec => []ReadyMeansIndexed
<1>1. VerdictInv => ReadyMeansIndexed
  BY DEF VerdictInv, Verdict, ReadyMeansIndexed
<1> QED
  BY <1>1, VerdictInvariant, PTL

\* If failed jobs are never resumed, a document without a version row or
\* without a readable text is never indexed and never ready.
THEOREM IngestFailsClosed ==
    ASSUME "failed" \notin Resumable PROVE Spec => []FailClosed
<1>1. VerdictInv => FailClosed
  BY DEF VerdictInv, Verdict, FailClosed, Publishable
<1> QED
  BY <1>1, VerdictInvariant, PTL

-----------------------------------------------------------------------------
(* The index.  Points are written by one action only, which replaces all    *)
(* of them by points with one stamp.                                        *)

CoherentInv ==
    /\ IndexCoherent
    /\ pc = "retention" => seen.acl <= version.edits
    /\ pc \in {"dense", "sparse", "advance_indexing", "upsert"}
          => seen.acl <= seen.retention

LEMMA InitCoherent == Init => CoherentInv
BY DEF Init, CoherentInv, IndexCoherent

\* Overwriting a coherent index leaves nothing but the new points.
LEMMA UpsertReplacesIndex ==
    ASSUME IndexCoherent, PhaseMatchesControl, Upsert PROVE index' = NewPoints
<1>1. \A s \in Chunks : s \in Zipped
  BY DEF Zipped, Chunks, Upsert, PhaseMatchesControl
<1> QED
  BY <1>1 DEF IndexCoherent, Upsert, OverwritePoints

LEMMA SameCoherence ==
    ASSUME IndexCoherent, index' = index, upload' = upload PROVE IndexCoherent'
BY DEF IndexCoherent, AllChunksIndexed, Chunks

\* Every action but these five leaves the index and what was seen of the
\* version alone, and does not enter the steps that rely on it from outside.
OtherStep ==
    \/ ParseDocument \/ WriteParsed \/ AdvanceParsed
    \/ SplitIntoChunks \/ WriteChunked \/ AdvanceChunked
    \/ EmbedDense \/ EmbedSparse \/ EmbedUnreachable \/ EmbedGivesUp
    \/ AdvanceIndexing
    \/ StepRaises \/ Complete \/ Fail \/ Commit \/ Abandon

LEMMA OtherStepFrame ==
    ASSUME OtherStep
    PROVE  /\ UNCHANGED <<index, upload, version, seen>>
           /\ pc' # "retention"
           /\ pc' \in {"dense", "sparse", "advance_indexing", "upsert"}
                 => pc \in {"dense", "sparse", "advance_indexing"}
<1>1. CASE ParseDocument \/ WriteParsed \/ AdvanceParsed
  BY <1>1 DEF ParseDocument, WriteParsed, AdvanceParsed
<1>2. CASE SplitIntoChunks \/ WriteChunked \/ AdvanceChunked
  BY <1>2 DEF SplitIntoChunks, WriteChunked, AdvanceChunked
<1>3. CASE EmbedDense \/ EmbedSparse \/ EmbedUnreachable \/ EmbedGivesUp
  BY <1>3 DEF EmbedDense, EmbedSparse, EmbedUnreachable, EmbedGivesUp, Embedding
<1>4. CASE AdvanceIndexing
  BY <1>4 DEF AdvanceIndexing, ZipStrict
<1>5. CASE StepRaises \/ Complete \/ Fail \/ Commit \/ Abandon
  BY <1>5 DEF StepRaises, PropagateError, Complete, Fail, Commit, Abandon
<1> QED
  BY <1>1, <1>2, <1>3, <1>4, <1>5 DEF OtherStep

LEMMA NextCoherent ==
    TypeOK /\ CheckpointInv /\ CoherentInv /\ [Next]_vars => CoherentInv'
<1> SUFFICES ASSUME TypeOK, CheckpointInv, CoherentInv, [Next]_vars
             PROVE  CoherentInv'
  OBVIOUS
<1>0. /\ version.edits \in Nat /\ seen \in [acl : Nat, retention : Nat]
      /\ IndexCoherent /\ PhaseMatchesControl
  BY DEF TypeOK, CheckpointInv, CoherentInv
<1>1. CASE StartRun
  <2>1. UNCHANGED <<index, upload, version, seen>> /\ pc' \in {"parse", "chunk", "acl", "complete"}
    BY <1>1 DEF StartRun, Dispatch
  <2> QED
    BY <1>0, <2>1, SameCoherence DEF CoherentInv
<1>2. CASE GetEffectiveAcl
  <2>1. /\ UNCHANGED <<index, upload, version>>
        /\ pc' = "retention" /\ seen'.acl = version.edits
    BY <1>0, <1>2 DEF GetEffectiveAcl, FetchVersion
  <2> QED
    BY <1>0, <2>1, SameCoherence DEF CoherentInv
<1>3. CASE GetRetentionState
  <2>1. /\ UNCHANGED <<index, upload, version>>
        /\ pc = "retention" /\ pc' = "dense"
        /\ seen'.acl = seen.acl /\ seen'.retention = version.edits
    BY <1>0, <1>3 DEF GetRetentionState, FetchVersion
  <2> QED
    BY <1>0, <2>1, SameCoherence DEF CoherentInv
<1>4. CASE Upsert
  <2>1. index' = NewPoints
    BY <1>0, <1>4, UpsertReplacesIndex
  <2>2. AllChunksIndexed'
    BY <1>0, <1>4, UpsertIndexesAll
  <2>3. UNCHANGED <<upload, version, seen>> /\ pc = "upsert" /\ pc' \in {"complete", "fail"}
    BY <1>4 DEF Upsert
  <2>4. seen.acl <= seen.retention
    BY <2>3 DEF CoherentInv
  <2>5. \A p \in NewPoints : p.seq \in Chunks /\ p.acl = seen.acl /\ p.retention = seen.retention
    BY DEF NewPoints, Zipped
  <2>6. IndexCoherent'
    BY <2>1, <2>2, <2>3, <2>4, <2>5 DEF IndexCoherent, Chunks
  <2> QED
    BY <2>3, <2>6 DEF CoherentInv
<1>5. CASE EditVersion
  <2>1. /\ UNCHANGED <<index, upload, pc, seen>>
        /\ version'.edits = version.edits + 1
    BY <1>5 DEF EditVersion, TypeOK
  <2> QED
    BY <1>0, <2>1, SameCoherence DEF CoherentInv
<1>6. CASE OtherStep
  BY <1>0, <1>6, OtherStepFrame, SameCoherence DEF CoherentInv
<1>7. CASE UNCHANGED vars
  <2>1. UNCHANGED <<index, upload, pc, seen, version>>
    BY <1>7 DEF vars
  <2> QED
    BY <1>0, <2>1, SameCoherence DEF CoherentInv
<1> QED
  BY <1>1, <1>2, <1>3, <1>4, <1>5, <1>6, <1>7 DEF Next, RunStep, OtherStep

\* Whatever is resumed and however often, the index holds nothing or every
\* chunk of the document, under one stamp.
THEOREM IndexIsCoherent == Spec => []IndexCoherent
<1>1. CoherentInv => IndexCoherent
  BY DEF CoherentInv
<1> QED
  BY <1>1, TypeCorrect, CheckpointInvariant, InitCoherent, NextCoherent, PTL
     DEF Spec

=============================================================================
