------------------------- MODULE IngestLifecycleProofs -------------------------
(***************************************************************************)
(* IngestPipeline implements JobLifecycle, and what polls see of a job      *)
(* never goes backwards, provided that failed jobs are not resumed.         *)
(***************************************************************************)
EXTENDS IngestPipelineProofs

USE DEF given, locals

LEMMA RankValues ==
    /\ Rank["pending"] = 0 /\ Rank["parsed"] = 1 /\ Rank["chunked"] = 2
    /\ Rank["indexing"] = 3 /\ Rank["ready"] = 4 /\ Rank["failed"] = 4
BY DEF Rank, JobPhase

-----------------------------------------------------------------------------
(* Progress goes with the phase, and the committed row trails the run's.    *)

ProgressMatchesPhase(row) ==
    /\ row.phase = "pending" => row.progress = 0
    /\ row.phase = "parsed" => row.progress = 2
    /\ row.phase = "chunked" => row.progress = 4
    /\ row.phase = "indexing" => row.progress = 7
    /\ row.phase = "ready" => row.progress = 10

Trails(old, new) ==
    /\ old.progress <= new.progress
    /\ Rank[old.phase] <= Rank[new.phase]

TrailInv ==
    /\ ProgressMatchesPhase(job) /\ ProgressMatchesPhase(durable)
    /\ Trails(durable, job)

\* What a step may make of the committed row.
PollStep ==
    /\ Trails(durable, durable')
    /\ durable.phase \in Settled => durable'.phase = durable.phase

\* A run's row changes to one that trails nothing it should not.
LEMMA StoreTrails ==
    ASSUME NEW row \in JobRow, job \in JobRow, durable \in JobRow, TrailInv,
           ProgressMatchesPhase(row), Trails(job, row), Store(row),
           durable.phase \in Settled => row.phase = durable.phase
    PROVE  TrailInv' /\ PollStep
<1>1. \A p \in JobPhase : Rank[p] \in Nat
  BY RankValues DEF JobPhase
<1>2. /\ job.phase \in JobPhase /\ durable.phase \in JobPhase /\ row.phase \in JobPhase
      /\ job.progress \in Nat /\ durable.progress \in Nat /\ row.progress \in Nat
  BY DEF JobRow
<1>3. Trails(durable, row)
  BY <1>1, <1>2 DEF TrailInv, Trails
<1>4. Trails(row, row) /\ Trails(durable, durable)
  BY <1>1, <1>2 DEF Trails
<1>5. job' = row /\ (durable' = durable \/ durable' = row)
  BY DEF Store
<1> QED
  BY <1>3, <1>4, <1>5 DEF TrailInv, PollStep

LEMMA InitTrail == Init => TrailInv
BY RankValues DEF Init, NewJob, TrailInv, Trails, ProgressMatchesPhase

LEMMA NextTrail ==
    ASSUME TypeOK, CheckpointInv, VerdictInv, TrailInv, [Next]_vars
    PROVE  TrailInv' /\ PollStep
<1>0. /\ job \in JobRow /\ durable \in JobRow /\ PhaseMatchesControl
      /\ job.phase \in JobPhase /\ durable.phase \in JobPhase
      /\ job.progress \in {0, 2, 4, 7, 10}
  BY DEF TypeOK, CheckpointInv, JobRow
<1>a. Trails(job, job) /\ Trails(durable, durable)
  BY <1>0, RankValues DEF Trails, JobRow, JobPhase
<1>b. \A s \in Settled : s \notin {"pending", "parsed", "chunked", "indexing"}
  BY DEF Settled
<1>c. durable.phase \in Settled => job.phase = durable.phase
  BY DEF VerdictInv
<1>1. CASE AdvanceParsed
  <2> DEFINE row == [job EXCEPT !.phase = "parsed", !.progress = 2,
                                !.paths = @ \union {"parsed"},
                                !.fallback = FallbackFlag(upload),
                                !.status = "in_progress"]
  <2>1. FallbackFlag(upload) \in {"none", "primary", "rescue"}
    BY DEF FallbackFlag
  <2>2. job.phase = "pending" /\ Store(row)
    BY <1>0, <1>1 DEF AdvanceParsed, Advance, PhaseMatchesControl
  <2>3. row \in JobRow /\ row.phase = "parsed" /\ row.progress = 2
    BY <1>0, <2>1 DEF JobRow, JobPhase, Step
  <2>4. Trails(job, row) /\ ProgressMatchesPhase(row)
    BY <2>2, <2>3, RankValues DEF TrailInv, Trails, ProgressMatchesPhase
  <2> HIDE DEF row
  <2> QED
    BY <1>0, <1>b, <1>c, <2>2, <2>3, <2>4, StoreTrails
<1>2. CASE AdvanceChunked
  <2> DEFINE row == [job EXCEPT !.phase = "chunked", !.progress = 4,
                                !.paths = @ \union {"chunked"},
                                !.status = "in_progress"]
  <2>1. job.phase = "parsed" /\ Store(row)
    BY <1>0, <1>2 DEF AdvanceChunked, Advance, PhaseMatchesControl
  <2>2. row \in JobRow /\ row.phase = "chunked" /\ row.progress = 4
    BY <1>0 DEF JobRow, JobPhase, Step
  <2>3. Trails(job, row) /\ ProgressMatchesPhase(row)
    BY <2>1, <2>2, RankValues DEF TrailInv, Trails, ProgressMatchesPhase
  <2> HIDE DEF row
  <2> QED
    BY <1>0, <1>b, <1>c, <2>1, <2>2, <2>3, StoreTrails
<1>3. CASE EmbedUnreachable
  <2> DEFINE row == [job EXCEPT !.retry = NextAttempt(attempt), !.status = "in_progress"]
  <2>1. NextAttempt(attempt) \in 0..MaxRetry
    BY <1>3, MaxRetryAssumption DEF EmbedUnreachable, Exhausted, NextAttempt, TypeOK
  <2>2. Store(row)
    BY <1>3 DEF EmbedUnreachable, Advance, RetryRow
  <2>3. row \in JobRow /\ row.phase = job.phase /\ row.progress = job.progress
    BY <1>0, <2>1 DEF JobRow
  <2>4. Trails(job, row) /\ ProgressMatchesPhase(row)
    BY <1>a, <2>3 DEF TrailInv, Trails, ProgressMatchesPhase
  <2> HIDE DEF row
  <2> QED
    BY <1>0, <1>c, <2>2, <2>3, <2>4, StoreTrails
<1>4. CASE AdvanceIndexing
  <2> DEFINE row == [job EXCEPT !.phase = "indexing", !.progress = 7, !.status = "in_progress"]
  <2>1. job.phase \in {"chunked", "indexing"} /\ Store(row)
    BY <1>0, <1>4 DEF AdvanceIndexing, Advance, PhaseMatchesControl
  <2>2. row \in JobRow /\ row.phase = "indexing" /\ row.progress = 7
    BY <1>0 DEF JobRow, JobPhase
  <2>3. Trails(job, row) /\ ProgressMatchesPhase(row)
    BY <2>1, <2>2, RankValues DEF TrailInv, Trails, ProgressMatchesPhase
  <2> HIDE DEF row
  <2> QED
    BY <1>0, <1>b, <1>c, <2>1, <2>2, <2>3, StoreTrails
<1>5. CASE Complete
  <2> DEFINE row == [job EXCEPT !.phase = "ready", !.progress = 10, !.status = "complete"]
  <2>1. job.phase \in {"indexing", "ready"} /\ Store(row)
    BY <1>5 DEF Complete, VerdictInv
  <2>2. row \in JobRow /\ row.phase = "ready" /\ row.progress = 10
    BY <1>0 DEF JobRow, JobPhase
  <2>3. Trails(job, row) /\ ProgressMatchesPhase(row)
    BY <1>0, <2>1, <2>2, RankValues DEF Trails, ProgressMatchesPhase
  <2>4. durable.phase \in Settled => row.phase = durable.phase
    BY <1>b, <1>c, <2>1, <2>2
  <2> HIDE DEF row
  <2> QED
    BY <1>0, <2>1, <2>2, <2>3, <2>4, StoreTrails
<1>6. CASE Fail
  <2> DEFINE row == [job EXCEPT !.phase = "failed", !.status = "failed", !.error = TRUE]
  <2>1. job.phase \in {"pending", "parsed", "chunked", "indexing"} /\ Store(row)
    BY <1>6 DEF Fail, VerdictInv, Working, JobPhase, Settled
  <2>2. row \in JobRow /\ row.phase = "failed" /\ row.progress = job.progress
    BY <1>0 DEF JobRow, JobPhase
  <2>3. Trails(job, row) /\ ProgressMatchesPhase(row)
    BY <1>0, <2>1, <2>2, RankValues DEF Trails, ProgressMatchesPhase
  <2> HIDE DEF row
  <2> QED
    BY <1>0, <1>b, <1>c, <2>1, <2>2, <2>3, StoreTrails
<1>7. CASE Commit
  <2>1. job' = job /\ durable' = job
    BY <1>7 DEF Commit, CommitSession
  <2> QED
    BY <1>a, <1>c, <2>1 DEF TrailInv, PollStep
<1>8. CASE Abandon
  <2>1. job' = durable /\ durable' = durable
    BY <1>8 DEF Abandon
  <2> QED
    BY <1>a, <2>1 DEF TrailInv, PollStep
<1>9. CASE UNCHANGED <<job, durable>>
  BY <1>a, <1>9 DEF TrailInv, PollStep, ProgressMatchesPhase, Trails
<1>10. \/ AdvanceParsed \/ AdvanceChunked \/ EmbedUnreachable \/ AdvanceIndexing
       \/ Complete \/ Fail \/ Commit \/ Abandon \/ UNCHANGED <<job, durable>>
  BY DEF Next, RunStep, StartRun, ParseDocument, WriteParsed, SplitIntoChunks,
         WriteChunked, GetEffectiveAcl, GetRetentionState, FetchVersion, EmbedDense,
         EmbedSparse, EmbedGivesUp, Upsert, StepRaises, EditVersion, vars
<1> QED
  BY <1>1, <1>2, <1>3, <1>4, <1>5, <1>6, <1>7, <1>8, <1>9, <1>10

LEMMA TrailInvariant ==
    ASSUME "failed" \notin Resumable PROVE Spec => []TrailInv
<1>1. TypeOK /\ CheckpointInv /\ VerdictInv /\ TrailInv /\ [Next]_vars => TrailInv'
  BY NextTrail
<1> QED
  BY <1>1, TypeCorrect, CheckpointInvariant, VerdictInvariant, InitTrail, PTL DEF Spec

\* If failed jobs are never resumed, neither the phase nor the progress that
\* polls report ever goes back, and a verdict is final.
THEOREM PollsNeverRegress ==
    ASSUME "failed" \notin Resumable PROVE Spec => PollNeverRegresses
<1>1. TypeOK /\ CheckpointInv /\ VerdictInv /\ TrailInv /\ [Next]_vars
        => [/\ durable'.progress >= durable.progress
            /\ Rank[durable'.phase] >= Rank[durable.phase]
            /\ durable.phase \in Settled => durable'.phase = durable.phase]_durable
  <2> SUFFICES ASSUME TypeOK, CheckpointInv, VerdictInv, TrailInv, [Next]_vars
               PROVE  /\ durable'.progress >= durable.progress
                      /\ Rank[durable'.phase] >= Rank[durable.phase]
                      /\ durable.phase \in Settled => durable'.phase = durable.phase
    OBVIOUS
  <2>1. PollStep
    BY NextTrail
  <2>2. /\ durable.phase \in JobPhase /\ durable'.phase \in JobPhase
        /\ durable.progress \in Nat /\ durable'.progress \in Nat
    BY NextType DEF TypeOK, JobRow
  <2>3. Rank[durable.phase] \in Nat /\ Rank[durable'.phase] \in Nat
    BY <2>2, RankValues DEF JobPhase
  <2> QED
    BY <2>1, <2>2, <2>3 DEF PollStep, Trails
<1> QED
  BY <1>1, TypeCorrect, CheckpointInvariant, VerdictInvariant, TrailInvariant, PTL
     DEF Spec, PollNeverRegresses

\* Whatever brings a run to its finally block has set a verdict.
CommitInv == pc = "commit" => job.phase \in Settled

LEMMA NextCommit == ASSUME TypeOK, CommitInv, [Next]_vars PROVE CommitInv'
<1>0. job \in JobRow
  BY DEF TypeOK
<1>1. CASE Complete \/ Fail
  BY <1>0, <1>1 DEF Complete, Fail, Store, JobRow, CommitInv, Settled
<1>2. CASE EditVersion \/ UNCHANGED vars
  BY <1>2 DEF EditVersion, vars, CommitInv
<1>3. CASE ~(Complete \/ Fail \/ EditVersion \/ UNCHANGED vars)
  <2>1. pc' # "commit"
    BY <1>3 DEF Next, RunStep, StartRun, Dispatch, ParseDocument, WriteParsed,
           AdvanceParsed, SplitIntoChunks, WriteChunked, AdvanceChunked,
           GetEffectiveAcl, GetRetentionState, FetchVersion, EmbedDense, EmbedSparse,
           EmbedUnreachable, EmbedGivesUp, AdvanceIndexing, ZipStrict, Upsert,
           StepRaises, PropagateError, Commit, Abandon
  <2> QED
    BY <2>1 DEF CommitInv
<1> QED
  BY <1>1, <1>2, <1>3

LEMMA CommitInvariant == Spec => []CommitInv
<1>1. Init => CommitInv
  BY DEF Init, CommitInv
<1>2. TypeOK /\ CommitInv /\ [Next]_vars => CommitInv'
  BY NextCommit
<1> QED
  BY <1>1, <1>2, TypeCorrect, PTL DEF Spec

\* A run that reaches its finally block commits a verdict, also when a step
\* raised, and whatever phases are resumed.
THEOREM RunsReport == Spec => EveryRunReports
<1>1. CommitInv /\ [Next]_vars => [Commit => durable'.phase \in Settled]_vars
  BY DEF CommitInv, Commit, CommitSession
<1> QED
  BY <1>1, CommitInvariant, PTL DEF Spec, EveryRunReports

\* No run parses or splits again what an earlier one put on record, whatever
\* phases are resumed.
THEOREM NoStepIsRepeated == Spec => NoStepRepeated
<1>1. CheckpointInv /\ [Next]_vars
        => [/\ ParseDocument => "parsed" \notin durable.paths
            /\ SplitIntoChunks => "chunked" \notin durable.paths]_vars
  <2> SUFFICES ASSUME CheckpointInv
               PROVE  /\ ParseDocument => "parsed" \notin durable.paths
                      /\ SplitIntoChunks => "chunked" \notin durable.paths
    OBVIOUS
  <2>1. pc = "parse" => job.paths = {}
    BY DEF CheckpointInv, PhaseMatchesControl, PathsMatchPhase
  <2>2. pc = "chunk" => job.paths = {"parsed"}
    BY DEF CheckpointInv, PhaseMatchesControl, PathsMatchPhase
  <2> QED
    BY <2>1, <2>2 DEF CheckpointInv, ParseDocument, SplitIntoChunks
<1> QED
  BY <1>1, CheckpointInvariant, PTL DEF Spec, NoStepRepeated

-----------------------------------------------------------------------------
(* What the two stores make of an abandoned run, and of polls.             *)

\* Without a transaction the row is committed as it is written, and with one
\* only when a run is over.
StoreInv ==
    /\ transactional = FALSE => durable = job
    /\ transactional = TRUE => durable.phase \in Settled \union {"pending"}

LEMMA InitStore == Init => StoreInv
BY DEF Init, NewJob, StoreInv

LEMMA NextStore == ASSUME CommitInv, StoreInv, [Next]_vars PROVE StoreInv'
<1>0. UNCHANGED transactional
  BY DEF Next, RunStep, StartRun, ParseDocument, WriteParsed, AdvanceParsed,
         SplitIntoChunks, WriteChunked, AdvanceChunked, GetEffectiveAcl,
         GetRetentionState, FetchVersion, EmbedDense, EmbedSparse, EmbedUnreachable,
         EmbedGivesUp, AdvanceIndexing, Upsert, StepRaises, Complete, Fail, Commit,
         Abandon, EditVersion, vars
<1>1. ASSUME NEW row, Store(row) PROVE StoreInv'
  <2>1. /\ job' = row
        /\ durable' = IF transactional THEN durable ELSE row
    BY <1>1 DEF Store
  <2>2. transactional = FALSE => durable' = job'
    BY <2>1
  <2>3. transactional = TRUE => durable' = durable
    BY <2>1
  <2> QED
    BY <1>0, <2>2, <2>3 DEF StoreInv
<1>2. CASE AdvanceParsed \/ AdvanceChunked \/ EmbedUnreachable \/ AdvanceIndexing
           \/ Complete \/ Fail
  <2>1. PICK row : Store(row)
    BY <1>2 DEF AdvanceParsed, AdvanceChunked, EmbedUnreachable, AdvanceIndexing,
                Advance, Complete, Fail
  <2> QED
    BY <1>1, <2>1
<1>3. CASE Commit
  BY <1>0, <1>3 DEF Commit, CommitSession, CommitInv, StoreInv
<1>4. CASE Abandon
  BY <1>0, <1>4 DEF Abandon, StoreInv
<1>5. CASE UNCHANGED <<job, durable>>
  BY <1>0, <1>5 DEF StoreInv
<1>6. \/ AdvanceParsed \/ AdvanceChunked \/ EmbedUnreachable \/ AdvanceIndexing
      \/ Complete \/ Fail \/ Commit \/ Abandon \/ UNCHANGED <<job, durable>>
  BY DEF Next, RunStep, StartRun, ParseDocument, WriteParsed, SplitIntoChunks,
         WriteChunked, GetEffectiveAcl, GetRetentionState, FetchVersion, EmbedDense,
         EmbedSparse, EmbedGivesUp, Upsert, StepRaises, EditVersion, vars
<1> QED
  BY <1>2, <1>3, <1>4, <1>5, <1>6

LEMMA StoreInvariant == Spec => []StoreInv
<1>1. CommitInv /\ StoreInv /\ [Next]_vars => StoreInv'
  BY NextStore
<1> QED
  BY <1>1, InitStore, CommitInvariant, PTL DEF Spec

\* With InMemoryJobStore an abandoned run does keep its checkpoints, wherever
\* it stops: that a dying process loses them is the doing of the transaction
\* around SqlAlchemyJobStore alone.
THEOREM MemoryKeepsCheckpoint ==
    ASSUME Stores = {FALSE} PROVE Spec => CrashKeepsCheckpoint
<1>1. TypeOK /\ StoreInv /\ [Next]_vars => [Abandon => job'.paths = job.paths]_vars
  <2> SUFFICES ASSUME TypeOK, StoreInv, Abandon PROVE job'.paths = job.paths
    OBVIOUS
  <2>1. transactional = FALSE
    BY DEF TypeOK
  <2> QED
    BY <2>1 DEF StoreInv, Abandon
<1> QED
  BY <1>1, TypeCorrect, StoreInvariant, PTL DEF Spec, CrashKeepsCheckpoint

\* With SqlAlchemyJobStore the committed row, which polls and restarts read,
\* goes from pending to the verdict at once: no phase in between is ever seen,
\* and a run that was abandoned before its commit has left no trace in it.
CommittedIsPendingOrSettled == durable.phase \in Settled \union {"pending"}

\* Whatever becomes of its runs, the committed row of a job in the database is
\* as it was created or has a verdict.
THEOREM TransactionHidesPhases ==
    ASSUME Stores = {TRUE} PROVE Spec => []CommittedIsPendingOrSettled
<1>1. TypeOK /\ StoreInv => CommittedIsPendingOrSettled
  <2> SUFFICES ASSUME TypeOK, StoreInv PROVE CommittedIsPendingOrSettled
    OBVIOUS
  <2>1. transactional = TRUE
    BY DEF TypeOK
  <2> QED
    BY <2>1 DEF StoreInv, CommittedIsPendingOrSettled
<1> QED
  BY <1>1, TypeCorrect, StoreInvariant, PTL

-----------------------------------------------------------------------------
(* Runs end.                                                               *)

\* How many steps a run that meets no outage has yet to take at most.
StepsLeft ==
    CASE pc = "idle"              -> 0
      [] pc = "commit"            -> 1
      [] pc \in {"fail", "complete"} -> 2
      [] pc = "upsert"            -> 3
      [] pc = "advance_indexing"  -> 4
      [] pc = "sparse"            -> 5
      [] pc = "dense"             -> 6
      [] pc = "retention"         -> 7
      [] pc = "acl"               -> 8
      [] pc = "advance_chunked"   -> 9
      [] pc = "write_chunked"     -> 10
      [] pc = "chunk"             -> 11
      [] pc = "advance_parsed"    -> 12
      [] pc = "write_parsed"      -> 13
      [] pc = "parse"             -> 14

\* An attempt at embedding is two calls, and each one that is left may cost
\* as much.
VariantOf(steps, failures) == steps + 2 * (MaxRetry - failures)
Variant == VariantOf(StepsLeft, attempt)

LEMMA VariantBounds ==
    ASSUME NEW steps \in 0..14, NEW failures \in 0..MaxRetry
    PROVE  VariantOf(steps, failures) \in 0..(14 + 2 * MaxRetry)
BY MaxRetryAssumption DEF VariantOf

LEMMA VariantType == TypeOK => Variant \in 0..(14 + 2 * MaxRetry)
<1>1. TypeOK => StepsLeft \in 0..14 /\ attempt \in 0..MaxRetry
  BY DEF TypeOK, Control, StepsLeft
<1> QED
  BY <1>1, VariantBounds DEF Variant

\* Whatever goes wrong, a step of a run leaves it fewer steps to take; only
\* the start of a run makes them more.
VariantDecreases ==
    [][/\ RunStep => Variant' < Variant
       /\ ~StartRun => Variant' <= Variant]_vars

LEMMA RunStepDecreases == ASSUME TypeOK, RunStep PROVE Variant' < Variant
<1>0. attempt \in 0..MaxRetry /\ MaxRetry \in Nat
  BY MaxRetryAssumption DEF TypeOK
<1> USE DEF Variant, VariantOf, StepsLeft
<1>1. CASE ParseDocument \/ WriteParsed \/ AdvanceParsed
  BY <1>0, <1>1 DEF ParseDocument, WriteParsed, AdvanceParsed
<1>2. CASE SplitIntoChunks \/ WriteChunked \/ AdvanceChunked
  BY <1>0, <1>2 DEF SplitIntoChunks, WriteChunked, AdvanceChunked
<1>3. CASE GetEffectiveAcl \/ GetRetentionState
  BY <1>0, <1>3 DEF GetEffectiveAcl, GetRetentionState, FetchVersion
<1>4. CASE EmbedDense \/ EmbedSparse
  BY <1>0, <1>4 DEF EmbedDense, EmbedSparse
<1>5. CASE EmbedUnreachable
  <2>1. /\ attempt' = attempt + 1 /\ attempt + 1 <= MaxRetry
        /\ pc \in {"dense", "sparse"} /\ pc' = "dense"
    BY <1>0, <1>5 DEF EmbedUnreachable, Embedding, NextAttempt, Exhausted
  <2> QED
    BY <1>0, <2>1
<1>6. CASE EmbedGivesUp
  BY <1>0, <1>6 DEF EmbedGivesUp, Embedding
<1>7. CASE AdvanceIndexing
  BY <1>0, <1>7 DEF AdvanceIndexing, ZipStrict
<1>8. CASE Upsert
  <2>1. UNCHANGED attempt /\ pc = "upsert" /\ pc' \in {"complete", "fail"}
    BY <1>8 DEF Upsert
  <2> QED
    BY <1>0, <2>1
<1>9. CASE StepRaises
  BY <1>0, <1>9 DEF StepRaises, PropagateError, Raising, Control
<1>10. CASE Complete \/ Fail \/ Commit
  BY <1>0, <1>10 DEF Complete, Fail, Commit
<1> QED
  BY <1>1, <1>2, <1>3, <1>4, <1>5, <1>6, <1>7, <1>8, <1>9, <1>10 DEF RunStep

\* Every run is over after at most 14 + 2 * MaxRetry of its steps, for any
\* retry limit and whichever of its steps fail: the retry loop cannot hang a
\* job.  This is all of RunEnds but the fairness of the thread.
THEOREM RunsAreBounded ==
    Spec => [](Variant \in 0..(14 + 2 * MaxRetry)) /\ VariantDecreases
<1>1. TypeOK /\ [Next]_vars
        => [/\ RunStep => Variant' < Variant
            /\ ~StartRun => Variant' <= Variant]_vars
  <2> SUFFICES ASSUME TypeOK, [Next]_vars
               PROVE  /\ RunStep => Variant' < Variant
                      /\ ~StartRun => Variant' <= Variant
    OBVIOUS
  <2>1. RunStep => Variant' < Variant
    BY RunStepDecreases
  <2>2. Variant \in Nat
    BY VariantType, MaxRetryAssumption
  <2>3. Variant' \in Nat
    <3>1. StepsLeft' \in 0..14 /\ attempt' \in 0..MaxRetry
      BY NextType DEF TypeOK, Control, StepsLeft
    <3>2. VariantOf(StepsLeft', attempt') \in 0..(14 + 2 * MaxRetry)
      BY <3>1, VariantBounds
    <3> QED
      BY <3>2, MaxRetryAssumption DEF Variant
  <2>4. CASE Abandon
    <3>1. UNCHANGED attempt /\ StepsLeft' = 0 /\ StepsLeft \in Nat
      BY <2>4 DEF Abandon, StepsLeft, TypeOK, Control
    <3>2. attempt \in Nat /\ MaxRetry \in Nat
      BY MaxRetryAssumption DEF TypeOK
    <3> QED
      BY <2>1, <3>1, <3>2 DEF Variant, VariantOf
  <2>5. CASE EditVersion \/ UNCHANGED vars
    <3>1. UNCHANGED <<pc, attempt>>
      BY <2>5 DEF EditVersion, vars
    <3>2. Variant' = Variant
      BY <3>1 DEF Variant, StepsLeft
    <3> QED
      BY <2>1, <2>2, <3>2
  <2> QED
    BY <2>1, <2>2, <2>3, <2>4, <2>5 DEF Next
<1>2. TypeOK => Variant \in 0..(14 + 2 * MaxRetry)
  BY VariantType
<1> QED
  BY <1>1, <1>2, TypeCorrect, PTL DEF Spec, VariantDecreases

-----------------------------------------------------------------------------
(* Refinement.  The committed phase is the abstract one, and the document   *)
(* is searchable when all of its chunks are indexed.                        *)

LEMMA SameVocabulary == Lifecycle!Working = Working /\ Lifecycle!Rank = Rank
BY DEF Working, Rank, JobPhase, Settled, Lifecycle!Working, Lifecycle!Rank,
       Lifecycle!JobPhase, Lifecycle!Settled

LEMMA InitRefines == Init => Lifecycle!Init
BY DEF Init, NewJob, Lifecycle!Init, AllChunksIndexed

\* A step that leaves the index and the upload alone moves the abstract
\* phase forward or not at all, and to "ready" only behind the index.
LEMMA RowStepRefines ==
    ASSUME TypeOK, TypeOK', VerdictInv', PollStep, index' = index, upload' = upload
    PROVE  [Lifecycle!Next]_(Lifecycle!vars)
<1>1. durable.phase \in JobPhase /\ durable'.phase \in JobPhase
  BY DEF TypeOK, JobRow
<1>2. AllChunksIndexed' = AllChunksIndexed
  BY SameIndex
<1>3. CASE durable'.phase = durable.phase
  BY <1>2, <1>3 DEF Lifecycle!vars
<1>4. ASSUME durable'.phase # durable.phase PROVE durable.phase \in Working
  BY <1>1, <1>4 DEF PollStep, Working
<1>5. ASSUME durable'.phase # durable.phase, durable'.phase \in Working PROVE Lifecycle!Work
  <2>1. Rank[durable'.phase] > Rank[durable.phase]
    BY <1>1, <1>4, <1>5, RankValues DEF PollStep, Trails, Working, Settled, JobPhase
  <2> QED
    BY <1>2, <1>4, <1>5, <2>1, SameVocabulary DEF Lifecycle!Work
<1>6. ASSUME durable'.phase # durable.phase, durable'.phase = "ready" PROVE Lifecycle!Finish
  <2>1. AllChunksIndexed'
    BY <1>6 DEF VerdictInv, Verdict
  <2> QED
    BY <1>2, <1>4, <1>6, <2>1, SameVocabulary DEF Lifecycle!Finish
<1>7. ASSUME durable'.phase # durable.phase, durable'.phase = "failed" PROVE Lifecycle!GiveUp
  BY <1>2, <1>4, <1>7, SameVocabulary DEF Lifecycle!GiveUp
<1>8. durable'.phase \in Working \/ durable'.phase = "ready" \/ durable'.phase = "failed"
  BY <1>1 DEF Working, Settled
<1> QED
  BY <1>3, <1>5, <1>6, <1>7, <1>8 DEF Lifecycle!Next

LEMMA UpsertRefines ==
    ASSUME TypeOK, CheckpointInv, VerdictInv, Upsert PROVE Lifecycle!Publish
<1>1. AllChunksIndexed'
  BY UpsertIndexesAll DEF CheckpointInv
<1>2. job.phase = "indexing" /\ durable' = durable
  BY DEF Upsert, CheckpointInv, PhaseMatchesControl
<1>3. durable.phase \in Working
  BY <1>2 DEF TypeOK, JobRow, VerdictInv, Settled, Working
<1>4. AllChunksIndexed' = TRUE
  BY <1>1 DEF AllChunksIndexed
<1> QED
  BY <1>2, <1>3, <1>4, SameVocabulary DEF Lifecycle!Publish

LEMMA NextRefines ==
    ASSUME TypeOK, TypeOK', CheckpointInv, VerdictInv, VerdictInv', TrailInv, [Next]_vars
    PROVE  [Lifecycle!Next]_(Lifecycle!vars)
<1>1. CASE Upsert
  BY <1>1, UpsertRefines DEF Lifecycle!Next
<1>2. CASE ~Upsert
  <2>1. UNCHANGED <<index, upload>>
    BY <1>2 DEF Next, RunStep, StartRun, ParseDocument, WriteParsed, AdvanceParsed,
           SplitIntoChunks, WriteChunked, AdvanceChunked, GetEffectiveAcl,
           GetRetentionState, FetchVersion, EmbedDense, EmbedSparse, EmbedUnreachable,
           EmbedGivesUp, AdvanceIndexing, StepRaises, Complete, Fail, Commit, Abandon, EditVersion, vars
  <2>2. PollStep
    BY NextTrail
  <2> QED
    BY <2>1, <2>2, RowStepRefines
<1> QED
  BY <1>1, <1>2

\* If failed jobs are never resumed, polls of the pipeline's jobs see what
\* JobLifecycle promises: forward steps, "ready" only of a searchable
\* document, verdicts that stay.
THEOREM PipelineImplementsLifecycle ==
    ASSUME "failed" \notin Resumable PROVE Spec => ImplementsLifecycle
<1>1. TypeOK /\ TypeOK' /\ CheckpointInv /\ VerdictInv /\ VerdictInv' /\ TrailInv /\ [Next]_vars
        => [Lifecycle!Next]_(Lifecycle!vars)
  BY NextRefines
<1> QED
  BY <1>1, InitRefines, TypeCorrect, CheckpointInvariant, VerdictInvariant, TrailInvariant, PTL
     DEF Spec, ImplementsLifecycle, Lifecycle!Spec

=============================================================================
