-------------------------- MODULE IngestPromiseProofs --------------------------
(***************************************************************************)
(* What the service keeps of the pipeline's guarantees, and what it makes   *)
(* of them for its clients: IngestService implements JobLifecycle and       *)
(* UploadPromise.                                                           *)
(***************************************************************************)
EXTENDS IngestServiceProofs

USE DEF given, locals

-----------------------------------------------------------------------------
(* The pipeline's invariants, of which ServiceInvariant speaks but in part. *)

CarriedInv == TypeOK /\ CheckpointInv /\ CoherentInv /\ CommitInv /\ StoreInv

LEMMA RowsAppearCarried == ASSUME CarriedInv, RowsAppear PROVE CarriedInv'
<1>1. TypeOK'
  BY RowsAppearType DEF CarriedInv
<1>2. UNCHANGED <<job, durable, files, index, upload, transactional, pc, vectors, seen>>
  BY DEF RowsAppear
<1>3. version'.edits = version.edits
  BY DEF RowsAppear, CarriedInv, TypeOK
<1>4. CheckpointInv'
  BY <1>2 DEF CarriedInv, CheckpointInv, PathsMatchPhase, PhaseMatchesControl,
              CheckpointsComplete
<1>5. CoherentInv'
  BY <1>2, <1>3, SameCoherence DEF CarriedInv, CoherentInv
<1>6. CommitInv' /\ StoreInv'
  BY <1>2 DEF CarriedInv, CommitInv, StoreInv
<1> QED
  BY <1>1, <1>4, <1>5, <1>6 DEF CarriedInv

LEMMA CarriedInvariant == ServiceSpec => []CarriedInv
<1>1. ServiceInit => CarriedInv
  BY InitType, InitCheckpoint, InitCoherent, InitStore
     DEF ServiceInit, CarriedInv, CommitInv, Init
<1>2. ServiceInv /\ IdleInv /\ CarriedInv /\ [ServiceNext]_all => CarriedInv'
  <2> SUFFICES ASSUME ServiceInv, IdleInv, CarriedInv, [ServiceNext]_all
               PROVE  CarriedInv'
    OBVIOUS
  <2>1. [Next]_vars \/ RowsAppear
    BY ServiceStepIsPipelineStep DEF IdleInv
  <2>2. CASE [Next]_vars
    BY <2>2, NextType, NextCheckpoint, NextCoherent, NextCommit, NextStore
       DEF CarriedInv
  <2> QED
    BY <2>1, <2>2, RowsAppearCarried
<1> QED
  BY <1>1, <1>2, ServiceInvariant, PTL DEF ServiceSpec

\* In the service as in the pipeline, with a process that may die and an
\* admin who edits meanwhile, recorded checkpoints are whole files.
THEOREM ServiceCheckpointsAreComplete == ServiceSpec => []CheckpointsComplete
<1>1. CarriedInv => CheckpointsComplete
  BY DEF CarriedInv, CheckpointInv
<1> QED
  BY <1>1, CarriedInvariant, PTL

\* In the service, too, the index holds nothing of an upload or every chunk
\* of it, under one reading of the version row.
THEOREM ServiceIndexIsCoherent == ServiceSpec => []IndexCoherent
<1>1. CarriedInv => IndexCoherent
  BY DEF CarriedInv, CoherentInv
<1> QED
  BY <1>1, CarriedInvariant, PTL

\* A job the service calls ready is indexed.  No assumption on the phases that
\* are resumed is needed, as it is for the pipeline by itself: the service
\* starts one run for an upload, and starts it from the beginning.
THEOREM ServiceReadyIsIndexed == ServiceSpec => []ReadyMeansIndexed
<1>1. PipelineInv => ReadyMeansIndexed
  BY DEF PipelineInv, VerdictInv, Verdict, ReadyMeansIndexed
<1> QED
  BY <1>1, PollInvariant, PTL

\* The service indexes nothing whose version row or text is missing, and never
\* calls it ready.
THEOREM ServiceFailsClosed == ServiceSpec => []FailClosed
<1>1. PipelineInv => FailClosed
  BY DEF PipelineInv, VerdictInv, Verdict, FailClosed, Publishable
<1> QED
  BY <1>1, PollInvariant, PTL

-----------------------------------------------------------------------------
(* The verdict of an acknowledged upload.                                  *)

\* A background run that has left its thread has committed a verdict, unless
\* something went down.
ClosedInv ==
    /\ ClosedIsSettled
    /\ post = "running" /\ pc = "idle" /\ fault = "none" => durable.phase \in Settled

LEMMA NextClosed ==
    ASSUME ServiceTypeOK, ServiceInv, CommitInv, ClosedInv, [ServiceNext]_all
    PROVE  ClosedInv'
<1>0. Rejection(request) \in {0, 400, 401, 415, 500}
  BY RequestsAssumption, RejectionDecides DEF ServiceTypeOK
<1> USE DEF ClosedInv, ClosedIsSettled
<1>1. CASE Reject
  BY <1>0, <1>1 DEF Reject
<1>2. CASE CreateRows \/ CommitRows \/ ResolveTarget \/ ReadFile \/ Schedule \/ Respond
  BY <1>2 DEF CreateRows, CommitRows, ResolveTarget, ReadFile, Schedule, Respond
<1>3. CASE CommitUnanswered \/ HandlerRaises
  BY <1>3 DEF CommitUnanswered, HandlerRaises
<1>4. CASE StartBackground
  <2>1. pc' # "idle" /\ post' = "running"
    BY <1>4 DEF StartBackground, StartRun, Dispatch
  <2> QED
    BY <2>1
<1>5. CASE BackgroundStep
  <2>1. pc # "idle" /\ post' = "running"
    BY <1>5, RunStepFrame DEF BackgroundStep, service, ServiceInv
  <2>2. CASE Commit
    BY <2>1, <2>2 DEF Commit, CommitSession, CommitInv
  <2>3. CASE ~Commit
    <3>1. pc' # "idle"
      BY <1>5, <2>3 DEF BackgroundStep, RunStep, ParseDocument, WriteParsed,
             AdvanceParsed, SplitIntoChunks, WriteChunked, AdvanceChunked,
             GetEffectiveAcl, GetRetentionState, FetchVersion, EmbedDense, EmbedSparse,
             EmbedUnreachable, EmbedGivesUp, AdvanceIndexing, ZipStrict, Upsert,
             StepRaises, PropagateError, Complete, Fail
    <3> QED
      BY <2>1, <3>1
  <2> QED
    BY <2>2, <2>3
<1>6. CASE SessionLost \/ Die
  BY <1>6 DEF SessionLost, Die
<1>7. CASE Teardown
  BY <1>7 DEF Teardown, vars
<1>8. CASE AdminEdits \/ Poll \/ UNCHANGED all
  BY <1>8 DEF AdminEdits, EditVersion, service, Poll, all, vars
<1> QED
  BY <1>1, <1>2, <1>3, <1>4, <1>5, <1>6, <1>7, <1>8 DEF ServiceNext, Handler

\* When an acknowledged request is over and nothing went down under it, its
\* job has a verdict on record: the safety half of AcknowledgedSettles, and
\* true whatever phases are resumed.
THEOREM ClosedUploadsAreSettled == ServiceSpec => []ClosedIsSettled
<1>1. ServiceInit => ClosedInv
  BY DEF ServiceInit, ClosedInv, ClosedIsSettled
<1>2. ServiceTypeOK /\ ServiceInv /\ CommitInv /\ ClosedInv /\ [ServiceNext]_all
        => ClosedInv'
  BY NextClosed
<1>3. CarriedInv => CommitInv
  BY DEF CarriedInv
<1>4. ClosedInv => ClosedIsSettled
  BY DEF ClosedInv
<1> QED
  BY <1>1, <1>2, <1>3, <1>4, ServiceInvariant, CarriedInvariant, PTL DEF ServiceSpec

-----------------------------------------------------------------------------
(* What polls tell of the phases.                                          *)

PollHidesPhases == polled.status \in {"unknown", "pending", "ready", "failed"}

\* With SqlAlchemyJobStore no poll ever answers "parsing" or "indexing": the
\* run's transaction hides the phases its advance() calls record.
THEOREM PollsHidePhases ==
    ASSUME Stores = {TRUE} PROVE ServiceSpec => []PollHidesPhases
<1>1. ServiceInit => PollHidesPhases
  BY DEF ServiceInit, PollHidesPhases
<1>2. CarriedInv /\ PollHidesPhases /\ [ServiceNext]_all => PollHidesPhases'
  <2> SUFFICES ASSUME CarriedInv, PollHidesPhases, [ServiceNext]_all
               PROVE  PollHidesPhases'
    OBVIOUS
  <2>1. durable.phase \in {"pending", "ready", "failed"}
    <3>1. transactional = TRUE
      BY DEF CarriedInv, TypeOK
    <3> QED
      BY <3>1 DEF CarriedInv, StoreInv, Settled
  <2>2. CASE Poll
    BY <2>1, <2>2 DEF Poll, StatusOfJob, NotFound, MapPhaseToStatus, PollHidesPhases
  <2>3. CASE ~Poll
    <3>1. polled' = polled
      BY <2>3 DEF ServiceNext, Handler, Reject, CreateRows, CommitRows, ResolveTarget,
         ReadFile, Schedule, Respond, CommitUnanswered, HandlerRaises, StartBackground,
         BackgroundStep, service, SessionLost, Teardown, AdminEdits, Die, all
    <3> QED
      BY <3>1 DEF PollHidesPhases
  <2> QED
    BY <2>2, <2>3
<1> QED
  BY <1>1, <1>2, CarriedInvariant, PTL DEF ServiceSpec

-----------------------------------------------------------------------------
(* Refinement.                                                             *)

\* Inside the service, with its crashes and its other actors, the committed
\* job still goes through the life that JobLifecycle promises.
THEOREM ServiceImplementsLifecycle == ServiceSpec => ImplementsLifecycle
<1>1. ServiceInit => Lifecycle!Init
  BY InitRefines DEF ServiceInit
<1>2. ServiceInv /\ IdleInv /\ PipelineInv /\ PipelineInv' /\ [ServiceNext]_all
        => [Lifecycle!Next]_(Lifecycle!vars)
  <2> SUFFICES ASSUME ServiceInv, IdleInv, PipelineInv, PipelineInv', [ServiceNext]_all
               PROVE  [Lifecycle!Next]_(Lifecycle!vars)
    OBVIOUS
  <2>1. [Next]_vars \/ RowsAppear
    BY ServiceStepIsPipelineStep DEF IdleInv
  <2>2. CASE [Next]_vars
    BY <2>2, NextRefines DEF PipelineInv
  <2>3. CASE RowsAppear
    BY <2>3, SameIndex DEF RowsAppear, Lifecycle!vars
  <2> QED
    BY <2>1, <2>2, <2>3
<1> QED
  BY <1>1, <1>2, ServiceInvariant, PollInvariant, PTL
     DEF ServiceSpec, ImplementsLifecycle, Lifecycle!Spec

\* Nothing becomes of a job before its upload was acknowledged, and polls
\* know of none that was turned away.
PromiseInv ==
    /\ response # 200 => durable.phase = "pending" /\ pc = "idle"
    /\ response \in {400, 401, 415} => polled.status = "unknown"

\* A row of the job is committed by a run only, and runs come after the answer.
LEMMA NextPromise ==
    ASSUME ServiceRest, PollInv, PromiseInv, [ServiceNext]_all
    PROVE  PromiseInv'
<1>0. Rejection(request) \in {0, 400, 401, 415, 500}
  BY RequestsAssumption, RejectionDecides DEF ServiceRest, ServiceTypeOK
<1> USE DEF ServiceRest, ServiceInv, PromiseInv
<1>1. CASE Handler
  BY <1>0, <1>1 DEF Handler, Reject, CreateRows, CommitRows, ResolveTarget, ReadFile,
     Schedule, Respond, CommitUnanswered, HandlerRaises, PollInv, vars
<1>2. CASE StartBackground \/ BackgroundStep \/ SessionLost
  <2>1. response = 200
    BY <1>2, RunStepFrame DEF StartBackground, Dispatchable, BackgroundStep, SessionLost,
                              Abandon
  <2> QED
    BY <1>2, <2>1 DEF StartBackground, BackgroundStep, service, SessionLost
<1>3. CASE Die
  BY <1>3 DEF Die
<1>4. CASE Teardown \/ AdminEdits \/ UNCHANGED all
  BY <1>4 DEF Teardown, AdminEdits, EditVersion, service, all, vars
<1>5. CASE Poll
  BY <1>5 DEF Poll, NotFound, vars
<1> QED
  BY <1>1, <1>2, <1>3, <1>4, <1>5 DEF ServiceNext

LEMMA PromiseInvariant == ServiceSpec => []PromiseInv
<1>1. ServiceInit => PromiseInv
  BY DEF ServiceInit, Init, NewJob, PromiseInv
<1>2. ServiceTypeOK /\ ServiceInv /\ IdleInv /\ PipelineInv /\ PollInv /\ PromiseInv
        /\ [ServiceNext]_all => PromiseInv'
  BY NextPromise DEF ServiceRest
<1> QED
  BY <1>1, <1>2, ServiceInvariant, PollInvariant, PTL DEF ServiceSpec

LEMMA PromiseVocabulary ==
    /\ Promise!Settled = Settled /\ Promise!ApiStatus = ApiStatus
    /\ \A s : Promise!StatusRank(s) = StatusRank(s)
BY DEF Promise!Settled, Settled, Promise!ApiStatus, ApiStatus, Promise!StatusRank, StatusRank

\* Below the verdicts a status is told by its rank.
LEMMA StatusRankIsInjective ==
    ASSUME NEW s \in ApiStatus, NEW t \in ApiStatus \union {"unknown"},
           StatusRank(t) <= StatusRank(s), s # t
    PROVE  StatusRank(t) < StatusRank(s) \/ t \in Settled
BY DEF ApiStatus, StatusRank, Settled

\* A poll that answers something new tells a later status, and for a reason.
LEMMA PollKeepsPromise ==
    ASSUME ServiceRest, PollInv, PromiseInv, Poll
    PROVE  [Promise!Next]_(Promise!vars)
<1>1. /\ UNCHANGED <<durable, index, upload, response, rows>>
      /\ AllChunksIndexed' = AllChunksIndexed
  BY SameIndex DEF Poll, vars
<1>2. CASE rows # "committed"
  <2>1. polled.status = "unknown" /\ polled'.status = "unknown"
    BY <1>2 DEF Poll, NotFound, PollInv
  <2> QED
    BY <1>1, <2>1 DEF Promise!vars
<1>3. CASE rows = "committed" /\ polled'.status # polled.status
  <2> DEFINE status == MapPhaseToStatus(durable.phase)
  <2>1. durable.phase \in JobPhase /\ polled \in Answer
    BY DEF ServiceRest, PipelineInv, TypeOK, JobRow, ServiceTypeOK
  <2>2. polled' = StatusOfJob /\ polled'.status = status
    BY <1>3 DEF Poll, StatusOfJob
  <2>3. /\ status \in ApiStatus
        /\ status = "pending" <=> durable.phase = "pending"
        /\ status = "ready" => durable.phase = "ready"
    BY <2>1 DEF MapPhaseToStatus, ApiStatus, JobPhase
  <2> HIDE DEF status
  <2>4. StatusRank(status) > StatusRank(polled.status)
    <3>1. polled.status \in ApiStatus \union {"unknown"}
      BY <2>1 DEF Answer
    <3>2. polled.status \notin Settled
      BY <1>3, <2>2 DEF PollInv
    <3>3. StatusRank(polled.status) \in Nat /\ StatusRank(status) \in 1..4
      BY <2>3, <3>1 DEF StatusRank, ApiStatus
    <3>4. CASE polled.code = 200
      <4>1. StatusRank(polled.status) <= StatusRank(status)
        BY <3>4 DEF PollInv, status
      <4> QED
        BY <1>3, <2>2, <2>3, <3>1, <3>2, <3>3, <4>1, StatusRankIsInjective
    <3>5. CASE polled.code # 200
      BY <3>3, <3>5 DEF PollInv, StatusRank
    <3> QED
      BY <3>4, <3>5
  <2>5. response \notin Promise!TurnedAway
    BY <1>3 DEF ServiceRest, ServiceInv, Promise!TurnedAway
  <2>6. status # "pending" => response = 200
    BY <2>3 DEF PromiseInv
  <2>7. status = "ready" => AllChunksIndexed
    BY <2>3 DEF ServiceRest, PipelineInv, VerdictInv, Verdict
  <2>8. Promise!Tell(status)
    BY <1>1, <2>2, <2>4, <2>5, <2>6, <2>7, PromiseVocabulary DEF Promise!Tell
  <2> QED
    BY <2>3, <2>8, PromiseVocabulary DEF Promise!Next
<1>4. CASE polled'.status = polled.status
  BY <1>1, <1>4 DEF Promise!vars
<1> QED
  BY <1>2, <1>3, <1>4

\* Points are written only for an acknowledged upload without a verdict.
LEMMA UpsertKeepsPromise ==
    ASSUME ServiceRest, PollInv, BackgroundStep, Upsert PROVE Promise!Publish
<1>1. UNCHANGED <<response, polled>> /\ response = 200
  BY RunStepFrame DEF BackgroundStep, service, ServiceRest, ServiceInv
<1>2. AllChunksIndexed' /\ job.phase = "indexing"
  BY UpsertIndexesAll DEF ServiceRest, PipelineInv, CheckpointInv, PhaseMatchesControl, Upsert
<1>3. polled.status \notin Settled
  <2> SUFFICES ASSUME polled.status \in Settled PROVE FALSE
    OBVIOUS
  <2>1. polled.status = MapPhaseToStatus(durable.phase)
    BY DEF PollInv, StatusOfJob
  <2>2. durable.phase \in JobPhase
    BY DEF ServiceRest, PipelineInv, TypeOK, JobRow
  <2>3. durable.phase \in Settled
    BY <2>1, <2>2, StatusValues
  <2>4. job.phase \in Settled
    BY <2>3 DEF ServiceRest, PipelineInv, VerdictInv
  <2> QED
    BY <1>2, <2>4 DEF Settled
<1>4. AllChunksIndexed' = TRUE
  BY <1>2 DEF AllChunksIndexed
<1> QED
  BY <1>1, <1>3, <1>4, PromiseVocabulary DEF Promise!Publish

\* The POST is answered once, and turned away only before polls know of it.
LEMMA AnswerKeepsPromise ==
    ASSUME ServiceRest, PollInv, Handler PROVE [Promise!Next]_(Promise!vars)
<1>0. Rejection(request) \in {0, 400, 401, 415, 500}
  BY RequestsAssumption, RejectionDecides DEF ServiceRest, ServiceTypeOK
<1>1. /\ UNCHANGED <<index, upload, polled>>
      /\ AllChunksIndexed' = AllChunksIndexed
  <2>1. UNCHANGED <<index, upload, polled>>
    BY DEF Handler, Reject, CreateRows, CommitRows, ResolveTarget, ReadFile, Schedule,
           Respond, CommitUnanswered, HandlerRaises, vars
  <2> QED
    BY <2>1, SameIndex
<1>2. CASE response' # response
  <2>1. response = 0
    BY <1>2 DEF Handler, Reject, CreateRows, CommitRows, ResolveTarget, ReadFile, Schedule,
           Respond, CommitUnanswered, HandlerRaises, ServiceRest, ServiceInv
  <2>2. response' \in {200, 400, 401, 415, 500}
    BY <1>0, <1>2 DEF Handler, Reject, CreateRows, CommitRows, ResolveTarget, ReadFile,
           Schedule, Respond, CommitUnanswered, HandlerRaises
  <2>3. response' \in {400, 401, 415} => polled.status = "unknown"
    BY DEF Handler, Reject, CreateRows, CommitRows, ResolveTarget, ReadFile, Schedule,
           Respond, CommitUnanswered, HandlerRaises, ServiceRest, ServiceInv, PollInv
  <2>4. Promise!Answer(response')
    BY <1>1, <2>1, <2>3 DEF Promise!Answer, Promise!TurnedAway
  <2> QED
    BY <2>2, <2>4 DEF Promise!Next, Promise!TurnedAway
<1>3. CASE response' = response
  BY <1>1, <1>3 DEF Promise!vars
<1> QED
  BY <1>2, <1>3

LEMMA NextKeepsPromise ==
    ASSUME ServiceRest, PollInv, PromiseInv, [ServiceNext]_all
    PROVE  [Promise!Next]_(Promise!vars)
<1>1. CASE Handler
  BY <1>1, AnswerKeepsPromise
<1>2. CASE BackgroundStep /\ Upsert
  BY <1>2, UpsertKeepsPromise DEF Promise!Next
<1>3. CASE Poll
  BY <1>3, PollKeepsPromise
<1>4. CASE ~(Handler \/ (BackgroundStep /\ Upsert) \/ Poll)
  <2>1. UNCHANGED <<index, upload, response, polled>>
    BY <1>4 DEF ServiceNext, StartBackground, StartRun, BackgroundStep, service, RunStep,
           ParseDocument, WriteParsed, AdvanceParsed, SplitIntoChunks, WriteChunked,
           AdvanceChunked, GetEffectiveAcl, GetRetentionState, FetchVersion, EmbedDense,
           EmbedSparse, EmbedUnreachable, EmbedGivesUp, AdvanceIndexing, StepRaises,
           Complete, Fail, Commit, SessionLost, Abandon, Teardown, AdminEdits,
           EditVersion, Die, all, vars
  <2> QED
    BY <2>1, SameIndex DEF Promise!vars
<1> QED
  BY <1>1, <1>2, <1>3, <1>4

\* The client of an upload sees what UploadPromise says, whatever fails at
\* whatever moment.
THEOREM ServiceKeepsPromise == ServiceSpec => KeepsPromise
<1>1. ServiceInit => Promise!Init
  BY DEF ServiceInit, Init, Promise!Init, AllChunksIndexed
<1>2. ServiceTypeOK /\ ServiceInv /\ IdleInv /\ PipelineInv /\ PollInv /\ PromiseInv
        /\ [ServiceNext]_all => [Promise!Next]_(Promise!vars)
  BY NextKeepsPromise DEF ServiceRest
<1> QED
  BY <1>1, <1>2, ServiceInvariant, PollInvariant, PromiseInvariant, PTL
     DEF ServiceSpec, KeepsPromise, Promise!Spec

-----------------------------------------------------------------------------
(* What UploadPromise comes to.                                            *)

\* A client who was told "ready" finds every chunk, one who was told anything
\* of a run was acknowledged before, and one who was turned away is told of
\* nothing.
ClientIsToldTheTruth ==
    /\ polled.status = "ready" => AllChunksIndexed = TRUE
    /\ polled.status \notin {"unknown", "pending"} => response = 200
    /\ response \in Promise!TurnedAway => polled.status = "unknown"

LEMMA PromiseStepIsTrue ==
    ASSUME ClientIsToldTheTruth, [Promise!Next]_(Promise!vars)
    PROVE  ClientIsToldTheTruth'
<1> USE DEF ClientIsToldTheTruth, Promise!TurnedAway
<1>1. ASSUME NEW code \in Promise!TurnedAway \union {200, 500}, Promise!Answer(code)
      PROVE  ClientIsToldTheTruth'
  BY <1>1 DEF Promise!Answer
<1>2. CASE Promise!Publish
  BY <1>2, PromiseVocabulary DEF Promise!Publish, Settled
<1>3. ASSUME NEW status \in ApiStatus, Promise!Tell(status) PROVE ClientIsToldTheTruth'
  BY <1>3, PromiseVocabulary DEF Promise!Tell, StatusRank, ApiStatus
<1>4. CASE UNCHANGED Promise!vars
  BY <1>4 DEF Promise!vars
<1> HIDE DEF ClientIsToldTheTruth, Promise!TurnedAway
<1>5. Promise!ApiStatus = ApiStatus
  BY PromiseVocabulary
<1> QED
  BY <1>1, <1>2, <1>3, <1>4, <1>5, Zenon DEF Promise!Next

\* The promise alone, whoever keeps it, makes what clients are told true; the
\* service keeps it.
THEOREM PromiseMeansTruth ==
    /\ KeepsPromise => []ClientIsToldTheTruth
    /\ ServiceSpec => []ClientIsToldTheTruth
<1>1. Promise!Init => ClientIsToldTheTruth
  BY DEF Promise!Init, ClientIsToldTheTruth, Promise!TurnedAway
<1>2. ClientIsToldTheTruth /\ [Promise!Next]_(Promise!vars) => ClientIsToldTheTruth'
  BY PromiseStepIsTrue
<1> QED
  BY <1>1, <1>2, ServiceKeepsPromise, PTL DEF KeepsPromise, Promise!Spec

=============================================================================
