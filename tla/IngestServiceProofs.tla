-------------------------- MODULE IngestServiceProofs --------------------------
(***************************************************************************)
(* Theorems about IngestService, for every set of requests and uploads and  *)
(* both kinds of job store.  The pipeline's invariants are carried over     *)
(* from its own proofs: a step of the service is a step of the pipeline,    *)
(* the insertion of its version row, or leaves it alone.                    *)
(***************************************************************************)
EXTENDS IngestLifecycleProofs, IngestService

USE DEF given, locals

-----------------------------------------------------------------------------
(* Credentials.                                                            *)

\* The words of require_auth's decision, and who it lets in: those who are
\* authentic, and nobody else.
LEMMA RequireAuthDecides ==
    ASSUME NEW settings \in Settings, NEW headers \in Headers
    PROVE  /\ RequireAuth(settings, headers)
                 \in {"jwt", "admin_api_key", "unauthenticated", "raised"}
           /\ RequireAuth(settings, headers) \in {"jwt", "admin_api_key"}
                 <=> Authentic(settings, headers)
           /\ RequireAuth(settings, headers) = "raised" => headers.api_key # None
<1>0. /\ settings.admin_api_key \in {"", "secret", "other", "non_ascii", "none"}
      /\ settings.jwks \in BOOLEAN
      /\ headers.api_key \in {"", "secret", "other", "non_ascii", "none"}
      /\ headers.authorization \in {None, "malformed"} \union Token
  BY DEF Settings, Headers, Key, None
<1>1. CASE headers.api_key = None
  <2>1. CASE headers.authorization \in Token /\ settings.jwks
    <3>1. RequireAuth(settings, headers) = VerifyJwt(headers.authorization)
      BY <1>1, <2>1 DEF RequireAuth
    <3> QED
      BY <1>1, <2>1, <3>1 DEF VerifyJwt, Authentic
  <2>2. CASE ~(headers.authorization \in Token /\ settings.jwks)
    <3>1. RequireAuth(settings, headers) = "unauthenticated"
      BY <1>1, <2>2 DEF RequireAuth
    <3>2. headers.authorization = "good" => ~settings.jwks
      BY <2>2 DEF Token
    <3> QED
      BY <1>1, <3>1, <3>2 DEF Authentic
  <2> QED
    BY <2>1, <2>2
<1>2. CASE headers.api_key # None
  <2>1. RequireAuth(settings, headers) = VerifyAdminApiKey(settings, headers.api_key)
    BY <1>2 DEF RequireAuth
  <2>2. CASE settings.admin_api_key \in {None, ""}
    BY <1>0, <1>2, <2>1, <2>2 DEF VerifyAdminApiKey, Authentic, None
  <2>3. CASE /\ settings.admin_api_key \notin {None, ""}
             /\ "non_ascii" \in {settings.admin_api_key, headers.api_key}
    BY <1>0, <1>2, <2>1, <2>3 DEF VerifyAdminApiKey, Authentic, None
  <2>4. CASE /\ settings.admin_api_key \notin {None, ""}
             /\ "non_ascii" \notin {settings.admin_api_key, headers.api_key}
    BY <1>0, <1>2, <2>1, <2>4 DEF VerifyAdminApiKey, Authentic, None
  <2> QED
    BY <2>2, <2>3, <2>4
<1> QED
  BY <1>1, <1>2

\* What the first answer says of a request.
LEMMA RejectionDecides ==
    ASSUME NEW r \in Request
    PROVE  /\ Rejection(r) \in {0, 400, 401, 415, 500}
           /\ Rejection(r) = 0 => Acceptable(r)
           /\ Authenticated(r) <=> Authentic(r.settings, r.headers)
           /\ ~Authenticated(r) => Rejection(r) \in {401, 500}
           /\ Rejection(r) = 500 => RequireAuth(r.settings, r.headers) = "raised"
<1> DEFINE decision == RequireAuth(r.settings, r.headers)
<1>0. /\ r.settings \in Settings /\ r.headers \in Headers
      /\ r.mimeSupported \in BOOLEAN
  BY DEF Request
<1>1. /\ decision \in {"jwt", "admin_api_key", "unauthenticated", "raised"}
      /\ decision \in {"jwt", "admin_api_key"} <=> Authentic(r.settings, r.headers)
  BY <1>0, RequireAuthDecides
<1>2. Authenticated(r) <=> decision \in {"jwt", "admin_api_key"}
  BY DEF Authenticated
<1> HIDE DEF decision
<1>3. Rejection(r) = CASE decision = "unauthenticated"                      -> 401
                       [] decision = "raised"                               -> 500
                       [] Authenticated(r) /\ ~r.mimeSupported              -> 415
                       [] Authenticated(r) /\ r.mimeSupported /\ r.acl # "valid" -> 400
                       [] OTHER                                             -> 0
  BY DEF Rejection, decision
<1>4. CASE decision = "unauthenticated"
  BY <1>1, <1>2, <1>3, <1>4
<1>5. CASE decision = "raised"
  BY <1>1, <1>2, <1>3, <1>5 DEF decision
<1>6. CASE Authenticated(r)
  <2>1. decision \notin {"unauthenticated", "raised"}
    BY <1>2, <1>6
  <2>2. CASE ~r.mimeSupported
    BY <1>1, <1>2, <1>3, <1>6, <2>1, <2>2
  <2>3. CASE r.mimeSupported /\ r.acl # "valid"
    BY <1>1, <1>2, <1>3, <1>6, <2>1, <2>3
  <2>4. CASE r.mimeSupported /\ r.acl = "valid"
    BY <1>1, <1>2, <1>3, <1>6, <2>1, <2>4 DEF Acceptable
  <2> QED
    BY <2>2, <2>3, <2>4
<1> QED
  BY <1>1, <1>2, <1>4, <1>5, <1>6

-----------------------------------------------------------------------------
(* The handler and its request's rows.                                     *)

\* How far the handler is tells what became of the rows, of the answer and of
\* the background run.
ServiceInv ==
    /\ post = "receive" => rows = "absent"
    /\ post = "commit" => rows = "session"
    /\ rows = "session" => post = "commit"
    /\ post \in {"resolve", "read", "schedule", "respond"} => rows = "committed"
    /\ post \in {"receive", "commit", "resolve", "read", "schedule", "respond"}
          => response = 0
    /\ post \in {"background", "running"} => response = 200
    /\ response = 200 => rows = "committed"
    /\ rows = "committed" => version.exists
    /\ rows # "absent" => Rejection(request) = 0
    /\ ~Authenticated(request) => response \in {0, Rejection(request)}
    /\ response \in {400, 401, 415} => rows = "absent"
    /\ pc # "idle" => post = "running"
    /\ index # {} => response = 200
    /\ post \notin {"running", "closed"} => job.phase = "pending"

\* A run that is at work has left the idle state, and may end in it; only an
\* upsert touches the index, and no step of it the version row.
LEMMA RunStepFrame ==
    ASSUME RunStep
    PROVE  pc # "idle" /\ UNCHANGED version
BY DEF RunStep, ParseDocument, WriteParsed, AdvanceParsed, SplitIntoChunks,
       WriteChunked, AdvanceChunked, GetEffectiveAcl, GetRetentionState,
       FetchVersion, EmbedDense, EmbedSparse, EmbedUnreachable, EmbedGivesUp,
       Embedding, AdvanceIndexing, Upsert, StepRaises, Raising, Complete, Fail, Commit

\* The rows appear; nothing else of the pipeline changes.
RowsAppear ==
    /\ version' = [version EXCEPT !.exists = TRUE]
    /\ UNCHANGED <<job, durable, files, index, given, pc, locals, runs>>

\* To the pipeline, a step of the service is one of its own, or the rows
\* appearing before any run.
LEMMA ServiceStepIsPipelineStep ==
    ASSUME ServiceInv, pc = "idle" => job = durable, [ServiceNext]_all
    PROVE  [Next]_vars \/ RowsAppear
<1>1. CASE Handler
  BY <1>1 DEF Handler, Reject, CreateRows, CommitRows, ResolveTarget, ReadFile,
              Schedule, Respond, CommitUnanswered, HandlerRaises, MakeDurable, RowsAppear
<1>2. CASE StartBackground \/ BackgroundStep \/ SessionLost \/ AdminEdits
  BY <1>2 DEF StartBackground, BackgroundStep, SessionLost, AdminEdits, Next
<1>3. CASE Die
  <2>1. CASE pc = "idle"
    BY <1>3, <2>1 DEF Die, vars
  <2>2. CASE pc # "idle"
    BY <1>3, <2>2 DEF Die, Abandon, Next
  <2> QED
    BY <2>1, <2>2
<1>4. CASE Teardown \/ Poll \/ UNCHANGED all
  BY <1>4 DEF Teardown, Poll, all
<1> QED
  BY <1>1, <1>2, <1>3, <1>4 DEF ServiceNext

\* The run of an upload is its first, from the beginning.
LEMMA RunsFromTheUpload ==
    ASSUME ServiceInv, [ServiceNext]_all, StartRun PROVE job.phase = "pending"
<1>1. pc = "idle" /\ pc' # "idle"
  BY DEF StartRun, Dispatch
<1>2. StartBackground
  BY <1>1, RunStepFrame DEF ServiceNext, Handler, Reject, CreateRows, CommitRows,
     ResolveTarget, ReadFile, Schedule, Respond, CommitUnanswered, HandlerRaises,
     BackgroundStep, SessionLost, Abandon, Teardown, AdminEdits, EditVersion, Die, Poll,
     all, vars
<1> QED
  BY <1>2 DEF StartBackground, Dispatchable, ServiceInv

LEMMA InitService == ServiceInit => ServiceInv
BY DEF ServiceInit, Init, NewJob, ServiceInv

LEMMA NextService ==
    ASSUME TypeOK, request \in Requests, ServiceInv, [ServiceNext]_all
    PROVE  ServiceInv'
<1>0. /\ Rejection(request) \in {0, 400, 401, 415, 500}
      /\ ~Authenticated(request) => Rejection(request) # 0
      /\ version.exists \in BOOLEAN
  BY RequestsAssumption, RejectionDecides DEF TypeOK
<1>a. request' = request
  BY DEF ServiceNext, Handler, Reject, CreateRows, CommitRows, ResolveTarget, ReadFile,
         Schedule, Respond, CommitUnanswered, HandlerRaises, StartBackground,
         BackgroundStep, service, SessionLost, Teardown, AdminEdits, Die, Poll, all
<1>b. /\ Rejection(request)' = Rejection(request)
      /\ Authenticated(request)' = Authenticated(request)
  BY <1>a
<1> USE DEF ServiceInv
<1>1. CASE Reject
  BY <1>0, <1>b, <1>1 DEF Reject, vars
<1>2. CASE CreateRows
  BY <1>0, <1>b, <1>2 DEF CreateRows, vars
<1>3. CASE CommitRows
  BY <1>0, <1>b, <1>3 DEF CommitRows, MakeDurable, TypeOK
<1>4. CASE ResolveTarget \/ ReadFile
  BY <1>0, <1>b, <1>4 DEF ResolveTarget, ReadFile, vars
<1>5. CASE Schedule \/ Respond
  BY <1>0, <1>b, <1>5 DEF Schedule, Respond, vars
<1>6. CASE CommitUnanswered
  BY <1>0, <1>b, <1>6 DEF CommitUnanswered, MakeDurable, TypeOK
<1>7. CASE HandlerRaises
  BY <1>0, <1>b, <1>7 DEF HandlerRaises, vars
<1>8. CASE StartBackground
  BY <1>0, <1>b, <1>8 DEF StartBackground, Dispatchable, StartRun
<1>9. CASE BackgroundStep
  <2>1. pc # "idle" /\ UNCHANGED version
    BY <1>9, RunStepFrame DEF BackgroundStep
  <2> QED
    BY <1>0, <1>b, <1>9, <2>1 DEF BackgroundStep, service
<1>10. CASE SessionLost
  BY <1>0, <1>b, <1>10 DEF SessionLost, Abandon
<1>11. CASE Teardown
  BY <1>0, <1>b, <1>11 DEF Teardown, vars
<1>12. CASE AdminEdits
  <2>1. version'.exists = version.exists
    BY <1>12 DEF AdminEdits, EditVersion, TypeOK
  <2> QED
    BY <1>0, <1>b, <1>12, <2>1 DEF AdminEdits, EditVersion, service
<1>13. CASE Die
  BY <1>0, <1>b, <1>13 DEF Die
<1>14. CASE Poll \/ UNCHANGED all
  BY <1>0, <1>b, <1>14 DEF Poll, all, vars, service
<1> QED
  BY <1>1, <1>2, <1>3, <1>4, <1>5, <1>6, <1>7, <1>8, <1>9, <1>10, <1>11, <1>12,
     <1>13, <1>14 DEF ServiceNext, Handler

-----------------------------------------------------------------------------
(* Types.                                                                  *)

LEMMA RowsAppearType == ASSUME TypeOK, RowsAppear PROVE TypeOK'
BY DEF TypeOK, RowsAppear

\* An idle run holds no update of its own.
IdleInv == pc = "idle" => job = durable

LEMMA NextIdle == ASSUME IdleInv, [Next]_vars \/ RowsAppear PROVE IdleInv'
<1> USE DEF IdleInv
<1>1. CASE StartRun
  <2>1. pc' # "idle"
    BY <1>1 DEF StartRun, Dispatch
  <2> QED
    BY <2>1
<1>2. CASE RunStep /\ ~Commit
  <2>1. pc' # "idle"
    BY <1>2 DEF RunStep, ParseDocument, WriteParsed, AdvanceParsed, SplitIntoChunks,
           WriteChunked, AdvanceChunked, GetEffectiveAcl, GetRetentionState,
           FetchVersion, EmbedDense, EmbedSparse, EmbedUnreachable, EmbedGivesUp,
           AdvanceIndexing, ZipStrict, Upsert, StepRaises, PropagateError, Complete, Fail
  <2> QED
    BY <2>1
<1>3. CASE Commit
  BY <1>3 DEF Commit, CommitSession
<1>4. CASE Abandon
  BY <1>4 DEF Abandon
<1>5. CASE EditVersion \/ UNCHANGED vars \/ RowsAppear
  BY <1>5 DEF EditVersion, vars, RowsAppear
<1> QED
  BY <1>1, <1>2, <1>3, <1>4, <1>5 DEF Next

LEMMA InitServiceType == ServiceInit => ServiceTypeOK /\ IdleInv
<1> SUFFICES ASSUME ServiceInit PROVE ServiceTypeOK /\ IdleInv
  OBVIOUS
<1>1. Init
  BY DEF ServiceInit
<1>2. TypeOK
  BY <1>1, InitType
<1>3. IdleInv
  BY <1>1 DEF Init, IdleInv
<1>4. polled \in Answer
  BY DEF ServiceInit, Answer, ApiStatus
<1> QED
  BY <1>2, <1>3, <1>4 DEF ServiceInit, ServiceTypeOK, Stage

\* The status a poll reports is in the vocabulary of the API.
LEMMA StatusOfJobType ==
    ASSUME durable \in JobRow
    PROVE  StatusOfJob \in Answer
<1>1. durable.phase \in JobPhase /\ durable.progress \in {0, 2, 4, 7, 10}
  BY DEF JobRow
<1>2. MapPhaseToStatus(durable.phase) \in ApiStatus
  BY <1>1 DEF MapPhaseToStatus, ApiStatus, JobPhase
<1> QED
  BY <1>1, <1>2 DEF StatusOfJob, Answer

LEMMA NextServiceType ==
    ASSUME ServiceTypeOK, ServiceInv, IdleInv, [ServiceNext]_all
    PROVE  ServiceTypeOK' /\ IdleInv'
<1>0. TypeOK /\ durable \in JobRow
  BY DEF ServiceTypeOK, TypeOK
<1>1. [Next]_vars \/ RowsAppear
  BY ServiceStepIsPipelineStep DEF IdleInv
<1>2. TypeOK' /\ IdleInv'
  BY <1>0, <1>1, NextType, RowsAppearType, NextIdle
<1>3. Rejection(request) \in {0, 400, 401, 415, 500}
  BY RequestsAssumption, RejectionDecides DEF ServiceTypeOK
<1>4. StatusOfJob \in Answer /\ NotFound \in Answer
  BY <1>0, StatusOfJobType DEF NotFound, Answer
<1>5. /\ request \in Requests /\ post \in Stage
      /\ response \in {0, 200, 400, 401, 415, 500}
      /\ rows \in {"absent", "session", "committed"}
      /\ fault \in {"none", "database", "process"} /\ polled \in Answer
  BY DEF ServiceTypeOK
<1>6. /\ request' \in Requests /\ post' \in Stage
      /\ response' \in {0, 200, 400, 401, 415, 500}
      /\ rows' \in {"absent", "session", "committed"}
      /\ fault' \in {"none", "database", "process"} /\ polled' \in Answer
  <2>1. CASE Reject
    BY <1>3, <1>5, <2>1 DEF Reject, Stage
  <2>2. CASE CreateRows \/ CommitRows \/ ResolveTarget \/ ReadFile
    BY <1>5, <2>2 DEF CreateRows, CommitRows, MakeDurable, ResolveTarget, ReadFile, Stage
  <2>3. CASE Schedule \/ Respond
    BY <1>5, <2>3 DEF Schedule, Respond, Stage
  <2>4. CASE CommitUnanswered \/ HandlerRaises
    BY <1>5, <2>4 DEF CommitUnanswered, MakeDurable, HandlerRaises, Stage
  <2>5. CASE StartBackground \/ SessionLost
    BY <1>5, <2>5 DEF StartBackground, SessionLost, Stage
  <2>6. CASE Teardown \/ Die
    BY <1>5, <2>6 DEF Teardown, Die, Stage
  <2>7. CASE BackgroundStep \/ AdminEdits \/ UNCHANGED all
    BY <1>5, <2>7 DEF BackgroundStep, AdminEdits, service, all
  <2>8. CASE Poll
    BY <1>4, <1>5, <2>8 DEF Poll
  <2> QED
    BY <2>1, <2>2, <2>3, <2>4, <2>5, <2>6, <2>7, <2>8 DEF ServiceNext, Handler
<1>7. scheduled' \in BOOLEAN
  <2>1. scheduled \in BOOLEAN
    BY DEF ServiceTypeOK
  <2>2. UNCHANGED scheduled \/ scheduled' = FALSE \/ scheduled' = TRUE
    BY Zenon DEF ServiceNext, Handler, Reject, CreateRows, CommitRows, ResolveTarget,
       ReadFile, Schedule, Respond, CommitUnanswered, HandlerRaises, StartBackground,
       BackgroundStep, service, SessionLost, Teardown, AdminEdits, Die, Poll, all
  <2> QED
    BY <2>1, <2>2, Zenon
<1> QED
  BY <1>2, <1>6, <1>7, Zenon DEF ServiceTypeOK

LEMMA ServiceInvariant == ServiceSpec => [](ServiceTypeOK /\ ServiceInv /\ IdleInv)
<1>1. ServiceInit => ServiceTypeOK /\ ServiceInv /\ IdleInv
  BY InitServiceType, InitService
<1>2. ServiceTypeOK /\ ServiceInv /\ IdleInv /\ [ServiceNext]_all
        => (ServiceTypeOK /\ ServiceInv /\ IdleInv)'
  <2> SUFFICES ASSUME ServiceTypeOK, ServiceInv, IdleInv, [ServiceNext]_all
               PROVE  (ServiceTypeOK /\ ServiceInv /\ IdleInv)'
    OBVIOUS
  <2>1. TypeOK /\ request \in Requests
    BY DEF ServiceTypeOK
  <2> QED
    BY <2>1, NextServiceType, NextService
<1> QED
  BY <1>1, <1>2, PTL DEF ServiceSpec

\* Every variable of the service keeps its type: only the codes and statuses
\* of the API are ever answered, whatever fails.
THEOREM ServiceTypeCorrect == ServiceSpec => []ServiceTypeOK
BY ServiceInvariant, PTL

\* The rows of an acknowledged upload are durable before the answer leaves.
THEOREM AcknowledgedStaysDurable == ServiceSpec => []AcknowledgedIsDurable
<1>1. ServiceInv => AcknowledgedIsDurable
  BY DEF ServiceInv, AcknowledgedIsDurable
<1> QED
  BY <1>1, ServiceInvariant, PTL

\* The background run starts, and goes on, only with the rows it reads
\* committed, though nothing in it waits for them.
THEOREM RunsFindTheirRows == ServiceSpec => []RunFindsItsRows
<1>1. ServiceInv => RunFindsItsRows
  BY DEF ServiceInv, RunFindsItsRows
<1> QED
  BY <1>1, ServiceInvariant, PTL

\* A request that is turned away, or that deserves to be, leaves neither rows
\* nor points behind, for every combination of settings and headers.
THEOREM RejectionLeavesNothing == ServiceSpec => []RejectedLeavesNothing
<1>1. ServiceTypeOK /\ ServiceInv => RejectedLeavesNothing
  <2> SUFFICES ASSUME ServiceTypeOK, ServiceInv,
                      response \in {400, 401, 415} \/ ~Acceptable(request)
               PROVE  rows = "absent" /\ index = {}
    BY DEF RejectedLeavesNothing
  <2>1. Rejection(request) = 0 => Acceptable(request)
    BY RequestsAssumption, RejectionDecides DEF ServiceTypeOK
  <2>2. rows = "absent"
    BY <2>1 DEF ServiceInv
  <2> QED
    BY <2>2 DEF ServiceInv
<1> QED
  BY <1>1, ServiceInvariant, PTL

\* Whoever is not authentic is answered with 401, unless it is the comparison
\* of two keys that raises.
THEOREM UnauthenticatedAlwaysGets401 == ServiceSpec => []UnauthenticatedGets401
<1>1. ServiceTypeOK /\ ServiceInv => UnauthenticatedGets401
  <2> SUFFICES ASSUME ServiceTypeOK, ServiceInv, response # 0,
                      ~Authentic(request.settings, request.headers),
                      RequireAuth(request.settings, request.headers) = "raised"
                         => request.headers.api_key = None
               PROVE  response = 401
    BY DEF UnauthenticatedGets401
  <2>1. request \in Request
    BY RequestsAssumption DEF ServiceTypeOK
  <2>2. ~Authenticated(request) /\ Rejection(request) \in {401, 500}
    BY <2>1, RejectionDecides
  <2>3. request.settings \in Settings /\ request.headers \in Headers
    BY <2>1 DEF Request
  <2>4. RequireAuth(request.settings, request.headers) # "raised"
    BY <2>3, RequireAuthDecides
  <2>5. Rejection(request) # 500
    BY <2>1, <2>4, RejectionDecides
  <2> QED
    BY <2>2, <2>5 DEF ServiceInv
<1> QED
  BY <1>1, ServiceInvariant, PTL

\* A caller who was told of an error never finds the document indexed later.
THEOREM ErrorsNeverPublish == ServiceSpec => []ErrorNeverPublishes
<1>1. ServiceInv => ErrorNeverPublishes
  BY DEF ServiceInv, ErrorNeverPublishes
<1> QED
  BY <1>1, ServiceInvariant, PTL

-----------------------------------------------------------------------------
(* Polls.  The run of an upload starts from its beginning and once, so the  *)
(* pipeline's verdicts hold here whatever phases it would resume.           *)

\* A job that is committed as failed has come to rest.
FailedInv ==
    durable.phase = "failed" =>
        pc \in {"commit", "idle"} /\ job.progress = durable.progress

PipelineInv == TypeOK /\ CheckpointInv /\ VerdictInv /\ TrailInv /\ FailedInv

LEMMA InitPipeline == Init => PipelineInv
BY InitType, InitCheckpoint, InitVerdict, InitTrail
   DEF PipelineInv, FailedInv, Init, NewJob

LEMMA NextFailed ==
    ASSUME TypeOK, CheckpointInv, VerdictInv, FailedInv, [Next]_vars,
           StartRun => job.phase # "failed"
    PROVE  /\ FailedInv'
           /\ durable.phase = "failed"
                 => durable'.phase = "failed" /\ durable'.progress = durable.progress
<1>0. /\ job \in JobRow /\ durable \in JobRow /\ PhaseMatchesControl
      /\ durable.phase = "failed" => job.phase = "failed"
  BY DEF TypeOK, CheckpointInv, VerdictInv, Settled
<1> USE DEF FailedInv
<1>1. CASE StartRun
  BY <1>0, <1>1 DEF StartRun
<1>2. CASE AdvanceParsed \/ AdvanceChunked \/ AdvanceIndexing \/ Complete
  <2>1. /\ pc \notin {"commit", "idle"}
        /\ job'.phase # "failed" /\ (durable' = durable \/ durable' = job')
    BY <1>0, <1>2 DEF AdvanceParsed, AdvanceChunked, AdvanceIndexing, Complete, Advance,
                      Store, JobRow
  <2> QED
    BY <2>1
<1>3. CASE EmbedUnreachable
  <2>1. /\ pc \notin {"commit", "idle"}
        /\ job'.phase = job.phase /\ (durable' = durable \/ durable' = job')
    BY <1>0, <1>3 DEF EmbedUnreachable, Embedding, Advance, RetryRow, Store, JobRow
  <2>2. job.phase # "failed"
    BY <1>0, <1>3 DEF EmbedUnreachable, Embedding, PhaseMatchesControl
  <2> QED
    BY <2>1, <2>2
<1>4. CASE Fail
  <2>1. /\ pc = "fail" /\ pc' = "commit" /\ (durable' = durable \/ durable' = job')
    BY <1>4 DEF Fail, Store
  <2> QED
    BY <2>1
<1>5. CASE Commit \/ Abandon
  BY <1>0, <1>5 DEF Commit, CommitSession, Abandon
<1>6. CASE \/ ParseDocument \/ WriteParsed \/ SplitIntoChunks \/ WriteChunked
           \/ GetEffectiveAcl \/ GetRetentionState \/ EmbedDense \/ EmbedSparse
           \/ EmbedGivesUp \/ Upsert \/ StepRaises
  <2>1. pc \notin {"commit", "idle"} /\ durable' = durable
    BY <1>6 DEF ParseDocument, WriteParsed, SplitIntoChunks, WriteChunked,
           GetEffectiveAcl, GetRetentionState, FetchVersion, EmbedDense, EmbedSparse,
           EmbedGivesUp, Embedding, Upsert, StepRaises, Raising
  <2> QED
    BY <2>1
<1>7. CASE EditVersion \/ UNCHANGED vars
  BY <1>7 DEF EditVersion, vars
<1> QED
  BY <1>1, <1>2, <1>3, <1>4, <1>5, <1>6, <1>7 DEF Next, RunStep

\* The pipeline's invariants do not mind the version row appearing.
LEMMA RowsAppearPipeline ==
    ASSUME PipelineInv, RowsAppear PROVE PipelineInv' /\ durable' = durable
<1>1. TypeOK'
  BY RowsAppearType DEF PipelineInv
<1>2. UNCHANGED <<job, durable, files, index, upload, pc, vectors>>
  BY DEF RowsAppear
<1>3. CheckpointInv'
  BY <1>2 DEF PipelineInv, CheckpointInv, PathsMatchPhase, PhaseMatchesControl,
              CheckpointsComplete
<1>3a. version'.exists
  BY DEF RowsAppear, PipelineInv, TypeOK
<1>4. version'.exists /\ (Publishable => Publishable')
      /\ (Parses(upload) <=> Parses(upload)')
  BY <1>2, <1>3a DEF Publishable
<1>5. AllChunksIndexed' = AllChunksIndexed
  BY <1>2, SameIndex
<1>6. VerdictInv'
  BY <1>2, <1>4, <1>5 DEF PipelineInv, VerdictInv, Verdict
<1>7. TrailInv' /\ FailedInv'
  BY <1>2 DEF PipelineInv, TrailInv, Trails, ProgressMatchesPhase, FailedInv
<1> QED
  BY <1>1, <1>2, <1>3, <1>6, <1>7 DEF PipelineInv

\* What one step may make of the row that polls read: forward, and a verdict
\* is final down to its progress.
SettledStays ==
    durable.phase \in Settled =>
        durable'.phase = durable.phase /\ durable'.progress = durable.progress

LEMMA NextPipeline ==
    ASSUME PipelineInv, [Next]_vars \/ RowsAppear,
           StartRun => job.phase # "failed"
    PROVE  PipelineInv' /\ PollStep /\ SettledStays
<1>1. CASE [Next]_vars
  <2>1. TypeOK' /\ CheckpointInv' /\ VerdictInv' /\ FailedInv'
    BY <1>1, NextType, NextCheckpoint, NextVerdict, NextFailed DEF PipelineInv
  <2>2. TrailInv' /\ PollStep
    BY <1>1, NextTrail DEF PipelineInv
  <2>3. durable.phase = "failed" => durable'.progress = durable.progress
    BY <1>1, NextFailed DEF PipelineInv
  <2>4. durable.phase = "ready" => durable'.progress = durable.progress
    BY <2>2 DEF PollStep, PipelineInv, TrailInv, ProgressMatchesPhase, Settled
  <2> QED
    BY <2>1, <2>2, <2>3, <2>4 DEF PipelineInv, SettledStays, PollStep, Settled
<1>2. CASE RowsAppear
  <2>1. PipelineInv' /\ durable' = durable
    BY <1>2, RowsAppearPipeline
  <2>2. Trails(durable, durable)
    BY RankValues DEF PipelineInv, TypeOK, JobRow, JobPhase, Trails
  <2> QED
    BY <2>1, <2>2 DEF SettledStays, PollStep
<1> QED
  BY <1>1, <1>2

\* What was last polled is behind the committed row, or it is its verdict.
PollInv ==
    /\ polled.code = 200 =>
          /\ rows = "committed"
          /\ polled.progress <= durable.progress
          /\ StatusRank(polled.status) <= StatusRank(MapPhaseToStatus(durable.phase))
    /\ polled.code # 200 => polled.status = "unknown" /\ polled.progress = 0
    /\ polled.status \in Settled => polled = StatusOfJob

LEMMA StatusValues ==
    \A p \in JobPhase :
        /\ StatusRank(MapPhaseToStatus(p)) \in 1..4
        /\ MapPhaseToStatus(p) \in Settled <=> p \in Settled
        /\ MapPhaseToStatus(p) = "failed" <=> p = "failed"
BY DEF StatusRank, MapPhaseToStatus, JobPhase, Settled

\* The status a phase is reported as is coarser than the phase, but in order.
LEMMA StatusIsMonotone ==
    ASSUME NEW p \in JobPhase, NEW q \in JobPhase, Rank[p] <= Rank[q]
    PROVE  StatusRank(MapPhaseToStatus(p)) <= StatusRank(MapPhaseToStatus(q))
BY RankValues DEF StatusRank, MapPhaseToStatus, JobPhase

\* Committed rows stay: only CreateRows could take them back, and it comes
\* before there are any.
LEMMA RowsStayCommitted ==
    ASSUME ServiceInv, rows = "committed", [ServiceNext]_all PROVE rows' = "committed"
<1>1. CASE Handler
  BY <1>1 DEF Handler, Reject, CreateRows, CommitRows, ResolveTarget, ReadFile,
              Schedule, Respond, CommitUnanswered, HandlerRaises, MakeDurable,
              ServiceInv
<1>2. CASE StartBackground \/ BackgroundStep \/ SessionLost \/ Teardown \/ AdminEdits
  BY <1>2 DEF StartBackground, BackgroundStep, service, SessionLost, Teardown, AdminEdits
<1>3. CASE Die \/ Poll \/ UNCHANGED all
  BY <1>3 DEF Die, Poll, all, service
<1> QED
  BY <1>1, <1>2, <1>3 DEF ServiceNext

ServiceRest == ServiceTypeOK /\ ServiceInv /\ IdleInv /\ PipelineInv

LEMMA NextPoll ==
    ASSUME ServiceRest, PollInv, [ServiceNext]_all
    PROVE  PipelineInv' /\ PollInv'
<1>1. [Next]_vars \/ RowsAppear
  BY ServiceStepIsPipelineStep DEF ServiceRest, IdleInv
<1>1a. StartRun => job.phase # "failed"
  BY RunsFromTheUpload DEF ServiceRest
<1>2. PipelineInv' /\ PollStep /\ SettledStays
  BY <1>1, <1>1a, NextPipeline DEF ServiceRest
<1>3. /\ durable.phase \in JobPhase /\ durable'.phase \in JobPhase
      /\ durable.progress \in Nat /\ durable'.progress \in Nat
  BY <1>2 DEF ServiceRest, PipelineInv, TypeOK, JobRow
<1>4. StatusRank(MapPhaseToStatus(durable.phase))
        <= StatusRank(MapPhaseToStatus(durable'.phase))
  BY <1>2, <1>3, StatusIsMonotone DEF PollStep, Trails
<1>5. /\ StatusRank(MapPhaseToStatus(durable.phase)) \in Nat
      /\ StatusRank(MapPhaseToStatus(durable'.phase)) \in Nat
  BY <1>3, StatusValues
<1>6. CASE Poll
  <2>1. UNCHANGED <<durable, rows>>
    BY <1>6 DEF Poll, vars
  <2>2. CASE rows = "committed"
    <3>1. polled' = StatusOfJob /\ StatusOfJob' = StatusOfJob
      BY <1>6, <2>1, <2>2 DEF Poll, StatusOfJob
    <3>2. /\ polled'.code = 200 /\ polled'.progress = durable.progress
          /\ polled'.status = MapPhaseToStatus(durable.phase)
      BY <3>1 DEF StatusOfJob
    <3> QED
      BY <1>2, <1>3, <1>5, <2>1, <2>2, <3>1, <3>2 DEF PollInv
  <2>3. CASE rows # "committed"
    <3>1. polled' = NotFound
      BY <1>6, <2>3 DEF Poll
    <3> QED
      BY <1>2, <3>1 DEF PollInv, NotFound, Settled
  <2> QED
    BY <2>2, <2>3
<1>7. CASE polled' = polled
  <2>1. polled \in Answer
    BY DEF ServiceRest, ServiceTypeOK
  <2>2. polled.code # 200 => PollInv'
    BY <1>7 DEF PollInv, Settled
  <2>3. ASSUME polled.code = 200 PROVE PollInv'
    <3>1. rows' = "committed"
      BY <2>3, RowsStayCommitted DEF PollInv, ServiceRest
    <3>2. polled.progress <= durable'.progress
      <4>1. polled.progress \in Nat
        BY <2>1 DEF Answer
      <4> QED
        BY <1>2, <1>3, <2>3, <4>1 DEF PollInv, PollStep, Trails
    <3>3. StatusRank(polled.status) <= StatusRank(MapPhaseToStatus(durable'.phase))
      <4>1. StatusRank(polled.status) \in Nat
        BY <2>1 DEF StatusRank, Answer, ApiStatus
      <4> QED
        BY <1>4, <1>5, <2>3, <4>1 DEF PollInv
    <3>4. ASSUME polled.status \in Settled PROVE polled = StatusOfJob'
      <4>1. polled = StatusOfJob
        BY <3>4 DEF PollInv
      <4>2. durable.phase \in Settled
        BY <1>3, <3>4, <4>1, StatusValues DEF StatusOfJob
      <4> QED
        BY <1>2, <4>1, <4>2 DEF SettledStays, StatusOfJob
    <3> QED
      BY <1>7, <2>3, <3>1, <3>2, <3>3, <3>4 DEF PollInv
  <2> QED
    BY <1>2, <2>2, <2>3
<1>8. Poll \/ polled' = polled
  BY DEF ServiceNext, Handler, Reject, CreateRows, CommitRows, ResolveTarget, ReadFile,
         Schedule, Respond, CommitUnanswered, HandlerRaises, StartBackground,
         BackgroundStep, service, SessionLost, Teardown, AdminEdits, Die, Poll, all
<1> QED
  BY <1>2, <1>6, <1>7, <1>8

LEMMA PollInvariant == ServiceSpec => [](PipelineInv /\ PollInv)
<1>1. ServiceInit => PipelineInv /\ PollInv
  BY InitPipeline DEF ServiceInit, PollInv, Settled
<1>2. ServiceTypeOK /\ ServiceInv /\ IdleInv /\ PipelineInv /\ PollInv /\ [ServiceNext]_all
        => (PipelineInv /\ PollInv)'
  BY NextPoll DEF ServiceRest
<1> QED
  BY <1>1, <1>2, ServiceInvariant, PTL DEF ServiceSpec

\* The answers to successive polls are consistent, through retries, failures,
\* a lost session and a dead process.
THEOREM PollsAreConsistent == ServiceSpec => PollsConsistent
<1>1. ServiceTypeOK /\ PipelineInv /\ PollInv /\ [ServiceNext]_all
        => [/\ polled.code = 200 => polled'.code = 200
            /\ polled'.progress >= polled.progress
            /\ StatusRank(polled'.status) >= StatusRank(polled.status)
            /\ polled.status \in Settled => polled' = polled
            /\ polled'.errors <=> polled'.status = "failed"]_polled
  <2> SUFFICES ASSUME ServiceTypeOK, PipelineInv, PollInv, [ServiceNext]_all,
                      polled' # polled
               PROVE  /\ polled.code = 200 => polled'.code = 200
                      /\ polled'.progress >= polled.progress
                      /\ StatusRank(polled'.status) >= StatusRank(polled.status)
                      /\ polled.status \in Settled => polled' = polled
                      /\ polled'.errors <=> polled'.status = "failed"
    OBVIOUS
  <2>1. Poll
    BY DEF ServiceNext, Handler, Reject, CreateRows, CommitRows, ResolveTarget,
           ReadFile, Schedule, Respond, CommitUnanswered, HandlerRaises, StartBackground,
           BackgroundStep, service, SessionLost, Teardown, AdminEdits, Die, all
  <2>2. durable.phase \in JobPhase /\ durable.progress \in Nat
    BY DEF PipelineInv, TypeOK, JobRow
  <2>3. /\ StatusRank(MapPhaseToStatus(durable.phase)) \in Nat
        /\ MapPhaseToStatus(durable.phase) = "failed" <=> durable.phase = "failed"
    BY <2>2, StatusValues
  <2>4. StatusRank("unknown") = 0 /\ "unknown" \notin Settled
    BY DEF StatusRank, Settled
  <2>5. polled.code # 200 => polled.status = "unknown" /\ polled.progress = 0
    BY DEF PollInv
  <2>6. CASE rows = "committed"
    <3>1. polled' = StatusOfJob
      BY <2>1, <2>6 DEF Poll
    <3>2. polled.status \notin Settled
      BY <3>1 DEF PollInv
    <3>3. /\ polled'.code = 200 /\ polled'.progress = durable.progress
          /\ polled'.status = MapPhaseToStatus(durable.phase)
          /\ polled'.errors <=> durable.phase = "failed"
      BY <3>1 DEF StatusOfJob
    <3> QED
      BY <2>2, <2>3, <2>4, <2>5, <3>2, <3>3 DEF PollInv
  <2>7. CASE rows # "committed"
    <3>1. polled.code # 200
      BY <2>7 DEF PollInv
    <3>2. polled' = NotFound
      BY <2>1, <2>7 DEF Poll
    <3>3. /\ polled'.progress = 0 /\ polled'.status = "unknown"
          /\ ~polled'.errors
      BY <3>2 DEF NotFound
    <3> QED
      BY <2>4, <2>5, <3>1, <3>3
  <2> QED
    BY <2>6, <2>7
<1> QED
  BY <1>1, ServiceInvariant, PollInvariant, PTL DEF ServiceSpec, PollsConsistent

=============================================================================
