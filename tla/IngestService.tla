----------------------------- MODULE IngestService -----------------------------
(***************************************************************************)
(* POST /v1/ingest and GET /v1/ingest/{document_id} (api/ingest_routes.py)  *)
(* around the pipeline of IngestPipeline.                                   *)
(*                                                                          *)
(* The handler checks the request, creates the job, document and version    *)
(* rows in its own session, commits them, resolves the index target, reads  *)
(* the file, schedules the pipeline and answers.  The scheduled task starts *)
(* after the answer was sent, on a thread and with a session of its own,    *)
(* and the request's session is closed after that.  Meanwhile clients poll. *)
(* All of it lives in one process, which may die at any moment, and nothing *)
(* restarts what it was doing.                                              *)
(***************************************************************************)
EXTENDS IngestPipeline, Authentication

CONSTANTS Requests      \* the requests considered

VARIABLES
    request,    \* what was posted
    post,       \* where the handler is
    response,   \* the status code sent, 0 if none yet
    rows,       \* the job, document and version rows of the request
    scheduled,  \* the task is queued behind the response
    fault,      \* what has gone down under the request, if anything
    polled      \* the last answer to a poll of this document

service == <<request, post, response, rows, scheduled, fault, polled>>
all == <<vars, service>>

Request == [settings : Settings, headers : Headers, mimeSupported : BOOLEAN,
            acl : {"missing", "invalid", "valid"}]

ASSUME RequestsAssumption == Requests \subseteq Request

Stage == {"receive", "commit", "resolve", "read", "schedule", "respond",
          "background", "running", "closed"}

Answer == [code : {0, 200, 404}, status : ApiStatus \union {"unknown"},
           progress : {0, 2, 4, 7, 10}, errors : BOOLEAN]

ServiceTypeOK ==
    /\ TypeOK
    /\ request \in Requests
    /\ post \in Stage
    /\ response \in {0, 200, 400, 401, 415, 500}
    /\ rows \in {"absent", "session", "committed"}
    /\ scheduled \in BOOLEAN
    /\ fault \in {"none", "database", "process"}
    /\ polled \in Answer

ServiceInit ==
    /\ Init
    /\ ~version.exists
    /\ request \in Requests
    /\ post = "receive"
    /\ response = 0
    /\ rows = "absent"
    /\ scheduled = FALSE
    /\ fault = "none"
    /\ polled = [code |-> 0, status |-> "unknown", progress |-> 0, errors |-> FALSE]

-----------------------------------------------------------------------------
(* The handler.                                                            *)

Authenticated(r) == RequireAuth(r.settings, r.headers) \in {"jwt", "admin_api_key"}

\* Mutant: the MIME type is looked at after the rows were created.
RejectionIgnoringMime(r) ==
    CASE ~Authenticated(r)                        -> 401
      [] Authenticated(r) /\ r.acl # "valid"      -> 400
      [] OTHER                                    -> 0

\* The answer that ends the request before any row exists; 0 to go on.
Rejection(r) ==
    CASE RequireAuth(r.settings, r.headers) = "unauthenticated" -> 401
      [] RequireAuth(r.settings, r.headers) = "raised"          -> 500
      [] Authenticated(r) /\ ~r.mimeSupported                   -> 415
      [] Authenticated(r) /\ r.mimeSupported /\ r.acl # "valid" -> 400
      [] OTHER                                                  -> 0

Reject ==
    /\ post = "receive"
    /\ Rejection(request) # 0
    /\ response' = Rejection(request)
    /\ post' = "closed"
    /\ UNCHANGED <<vars, request, rows, scheduled, fault, polled>>

\* create_job and _create_document_and_version: flushed or added, not
\* committed.
CreateRows ==
    /\ post = "receive"
    /\ Rejection(request) = 0
    /\ rows' = "session"
    /\ post' = "commit"
    /\ UNCHANGED <<vars, request, response, scheduled, fault, polled>>

\* Mutant: the commit is left to the teardown of the request's session.
LeaveUncommitted == UNCHANGED <<rows, version>>

MakeDurable ==
    /\ rows' = "committed"
    /\ version' = [version EXCEPT !.exists = TRUE]

CommitRows ==
    /\ post = "commit"
    /\ MakeDurable
    /\ post' = "resolve"
    /\ UNCHANGED <<job, durable, files, index, given, pc, locals, runs,
                   request, response, scheduled, fault, polled>>

\* resolve_index_target finds the active embedding model.
ResolveTarget ==
    /\ post = "resolve"
    /\ post' = "read"
    /\ UNCHANGED <<vars, request, response, rows, scheduled, fault, polled>>

ReadFile ==
    /\ post = "read"
    /\ post' = "schedule"
    /\ UNCHANGED <<vars, request, response, rows, scheduled, fault, polled>>

Schedule ==
    /\ post = "schedule"
    /\ scheduled' = TRUE
    /\ post' = "respond"
    /\ UNCHANGED <<vars, request, response, rows, fault, polled>>

Respond ==
    /\ post = "respond"
    /\ response' = 200
    /\ post' = "background"
    /\ UNCHANGED <<vars, request, rows, scheduled, fault, polled>>

\* The commit is applied and its answer lost: the rows stay, the caller is
\* told 500.
CommitUnanswered ==
    /\ post = "commit"
    /\ MakeDurable
    /\ response' = 500
    /\ post' = "closed"
    /\ UNCHANGED <<job, durable, files, index, given, pc, locals, runs,
                   request, scheduled, fault, polled>>

\* A dependency that cannot be built, a failed commit, no active embedding
\* model, a broken upload stream: the request ends with 500, its uncommitted
\* rows are rolled back and the committed ones stay.
HandlerRaises ==
    /\ post \in {"receive", "commit", "resolve", "read"}
    /\ Authenticated(request)
    /\ response' = 500
    /\ post' = "closed"
    /\ rows' = IF rows = "session" THEN "absent" ELSE rows
    /\ UNCHANGED <<vars, request, scheduled, fault, polled>>

-----------------------------------------------------------------------------
(* Behind the response.                                                    *)

\* Mutant: a dispatcher picks up every committed job row.
DispatchableByRow == rows = "committed"

\* Starlette runs the queued task once the response is out.
Dispatchable == scheduled /\ post = "background"

StartBackground ==
    /\ Dispatchable
    /\ StartRun
    /\ scheduled' = FALSE
    /\ post' = "running"
    /\ UNCHANGED <<request, response, rows, fault, polled>>

BackgroundStep ==
    /\ RunStep
    /\ UNCHANGED service

\* The database goes away under the run: fail() or the commit raises.
SessionLost ==
    /\ fault = "none"
    /\ Abandon
    /\ fault' = "database"
    /\ UNCHANGED <<request, post, response, rows, scheduled, polled>>

\* get_session() commits again and closes; nothing is left to commit.
Teardown ==
    /\ post = "running"
    /\ pc = "idle"
    /\ post' = "closed"
    /\ rows' = IF rows = "session" THEN "committed" ELSE rows
    /\ UNCHANGED <<vars, request, response, scheduled, fault, polled>>

AdminEdits ==
    /\ EditVersion
    /\ UNCHANGED service

\* The process dies: the handler, the queued task, the run and every open
\* session go with it.
Die ==
    /\ fault # "process"
    /\ fault' = "process"
    /\ post' = "closed"
    /\ scheduled' = FALSE
    /\ rows' = IF rows = "session" THEN "absent" ELSE rows
    /\ pc' = "idle"
    /\ job' = durable
    /\ UNCHANGED <<durable, files, index, version, given, locals, runs,
                   request, response, polled>>

NotFound == [code |-> 404, status |-> "unknown", progress |-> 0, errors |-> FALSE]

\* Mutant: a poll answers from the row the run is working on.
StatusOfSession ==
    [code |-> 200, status |-> MapPhaseToStatus(job.phase),
     progress |-> job.progress, errors |-> job.phase = "failed"]

StatusOfJob ==
    [code |-> 200, status |-> MapPhaseToStatus(durable.phase),
     progress |-> durable.progress, errors |-> durable.phase = "failed"]

\* get_ingest_status in a session of its own, in this process or the next.
Poll ==
    /\ polled' = IF rows = "committed" THEN StatusOfJob ELSE NotFound
    /\ UNCHANGED <<vars, request, post, response, rows, scheduled, fault>>

Handler == Reject \/ CreateRows \/ CommitRows \/ ResolveTarget \/ ReadFile
              \/ Schedule \/ Respond \/ CommitUnanswered \/ HandlerRaises

ServiceNext ==
    \/ Handler
    \/ StartBackground
    \/ BackgroundStep
    \/ SessionLost
    \/ Teardown
    \/ AdminEdits
    \/ Die
    \/ Poll

\* The event loop keeps running the handler, the thread pool the task.
ServiceSpec ==
    /\ ServiceInit /\ [][ServiceNext]_all
    /\ WF_all(Handler \/ Teardown)
    /\ WF_all(StartBackground)
    /\ WF_all(BackgroundStep)

-----------------------------------------------------------------------------
(* Properties.                                                             *)

\* The caller of a successful upload can poll at once: the rows are durable
\* before the answer leaves, not when the request's session is torn down.
AcknowledgedIsDurable == response = 200 => rows = "committed"

\* The background run never misses a row its own session has to see: it
\* starts only when job, document and version are committed.
RunFindsItsRows == pc # "idle" => rows = "committed" /\ version.exists

Acceptable(r) ==
    Authentic(r.settings, r.headers) /\ r.mimeSupported /\ r.acl = "valid"

\* An upload that was turned away left nothing behind, neither rows nor
\* points, and will not later.
RejectedLeavesNothing ==
    (response \in {400, 401, 415} \/ ~Acceptable(request)) => rows = "absent" /\ index = {}

\* A caller who cannot be authenticated is told so with 401, whatever the checks
\* of the handler would say of the upload and however the token fails: auth.py
\* catches TypeError and ValueError lest they "leak through as an uncaught 500".
\* (Keys outside ASCII, for which compare_digest raises, do leak through.  A body
\* that the framework cannot parse is turned away before the authentication.)
UnauthenticatedGets401 ==
    /\ response # 0
    /\ ~Authentic(request.settings, request.headers)
    /\ RequireAuth(request.settings, request.headers) = "raised"
          => request.headers.api_key = None
    => response = 401

\* A caller who was answered with an error never finds the document in the
\* index later, even when its rows had already been committed.
ErrorNeverPublishes == response \notin {0, 200} => index = {} /\ pc = "idle"

\* Successive polls of one document are consistent: once it is known it is
\* never unknown again, progress and status never fall back, errors come
\* with a failed job only, and "ready" and "failed" are final.
PollsConsistent ==
    [][/\ polled.code = 200 => polled'.code = 200
       /\ polled'.progress >= polled.progress
       /\ StatusRank(polled'.status) >= StatusRank(polled.status)
       /\ polled.status \in Settled => polled' = polled
       /\ polled'.errors <=> polled'.status = "failed"]_polled

\* When the request of an acknowledged upload has been torn down, its job has
\* a verdict on record, unless the process or the database went down: the task
\* commits in its finally block, whatever the pipeline did, and a job that is
\* neither running nor queued is never left as if it were.
ClosedIsSettled ==
    response = 200 /\ post = "closed" /\ fault = "none" => durable.phase \in Settled

\* The client of an upload sees what UploadPromise says, across the handler,
\* the background run, its failures, and polls at any moment.
Promise == INSTANCE UploadPromise
              WITH answer <- response, told <- polled.status,
                   searchable <- AllChunksIndexed
KeepsPromise == Promise!Spec

\* An acknowledged upload is eventually ready or failed for those who poll,
\* unless its process dies or the run's database session is lost.
AcknowledgedSettles ==
    response = 200 ~> (durable.phase \in Settled \/ fault # "none")

\* ingest/parsing.py says of UnsupportedFormatError that the HTTP layer maps
\* it to a 415: an upload whose name no parser accepts is never acknowledged.
UnsupportedIsRefused == upload.format = "unsupported" => response # 200

=============================================================================
