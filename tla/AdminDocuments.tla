---------------------------- MODULE AdminDocuments ----------------------------
(***************************************************************************)
(* PUT and GET /v1/admin/documents on one document                          *)
(* (api/admin_routes.py, admin/document_store.py).                          *)
(*                                                                          *)
(* The handlers are coroutines whose database calls block: a handler keeps  *)
(* its worker's event loop from its first statement to its return, also     *)
(* while it waits for a row lock.  The session is a dependency of the       *)
(* request and is committed after the answer was sent, on a pool thread     *)
(* that the event loop has to get round to starting (get_session in         *)
(* api/ingest_routes.py).  The locks of the two UPDATE statements, one per  *)
(* table, are held until then.  Statements read what is committed when they *)
(* start, and an UPDATE that waited for a lock merges into the row as it    *)
(* then is.                                                                 *)
(***************************************************************************)
EXTENDS Naturals, FiniteSets

CONSTANTS
    Requests,   \* the PUT requests
    Workers,    \* the server processes, each with one event loop
    Bodies,     \* the bodies considered
    Value,      \* the values of a field
    Unset       \* None: a field that a body does not name

\* The columns of documents and of document_versions that a PUT can change.
DocField == {"lifecycle", "authority"}
AclField == {"principals", "retention"}
Field == DocField \union AclField

Changes == UNION {[S -> Value] : S \in SUBSET Field}

\* acl says that the body has an acl object, be it an empty one; valid that
\* every state it names is one of the literals.
Body == [set : Changes, acl : BOOLEAN, valid : BOOLEAN]

ASSUME BodiesAssumption ==
    \A b \in Bodies : b \in Body /\ (DOMAIN b.set \cap AclField # {} => b.acl)
ASSUME UnsetAssumption == Unset \notin Value
ASSUME WorkersAssumption == Workers # {}
ASSUME RequestsAssumption == IsFiniteSet(Requests)

VARIABLES
    body,       \* the body of each request
    home,       \* the worker each request reaches
    busy,       \* is the worker's event loop held by a handler?
    stage,      \* where each request is
    code,       \* the status it was answered with, 0 before
    pending,    \* its uncommitted column values, and so its row locks
    now,        \* the time it took for updated_at
    summary,    \* the fields as it read them, for the answer
    row,        \* the committed fields
    updated,    \* the committed updated_at
    exists,     \* which of the two rows are there
    clock,      \* the time
    applied,    \* the requests whose session committed something, or succeeded
    get         \* one GET: where it is, whom it follows, what it saw

requests == <<body, home>>
store == <<row, updated, exists, applied>>
vars == <<body, home, busy, stage, code, pending, now, summary, row, updated,
          exists, clock, applied, get>>

Stage == {"arrived", "select_document", "update_document", "select_version",
          "update_version", "answered", "committing", "raised", "rolling_back",
          "closed"}

Statement ==
    {"select_document", "update_document", "select_version", "update_version"}

DocTypeOK ==
    /\ body \in [Requests -> Bodies]
    /\ home \in [Requests -> Workers]
    /\ busy \in [Workers -> BOOLEAN]
    /\ stage \in [Requests -> Stage]
    /\ code \in [Requests -> {0, 200, 400, 404, 500}]
    /\ pending \in [Requests -> Changes]
    /\ now \in [Requests -> Nat]
    /\ summary \in [Requests -> [Field -> Value]]
    /\ row \in [Field -> Value]
    /\ updated \in Nat
    /\ exists \in [document : BOOLEAN, version : BOOLEAN]
    /\ clock \in Nat
    /\ applied \subseteq Requests
    /\ get \in [stage : {"none", "acl", "done"}, home : Workers,
               known : SUBSET Requests, saw : [Field -> Value]]

Nothing == [f \in {} |-> Unset]

Init ==
    /\ body \in [Requests -> Bodies]
    /\ home \in [Requests -> Workers]
    /\ busy = [w \in Workers |-> FALSE]
    /\ stage = [r \in Requests |-> "arrived"]
    /\ code = [r \in Requests |-> 0]
    /\ pending = [r \in Requests |-> Nothing]
    /\ now = [r \in Requests |-> 0]
    /\ \E v \in Value : row = [f \in Field |-> v]
    /\ summary = [r \in Requests |-> row]
    /\ updated = 0
    /\ exists \in [document : BOOLEAN, version : BOOLEAN]
    /\ exists.version => exists.document
    /\ clock = 1
    /\ applied = {}
    /\ get = [stage |-> "none", home |-> CHOOSE w \in Workers : TRUE,
              known |-> {}, saw |-> row]

\* Every request reaches a process of its own.
Apart == \A r, q \in Requests : home[r] = home[q] => r = q

-----------------------------------------------------------------------------
(* The event loop and the row locks.                                       *)

\* Mutant: the handler is a plain function, run on a thread of its own.
ThreadPerRequest(w) == TRUE

LoopFree(w) == ~busy[w]

Take(w) == LoopFree(w) /\ busy' = [busy EXCEPT ![w] = TRUE]
Release(w) == busy' = [busy EXCEPT ![w] = FALSE]

Goto(r, s) == stage' = [stage EXCEPT ![r] = s]

Part(f, S) == [x \in DOMAIN f \cap S |-> f[x]]

Overlay(new, old) ==
    [x \in DOMAIN new \union DOMAIN old |->
        IF x \in DOMAIN new THEN new[x] ELSE old[x]]

\* Nobody else has an uncommitted UPDATE of that table's row.
Unlocked(r, columns) ==
    \A q \in Requests \ {r} : DOMAIN pending[q] \cap columns = {}

\* Mutant: fields the body leaves out are written as None.
ValuesWithNone(r, columns) ==
    Overlay(Part(body[r].set, columns), [f \in columns |-> Unset])

\* Mutant: fields the body leaves out are written as they were read.
ValuesAsRead(r, columns) ==
    Overlay(Part(body[r].set, columns), Part(summary[r], columns))

\* What the UPDATE of one table sets: only what the body names.
Values(r, columns) == Part(body[r].set, columns)

\* At most one UPDATE per table, and none if there is nothing to set.
Update(r, columns) ==
    IF DOMAIN body[r].set \cap columns = {}
    THEN UNCHANGED pending
    ELSE /\ Unlocked(r, columns)
         /\ pending' = [pending EXCEPT ![r] = Overlay(Values(r, columns), @)]

-----------------------------------------------------------------------------
(* PUT /v1/admin/documents/{document_id}.                                  *)

Acceptable(b) == b.valid /\ (b.acl \/ DOMAIN b.set # {})

Receive(r) ==
    /\ stage[r] = "arrived"
    /\ Acceptable(body[r])
    /\ Take(home[r])
    /\ Goto(r, "select_document")
    /\ UNCHANGED <<requests, code, pending, now, summary, store, clock, get>>

RejectBody(r) ==
    /\ stage[r] = "arrived"
    /\ ~Acceptable(body[r])
    /\ LoopFree(home[r])
    /\ code' = [code EXCEPT ![r] = 400]
    /\ Goto(r, "answered")
    /\ UNCHANGED <<requests, busy, pending, now, summary, store, clock, get>>

SelectDocument(r) ==
    /\ stage[r] = "select_document"
    /\ exists.document
    /\ summary' = [summary EXCEPT ![r] = Overlay(Part(row, DocField), @)]
    /\ now' = [now EXCEPT ![r] = clock]
    /\ clock' = clock + 1
    /\ Goto(r, "update_document")
    /\ UNCHANGED <<requests, busy, code, pending, store, get>>

DocumentNotFound(r) ==
    /\ stage[r] = "select_document"
    /\ ~exists.document
    /\ code' = [code EXCEPT ![r] = 404]
    /\ Release(home[r])
    /\ Goto(r, "answered")
    /\ UNCHANGED <<requests, pending, now, summary, store, clock, get>>

UpdateDocument(r) ==
    /\ stage[r] = "update_document"
    /\ Update(r, DocField)
    /\ Goto(r, "select_version")
    /\ UNCHANGED <<requests, busy, code, now, summary, store, clock, get>>

SelectVersion(r) ==
    /\ stage[r] = "select_version"
    /\ exists.version
    /\ summary' = [summary EXCEPT ![r] = Overlay(Part(row, AclField), @)]
    /\ Goto(r, "update_version")
    /\ UNCHANGED <<requests, busy, code, pending, now, store, clock, get>>

\* Mutant: the error is caught and answered with 404.
MissingAclIs404(r) ==
    /\ stage[r] = "select_version"
    /\ ~exists.version
    /\ body[r].acl
    /\ code' = [code EXCEPT ![r] = 404]
    /\ Goto(r, "answered")
    /\ Release(home[r])
    /\ UNCHANGED <<requests, pending, now, summary, store, clock, get>>

\* No version row: an edit with an acl raises, one without goes on.
MissingAclVersion(r) ==
    /\ stage[r] = "select_version"
    /\ ~exists.version
    /\ body[r].acl
    /\ Goto(r, "raised")
    /\ Release(home[r])
    /\ UNCHANGED <<requests, code, pending, now, summary, store, clock, get>>

NoVersionNeeded(r) ==
    /\ stage[r] = "select_version"
    /\ ~exists.version
    /\ ~body[r].acl
    /\ Goto(r, "update_version")
    /\ UNCHANGED <<requests, busy, code, pending, now, summary, store, clock,
                   get>>

\* The last statement, and the answer: what was read, overlaid with what was
\* asked for.
UpdateVersion(r) ==
    /\ stage[r] = "update_version"
    /\ Update(r, AclField)
    /\ summary' = [summary EXCEPT ![r] = Overlay(body[r].set, @)]
    /\ code' = [code EXCEPT ![r] = 200]
    /\ Release(home[r])
    /\ Goto(r, "answered")
    /\ UNCHANGED <<requests, now, store, clock, get>>

\* The database refuses a statement or is gone.
StatementFails(r) ==
    /\ stage[r] \in Statement
    /\ Goto(r, "raised")
    /\ Release(home[r])
    /\ UNCHANGED <<requests, code, pending, now, summary, store, clock, get>>

-----------------------------------------------------------------------------
(* The end of a request's session.                                         *)

\* The event loop hands the exit of get_session to a pool thread.
StartTeardown(r) ==
    /\ LoopFree(home[r])
    /\ \/ stage[r] = "answered" /\ Goto(r, "committing")
       \/ stage[r] = "raised" /\ Goto(r, "rolling_back")
    /\ UNCHANGED <<requests, busy, code, pending, now, summary, store, clock,
                   get>>

Unlock(r) == pending' = [pending EXCEPT ![r] = Nothing]

Commit(r) ==
    /\ stage[r] = "committing"
    /\ row' = Overlay(pending[r], row)
    /\ updated' = IF DOMAIN pending[r] \cap DocField = {}
                  THEN updated ELSE now[r]
    /\ applied' = IF code[r] = 200 \/ DOMAIN pending[r] # {}
                  THEN applied \union {r} ELSE applied
    /\ Unlock(r)
    /\ Goto(r, "closed")
    /\ UNCHANGED <<requests, busy, code, now, summary, exists, clock, get>>

\* The commit fails; the answer is out.
CommitFails(r) ==
    /\ stage[r] = "committing"
    /\ Unlock(r)
    /\ Goto(r, "closed")
    /\ UNCHANGED <<requests, busy, code, now, summary, store, clock, get>>

\* Mutant: the session is not closed when the handler raised.
LeaveSessionOpen(r) == UNCHANGED <<pending, store>>

CloseSession(r) == Unlock(r) /\ UNCHANGED store

\* Closing a session that was not committed rolls it back; then the error
\* goes out.
Rollback(r) ==
    /\ stage[r] = "rolling_back"
    /\ CloseSession(r)
    /\ code' = [code EXCEPT ![r] = 500]
    /\ Goto(r, "closed")
    /\ UNCHANGED <<requests, busy, now, summary, clock, get>>

-----------------------------------------------------------------------------
(* FakeDocumentStore.update_document, with which the tests exercise the     *)
(* handler: one step, without session, statements or locks.                 *)

FakeCode(r) ==
    CASE ~exists.document -> 404
      [] exists.document /\ body[r].acl /\ ~exists.version -> 500
      [] OTHER -> 200

\* Unlike the SQL store it sets updated_at whatever the body names.
FakeUpdateDocument(r) ==
    IF FakeCode(r) = 200
    THEN [fields |-> Overlay(body[r].set, row), updated_at |-> clock]
    ELSE [fields |-> row, updated_at |-> updated]

-----------------------------------------------------------------------------
(* GET /v1/admin/documents: the page of documents, then their current ACLs. *)

ListDocuments(w) ==
    /\ get.stage = "none"
    /\ exists.document
    /\ Take(w)
    /\ get' = [stage |-> "acl", home |-> w,
               known |-> {r \in Requests : code[r] = 200},
               saw |-> Overlay(Part(row, DocField), get.saw)]
    /\ UNCHANGED <<requests, stage, code, pending, now, summary, store, clock>>

FetchCurrentAcl ==
    /\ get.stage = "acl"
    /\ get' = [get EXCEPT !.stage = "done",
                          !.saw = Overlay(Part(row, AclField), @)]
    /\ Release(get.home)
    /\ UNCHANGED <<requests, stage, code, pending, now, summary, store, clock>>

-----------------------------------------------------------------------------

Handle(r) ==
    \/ Receive(r)
    \/ RejectBody(r)
    \/ SelectDocument(r)
    \/ DocumentNotFound(r)
    \/ UpdateDocument(r)
    \/ SelectVersion(r)
    \/ MissingAclVersion(r)
    \/ NoVersionNeeded(r)
    \/ UpdateVersion(r)
    \/ StartTeardown(r)
    \/ Commit(r)
    \/ Rollback(r)

Get == FetchCurrentAcl \/ \E w \in Workers : ListDocuments(w)

Next ==
    \/ \E r \in Requests : Handle(r) \/ StatementFails(r) \/ CommitFails(r)
    \/ Get

Spec == Init /\ [][Next]_vars

\* Event loops and pool threads keep going; PostgreSQL grants a free lock.
Fairness ==
    /\ \A r \in Requests : WF_vars(Handle(r))
    /\ WF_vars(FetchCurrentAcl)

FairSpec == Spec /\ Fairness

-----------------------------------------------------------------------------
(* Properties.                                                             *)

\* Concurrent edits neither overwrite nor split one another: however their
\* statements, lock waits and commits interleave, the committed document
\* changes only by one whole edit, laid over the document as it then is.
Edits == INSTANCE DocumentEdits
EditsAreAtomic == Edits!Spec

\* A caller who was answered with an error changed nothing, also when the
\* error came after the first of the two UPDATEs (MissingAclVersionError).
ErrorChangesNothing ==
    \A r \in Requests : code[r] \notin {0, 200} => r \notin applied

\* What tests of the test store show of the handler, and what they do not.
\* Whatever the statements of several PUTs do in between, a PUT is answered
\* with success or with 404 where the test store would be, and its fields are
\* then what the test store makes of the row in one step; the first PUT answers
\* with these fields.  Of updated_at the tests say nothing for an edit of the ACL
\* alone: the test store sets it in every case, the SQL store just if the body
\* names a column of documents.
SameEditAsTestStore ==
    [][\A r \in Requests :
          /\ code'[r] \in {200, 404} => code'[r] = FakeCode(r)
          /\ r \in applied' \ applied =>
                /\ row' = FakeUpdateDocument(r).fields
                /\ FakeUpdateDocument(r).updated_at # updated
                /\ updated' # updated <=> DOMAIN body[r].set \cap DocField # {}
                /\ applied = {} => summary[r] = row']_vars

\* updated_at never goes back, although every edit takes the time before it
\* waits for the row.
UpdatedAtAdvances == [][updated' >= updated]_vars

\* Every PUT whose handler has started is answered.
EveryPutAnswered ==
    \A r \in Requests : stage[r] = "select_document" ~> code[r] # 0

\* An edit that was answered with success is observable on a subsequent GET
\* (.scratch/api-surface/issues/03-admin-document-management.md): each field
\* the edit names then has its value or that of another edit.
EditObservable ==
    get.stage = "done" =>
        \A r \in get.known : \A f \in DOMAIN body[r].set :
            \E q \in Requests :
                f \in DOMAIN body[q].set /\ get.saw[f] = body[q].set[f]

=============================================================================
