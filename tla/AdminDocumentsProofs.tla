------------------------- MODULE AdminDocumentsProofs -------------------------
(***************************************************************************)
(* Theorems about AdminDocuments, for any number of requests and of server  *)
(* processes and for any bodies.                                            *)
(***************************************************************************)
EXTENDS AdminDocuments, TLAPS

-----------------------------------------------------------------------------
(* Changes, their parts and what they overlay.                             *)

LEMMA ChangesAreFunctions ==
    ASSUME NEW c
    PROVE  c \in Changes <=>
               DOMAIN c \subseteq Field /\ c \in [DOMAIN c -> Value]
<1>1. ASSUME c \in Changes
      PROVE  DOMAIN c \subseteq Field /\ c \in [DOMAIN c -> Value]
  <2> PICK S \in SUBSET Field : c \in [S -> Value]
    BY <1>1 DEF Changes
  <2> QED
    OBVIOUS
<1>2. ASSUME DOMAIN c \subseteq Field, c \in [DOMAIN c -> Value]
      PROVE  c \in Changes
  BY <1>2 DEF Changes
<1> QED
  BY <1>1, <1>2

LEMMA PartType ==
    ASSUME NEW c \in Changes, NEW S
    PROVE  Part(c, S) \in Changes
<1>1. DOMAIN c \subseteq Field /\ c \in [DOMAIN c -> Value]
  BY ChangesAreFunctions
<1>2. /\ DOMAIN Part(c, S) \subseteq Field
      /\ Part(c, S) \in [DOMAIN Part(c, S) -> Value]
  BY <1>1 DEF Part
<1> QED
  BY <1>2, ChangesAreFunctions

LEMMA OverlayType ==
    ASSUME NEW c \in Changes, NEW d \in Changes
    PROVE  Overlay(c, d) \in Changes
<1>1. /\ DOMAIN c \subseteq Field /\ c \in [DOMAIN c -> Value]
      /\ DOMAIN d \subseteq Field /\ d \in [DOMAIN d -> Value]
  BY ChangesAreFunctions
<1>2. /\ DOMAIN Overlay(c, d) \subseteq Field
      /\ Overlay(c, d) \in [DOMAIN Overlay(c, d) -> Value]
  BY <1>1 DEF Overlay
<1> QED
  BY <1>2, ChangesAreFunctions

\* A whole row of fields stays one when changes are laid over it.
LEMMA OverlayRow ==
    ASSUME NEW c \in Changes, NEW d \in [Field -> Value]
    PROVE  /\ Overlay(c, d) \in [Field -> Value]
           /\ Overlay(c, d) =
                  [f \in Field |-> IF f \in DOMAIN c THEN c[f] ELSE d[f]]
<1>1. DOMAIN c \subseteq Field /\ c \in [DOMAIN c -> Value]
  BY ChangesAreFunctions
<1>2. DOMAIN c \union DOMAIN d = Field
  BY <1>1
<1>3. \A f \in DOMAIN c : c[f] \in Value
  BY <1>1
<1> QED
  BY <1>1, <1>2, <1>3 DEF Overlay

LEMMA RowIsChanges == [Field -> Value] \subseteq Changes
BY DEF Changes

LEMMA NothingIsChanges == Nothing \in Changes
<1>1. DOMAIN Nothing \subseteq Field /\ Nothing \in [DOMAIN Nothing -> Value]
  BY DEF Nothing
<1> QED
  BY <1>1, ChangesAreFunctions

LEMMA OverlayNothing ==
    ASSUME NEW c \in Changes
    PROVE  Overlay(c, Nothing) = c /\ Overlay(Nothing, c) = c
<1>1. c \in [DOMAIN c -> Value]
  BY ChangesAreFunctions
<1>2. DOMAIN c \union {} = DOMAIN c /\ {} \union DOMAIN c = DOMAIN c
  OBVIOUS
<1>3. c = [x \in DOMAIN c |-> c[x]]
  BY <1>1
<1> QED
  BY <1>2, <1>3 DEF Overlay, Nothing

\* The UPDATEs of the two tables together set what the body names.
LEMMA PartsMakeWhole ==
    ASSUME NEW c \in Changes
    PROVE  /\ Overlay(Part(c, AclField), Part(c, DocField)) = c
           /\ DOMAIN c \cap AclField = {} => Part(c, DocField) = c
           /\ DOMAIN c \cap DocField = {} => Part(c, DocField) = Nothing
<1>1. /\ DOMAIN c \subseteq DocField \union AclField
      /\ c = [x \in DOMAIN c |-> c[x]]
  BY ChangesAreFunctions DEF Field
<1>2. (DOMAIN c \cap AclField) \union (DOMAIN c \cap DocField) = DOMAIN c
  BY <1>1
<1>3. Overlay(Part(c, AclField), Part(c, DocField)) = c
  <2>1. Overlay(Part(c, AclField), Part(c, DocField)) =
            [x \in DOMAIN c |-> c[x]]
    BY <1>2 DEF Overlay, Part
  <2> QED
    BY <1>1, <2>1
<1>4. ASSUME DOMAIN c \cap AclField = {} PROVE Part(c, DocField) = c
  <2>1. DOMAIN c \cap DocField = DOMAIN c
    BY <1>2, <1>4
  <2> QED
    BY <1>1, <2>1 DEF Part
<1>5. ASSUME DOMAIN c \cap DocField = {} PROVE Part(c, DocField) = Nothing
  BY <1>5 DEF Part, Nothing
<1> QED
  BY <1>3, <1>4, <1>5

-----------------------------------------------------------------------------
(* Type correctness.                                                       *)

LEMMA BodiesType == \A b \in Bodies : b.set \in Changes
BY BodiesAssumption DEF Body

LEMMA InitType == Init => DocTypeOK
<1> SUFFICES ASSUME Init PROVE DocTypeOK
  OBVIOUS
<1>1. row \in [Field -> Value]
  BY DEF Init
<1>2. (CHOOSE w \in Workers : TRUE) \in Workers
  BY WorkersAssumption
<1>3. pending \in [Requests -> Changes]
  BY NothingIsChanges DEF Init
<1>4. get \in [stage : {"none", "acl", "done"}, home : Workers,
               known : SUBSET Requests, saw : [Field -> Value]]
  BY <1>1, <1>2 DEF Init
<1> QED
  BY <1>1, <1>3, <1>4 DEF Init, DocTypeOK, Stage

\* An UPDATE leaves well-formed uncommitted values.
LEMMA UpdateType ==
    ASSUME DocTypeOK, NEW r \in Requests, NEW columns, Update(r, columns)
    PROVE  pending' \in [Requests -> Changes]
<1>1. pending \in [Requests -> Changes] /\ body[r].set \in Changes
  BY BodiesType DEF DocTypeOK
<1>2. Overlay(Values(r, columns), pending[r]) \in Changes
  BY <1>1, PartType, OverlayType DEF Values
<1> QED
  BY <1>1, <1>2 DEF Update

\* What is read is laid over whole rows of fields.
LEMMA ReadType ==
    ASSUME DocTypeOK, NEW columns, NEW d \in [Field -> Value]
    PROVE  Overlay(Part(row, columns), d) \in [Field -> Value]
<1>1. Part(row, columns) \in Changes
  BY RowIsChanges, PartType DEF DocTypeOK
<1> QED
  BY <1>1, OverlayRow

LEMMA NextType == DocTypeOK /\ [Next]_vars => DocTypeOK'
<1> SUFFICES ASSUME DocTypeOK, [Next]_vars PROVE DocTypeOK'
  OBVIOUS
<1> USE DEF DocTypeOK, Stage, Goto, Take, Release, LoopFree, requests, store
<1>1. ASSUME NEW r \in Requests, Receive(r) PROVE DocTypeOK'
  <2>1. stage' \in [Requests -> Stage] /\ busy' \in [Workers -> BOOLEAN]
    BY <1>1 DEF Receive
  <2> QED
    BY <1>1, <2>1 DEF Receive
<1>2. ASSUME NEW r \in Requests, RejectBody(r) PROVE DocTypeOK'
  BY <1>2 DEF RejectBody
<1>3. ASSUME NEW r \in Requests, SelectDocument(r) PROVE DocTypeOK'
  <2>1. Overlay(Part(row, DocField), summary[r]) \in [Field -> Value]
    BY ReadType
  <2>2. summary' \in [Requests -> [Field -> Value]]
    BY <1>3, <2>1 DEF SelectDocument
  <2> QED
    BY <1>3, <2>2 DEF SelectDocument
<1>4. ASSUME NEW r \in Requests, DocumentNotFound(r) PROVE DocTypeOK'
  BY <1>4 DEF DocumentNotFound
<1>5. ASSUME NEW r \in Requests, UpdateDocument(r) PROVE DocTypeOK'
  <2>1. pending' \in [Requests -> Changes]
    BY <1>5, UpdateType DEF UpdateDocument
  <2> QED
    BY <1>5, <2>1 DEF UpdateDocument
<1>6. ASSUME NEW r \in Requests, SelectVersion(r) PROVE DocTypeOK'
  <2>1. Overlay(Part(row, AclField), summary[r]) \in [Field -> Value]
    BY ReadType
  <2>2. summary' \in [Requests -> [Field -> Value]]
    BY <1>6, <2>1 DEF SelectVersion
  <2> QED
    BY <1>6, <2>2 DEF SelectVersion
<1>7. ASSUME NEW r \in Requests, MissingAclVersion(r) PROVE DocTypeOK'
  BY <1>7 DEF MissingAclVersion
<1>8. ASSUME NEW r \in Requests, NoVersionNeeded(r) PROVE DocTypeOK'
  BY <1>8 DEF NoVersionNeeded
<1>9. ASSUME NEW r \in Requests, UpdateVersion(r) PROVE DocTypeOK'
  <2>1. pending' \in [Requests -> Changes]
    BY <1>9, UpdateType DEF UpdateVersion
  <2>2. body[r].set \in Changes
    BY BodiesType
  <2>3. Overlay(body[r].set, summary[r]) \in [Field -> Value]
    BY <2>2, OverlayRow
  <2> QED
    BY <1>9, <2>1, <2>3 DEF UpdateVersion
<1>10. ASSUME NEW r \in Requests, StatementFails(r) PROVE DocTypeOK'
  BY <1>10 DEF StatementFails
<1>11. ASSUME NEW r \in Requests, StartTeardown(r) PROVE DocTypeOK'
  BY <1>11 DEF StartTeardown
<1>12. ASSUME NEW r \in Requests, Commit(r) PROVE DocTypeOK'
  <2>1. Overlay(pending[r], row) \in [Field -> Value]
    BY OverlayRow
  <2>2. pending' \in [Requests -> Changes]
    BY <1>12, NothingIsChanges DEF Commit, Unlock
  <2>3. updated' \in Nat /\ applied' \subseteq Requests
    BY <1>12 DEF Commit
  <2> QED
    BY <1>12, <2>1, <2>2, <2>3 DEF Commit
<1>13. ASSUME NEW r \in Requests, CommitFails(r) PROVE DocTypeOK'
  <2>1. pending' \in [Requests -> Changes]
    BY <1>13, NothingIsChanges DEF CommitFails, Unlock
  <2> QED
    BY <1>13, <2>1 DEF CommitFails
<1>14. ASSUME NEW r \in Requests, Rollback(r) PROVE DocTypeOK'
  <2>1. pending' \in [Requests -> Changes]
    BY <1>14, NothingIsChanges DEF Rollback, CloseSession, Unlock
  <2> QED
    BY <1>14, <2>1 DEF Rollback, CloseSession
<1>15. ASSUME NEW w \in Workers, ListDocuments(w) PROVE DocTypeOK'
  <2>1. Overlay(Part(row, DocField), get.saw) \in [Field -> Value]
    BY ReadType
  <2>2. get' \in [stage : {"none", "acl", "done"}, home : Workers,
                  known : SUBSET Requests, saw : [Field -> Value]]
    BY <1>15, <2>1 DEF ListDocuments
  <2> QED
    BY <1>15, <2>2 DEF ListDocuments
<1>16. CASE FetchCurrentAcl
  <2>1. Overlay(Part(row, AclField), get.saw) \in [Field -> Value]
    BY ReadType
  <2>2. get' \in [stage : {"none", "acl", "done"}, home : Workers,
                  known : SUBSET Requests, saw : [Field -> Value]]
    BY <1>16, <2>1 DEF FetchCurrentAcl
  <2> QED
    BY <1>16, <2>2 DEF FetchCurrentAcl
<1>17. CASE UNCHANGED vars
  BY <1>17 DEF vars
<1> QED
  BY <1>1, <1>2, <1>3, <1>4, <1>5, <1>6, <1>7, <1>8, <1>9, <1>10,
     <1>11, <1>12, <1>13, <1>14, <1>15, <1>16, <1>17 DEF Next, Handle, Get

\* Every variable keeps its type, in particular every row stays whole and
\* every uncommitted change names fields of the document only.
THEOREM DocumentsTypeCorrect == Spec => []DocTypeOK
BY InitType, NextType, PTL DEF Spec

-----------------------------------------------------------------------------
(* The inductive invariant: what a request has written but not committed is *)
(* what its statements so far set, and by the time it was answered with     *)
(* success it is all that its body names.                                   *)

WrittenSoFar(r) ==
    /\ stage[r] \in {"arrived", "select_document", "update_document"} =>
           code[r] = 0 /\ pending[r] = Nothing
    /\ stage[r] \in {"select_version", "update_version"} =>
           code[r] = 0 /\ pending[r] = Part(body[r].set, DocField)
    /\ stage[r] \in {"answered", "committing"} =>
           \/ code[r] = 200 /\ pending[r] = body[r].set
           \/ code[r] \in {400, 404} /\ pending[r] = Nothing
    /\ stage[r] \in {"raised", "rolling_back"} => code[r] = 0
    /\ stage[r] = "closed" => pending[r] = Nothing
    /\ r \in applied => stage[r] = "closed" /\ code[r] = 200

EditInv == \A r \in Requests : WrittenSoFar(r)

LEMMA InitEdit == Init => EditInv
BY DEF Init, EditInv, WrittenSoFar

\* The two UPDATEs, as far as they have something to set.
LEMMA FirstUpdate ==
    ASSUME DocTypeOK, NEW r \in Requests, pending[r] = Nothing,
           Update(r, DocField)
    PROVE  pending'[r] = Part(body[r].set, DocField)
<1>1. body[r].set \in Changes
  BY BodiesType DEF DocTypeOK
<1>2. CASE DOMAIN body[r].set \cap DocField = {}
  BY <1>1, <1>2, PartsMakeWhole DEF Update
<1>3. CASE DOMAIN body[r].set \cap DocField # {}
  <2>1. Overlay(Values(r, DocField), Nothing) = Part(body[r].set, DocField)
    BY <1>1, PartType, OverlayNothing DEF Values
  <2>2. pending' =
            [pending EXCEPT ![r] = Overlay(Values(r, DocField), pending[r])]
    BY <1>3 DEF Update
  <2> QED
    BY <2>1, <2>2 DEF DocTypeOK
<1> QED
  BY <1>2, <1>3

LEMMA SecondUpdate ==
    ASSUME DocTypeOK, NEW r \in Requests,
           pending[r] = Part(body[r].set, DocField), Update(r, AclField)
    PROVE  pending'[r] = body[r].set
<1>1. body[r].set \in Changes
  BY BodiesType DEF DocTypeOK
<1>2. CASE DOMAIN body[r].set \cap AclField = {}
  BY <1>1, <1>2, PartsMakeWhole DEF Update
<1>3. CASE DOMAIN body[r].set \cap AclField # {}
  <2>1. Overlay(Values(r, AclField), pending[r]) = body[r].set
    BY <1>1, PartsMakeWhole DEF Values
  <2>2. pending' =
            [pending EXCEPT ![r] = Overlay(Values(r, AclField), pending[r])]
    BY <1>3 DEF Update
  <2> QED
    BY <2>1, <2>2 DEF DocTypeOK
<1> QED
  BY <1>2, <1>3

LEMMA UpdateOfOthers ==
    ASSUME DocTypeOK, NEW r \in Requests, NEW q \in Requests, q # r,
           NEW columns, Update(r, columns)
    PROVE  pending'[q] = pending[q]
BY DEF Update, DocTypeOK

LEMMA NextEdit == DocTypeOK /\ EditInv /\ [Next]_vars => EditInv'
<1> SUFFICES ASSUME DocTypeOK, EditInv, [Next]_vars,
                    NEW q \in Requests
             PROVE  WrittenSoFar(q)'
  BY DEF EditInv
<1>0. WrittenSoFar(q)
  BY DEF EditInv
<1> USE DEF Goto, requests, store
<1>1. ASSUME NEW r \in Requests, UpdateDocument(r) PROVE WrittenSoFar(q)'
  <2>1. CASE q = r
    <3>1. pending'[q] = Part(body[q].set, DocField)
      BY <1>0, <1>1, <2>1, FirstUpdate DEF UpdateDocument, WrittenSoFar
    <3> QED
      BY <1>0, <1>1, <2>1, <3>1 DEF UpdateDocument, WrittenSoFar, DocTypeOK
  <2>2. CASE q # r
    <3>1. pending'[q] = pending[q]
      BY <1>1, <2>2, UpdateOfOthers DEF UpdateDocument
    <3>2. /\ body' = body /\ applied' = applied
          /\ stage'[q] = stage[q] /\ code'[q] = code[q]
      BY <1>1, <2>2 DEF UpdateDocument, DocTypeOK
    <3> QED
      BY <1>0, <3>1, <3>2 DEF WrittenSoFar
  <2> QED
    BY <2>1, <2>2
<1>2. ASSUME NEW r \in Requests, UpdateVersion(r) PROVE WrittenSoFar(q)'
  <2>1. CASE q = r
    <3>1. pending'[q] = body[q].set
      BY <1>0, <1>2, <2>1, SecondUpdate DEF UpdateVersion, WrittenSoFar
    <3> QED
      BY <1>0, <1>2, <2>1, <3>1 DEF UpdateVersion, WrittenSoFar, DocTypeOK
  <2>2. CASE q # r
    <3>1. pending'[q] = pending[q]
      BY <1>2, <2>2, UpdateOfOthers DEF UpdateVersion
    <3>2. /\ body' = body /\ applied' = applied
          /\ stage'[q] = stage[q] /\ code'[q] = code[q]
      BY <1>2, <2>2 DEF UpdateVersion, DocTypeOK
    <3> QED
      BY <1>0, <3>1, <3>2 DEF WrittenSoFar
  <2> QED
    BY <2>1, <2>2
<1>3. ASSUME NEW r \in Requests, Receive(r) PROVE WrittenSoFar(q)'
  BY <1>0, <1>3 DEF Receive, WrittenSoFar, DocTypeOK
<1>4. ASSUME NEW r \in Requests, RejectBody(r) PROVE WrittenSoFar(q)'
  BY <1>0, <1>4 DEF RejectBody, WrittenSoFar, DocTypeOK
<1>5. ASSUME NEW r \in Requests, SelectDocument(r) PROVE WrittenSoFar(q)'
  BY <1>0, <1>5 DEF SelectDocument, WrittenSoFar, DocTypeOK
<1>6. ASSUME NEW r \in Requests, DocumentNotFound(r) PROVE WrittenSoFar(q)'
  BY <1>0, <1>6 DEF DocumentNotFound, WrittenSoFar, DocTypeOK
<1>7. ASSUME NEW r \in Requests, SelectVersion(r) PROVE WrittenSoFar(q)'
  BY <1>0, <1>7 DEF SelectVersion, WrittenSoFar, DocTypeOK
<1>8. ASSUME NEW r \in Requests, MissingAclVersion(r) PROVE WrittenSoFar(q)'
  BY <1>0, <1>8 DEF MissingAclVersion, WrittenSoFar, DocTypeOK
<1>9. ASSUME NEW r \in Requests, NoVersionNeeded(r) PROVE WrittenSoFar(q)'
  BY <1>0, <1>9 DEF NoVersionNeeded, WrittenSoFar, DocTypeOK
<1>10. ASSUME NEW r \in Requests, StatementFails(r) PROVE WrittenSoFar(q)'
  BY <1>0, <1>10 DEF StatementFails, Statement, WrittenSoFar, DocTypeOK
<1>11. ASSUME NEW r \in Requests, StartTeardown(r) PROVE WrittenSoFar(q)'
  BY <1>0, <1>11 DEF StartTeardown, WrittenSoFar, DocTypeOK
<1>12. ASSUME NEW r \in Requests, Commit(r) PROVE WrittenSoFar(q)'
  BY <1>0, <1>12 DEF Commit, Unlock, Nothing, WrittenSoFar, DocTypeOK
<1>13. ASSUME NEW r \in Requests, CommitFails(r) PROVE WrittenSoFar(q)'
  BY <1>0, <1>13 DEF CommitFails, Unlock, WrittenSoFar, DocTypeOK
<1>14. ASSUME NEW r \in Requests, Rollback(r) PROVE WrittenSoFar(q)'
  BY <1>0, <1>14 DEF Rollback, CloseSession, Unlock, WrittenSoFar, DocTypeOK
<1>15. CASE Get
  BY <1>0, <1>15 DEF Get, ListDocuments, FetchCurrentAcl, WrittenSoFar
<1>16. CASE UNCHANGED vars
  BY <1>0, <1>16 DEF vars, WrittenSoFar
<1> QED
  BY <1>1, <1>2, <1>3, <1>4, <1>5, <1>6, <1>7, <1>8, <1>9, <1>10, <1>11,
     <1>12, <1>13, <1>14, <1>15, <1>16 DEF Next, Handle

LEMMA EditInvariant == Spec => []EditInv
<1>1. DocTypeOK /\ EditInv /\ [Next]_vars => EditInv'
  BY NextEdit
<1> QED
  BY <1>1, InitEdit, DocumentsTypeCorrect, PTL DEF Spec

\* A request that was answered with an error never takes effect, also when
\* its first UPDATE had been executed.
THEOREM ErrorsChangeNothing == Spec => []ErrorChangesNothing
<1>1. EditInv => ErrorChangesNothing
  BY DEF EditInv, WrittenSoFar, ErrorChangesNothing
<1> QED
  BY <1>1, EditInvariant, PTL

-----------------------------------------------------------------------------
(* The handlers implement DocumentEdits.                                   *)

LEMMA InitRefines == Init => Edits!Init
BY DEF Init, Edits!Init

LEMMA StepRefines ==
    DocTypeOK /\ EditInv /\ [Next]_vars => [Edits!Next]_(Edits!vars)
<1> SUFFICES ASSUME DocTypeOK, EditInv, [Next]_vars
             PROVE  Edits!Next \/ UNCHANGED <<row, body, applied>>
  BY DEF Edits!vars
<1>1. ASSUME NEW r \in Requests, Commit(r), code[r] = 200
      PROVE  Edits!Apply(r)
  <2>1. WrittenSoFar(r) /\ pending[r] \in Changes /\ row \in [Field -> Value]
    BY DEF EditInv, DocTypeOK
  <2>2. pending[r] = body[r].set /\ r \notin applied
    BY <1>1, <2>1 DEF Commit, WrittenSoFar
  <2>3. row' = [f \in Field |-> IF f \in DOMAIN body[r].set
                                THEN body[r].set[f] ELSE row[f]]
    BY <1>1, <2>1, <2>2, OverlayRow DEF Commit
  <2> QED
    BY <1>1, <2>2, <2>3 DEF Commit, Edits!Apply, requests
<1>2. ASSUME NEW r \in Requests, Commit(r), code[r] # 200
      PROVE  UNCHANGED <<row, body, applied>>
  <2>1. WrittenSoFar(r) /\ row \in Changes
    BY RowIsChanges DEF EditInv, DocTypeOK
  <2>2. pending[r] = Nothing
    BY <1>2, <2>1 DEF Commit, WrittenSoFar
  <2>3. row' = row
    BY <1>2, <2>1, <2>2, OverlayNothing DEF Commit
  <2> QED
    BY <1>2, <2>2, <2>3 DEF Commit, Nothing, requests
<1>3. ASSUME NEW r \in Requests, Handle(r), ~Commit(r)
      PROVE  UNCHANGED <<row, body, applied>>
  BY <1>3 DEF Handle, Receive, RejectBody, SelectDocument, DocumentNotFound,
     UpdateDocument, SelectVersion, MissingAclVersion, NoVersionNeeded,
     UpdateVersion, StartTeardown, Rollback, CloseSession, requests, store
<1>4. ASSUME NEW r \in Requests, StatementFails(r) \/ CommitFails(r)
      PROVE  UNCHANGED <<row, body, applied>>
  BY <1>4 DEF StatementFails, CommitFails, requests, store
<1>5. CASE Get
  BY <1>5 DEF Get, ListDocuments, FetchCurrentAcl, requests, store
<1>6. CASE UNCHANGED vars
  BY <1>6 DEF vars
<1> QED
  BY <1>1, <1>2, <1>3, <1>4, <1>5, <1>6 DEF Next, Edits!Next

\* However PUTs interleave, the committed document changes by one whole edit
\* at a time, each at most once: no update is lost or split.
THEOREM HandlersImplementEdits == Spec => EditsAreAtomic
<1>1. DocTypeOK /\ EditInv /\ [Next]_vars => [Edits!Next]_(Edits!vars)
  BY StepRefines
<1> QED
  BY <1>1, InitRefines, DocumentsTypeCorrect, EditInvariant, PTL
     DEF Spec, EditsAreAtomic, Edits!Spec

-----------------------------------------------------------------------------
(* The test store.                                                         *)

(* A request reads the committed row, so as long as nothing was applied it  *)
(* has read the row as it still is; its answer is that, with what it asked  *)
(* for laid over.  exists never changes, so the errors are those of the     *)
(* test store as well.                                                      *)

ReadSoFar(r) ==
    /\ stage[r] \in {"update_document", "select_version", "update_version"} =>
           exists.document
    /\ stage[r] = "update_version" => FakeCode(r) = 200
    /\ code[r] \in {200, 404} => code[r] = FakeCode(r)
    /\ applied = {} => summary[r] = IF code[r] = 200
                                    THEN Overlay(body[r].set, row) ELSE row

ReadInv == \A r \in Requests : ReadSoFar(r)

LEMMA InitRead == Init => ReadInv
BY DEF Init, ReadInv, ReadSoFar

\* Reading a part of a row again changes nothing.
LEMMA ReadAgain ==
    ASSUME NEW d \in [Field -> Value], NEW columns
    PROVE  Overlay(Part(d, columns), d) = d
<1>1. Part(d, columns) \in Changes
  BY RowIsChanges, PartType
<1>2. Overlay(Part(d, columns), d) =
          [f \in Field |-> IF f \in DOMAIN Part(d, columns)
                           THEN Part(d, columns)[f] ELSE d[f]]
  BY <1>1, OverlayRow
<1>3. \A f \in DOMAIN Part(d, columns) : Part(d, columns)[f] = d[f]
  BY DEF Part
<1> QED
  BY <1>2, <1>3

LEMMA NextRead == DocTypeOK /\ EditInv /\ ReadInv /\ [Next]_vars => ReadInv'
<1> SUFFICES ASSUME DocTypeOK, EditInv, ReadInv, [Next]_vars,
                    NEW q \in Requests
             PROVE  ReadSoFar(q)'
  BY DEF ReadInv
<1>0. /\ ReadSoFar(q) /\ WrittenSoFar(q)
      /\ stage \in [Requests -> Stage]
      /\ code \in [Requests -> {0, 200, 400, 404, 500}]
      /\ summary \in [Requests -> [Field -> Value]]
      /\ row \in [Field -> Value]
  BY DEF ReadInv, EditInv, DocTypeOK
<1> USE DEF Goto, requests, store
<1>1. ASSUME NEW r \in Requests,
             \/ Receive(r) \/ RejectBody(r) \/ UpdateDocument(r)
             \/ MissingAclVersion(r) \/ StatementFails(r) \/ StartTeardown(r)
             \/ CommitFails(r) \/ Rollback(r)
      PROVE  ReadSoFar(q)'
  <2>1. /\ UNCHANGED <<body, exists, applied, row, summary>>
        /\ \/ code'[q] = code[q]
           \/ code'[q] \in {400, 500} /\ code[q] = 0
    BY <1>0, <1>1 DEF Receive, RejectBody, UpdateDocument, MissingAclVersion,
       StatementFails, StartTeardown, CommitFails, Rollback, CloseSession,
       WrittenSoFar, EditInv
  <2>2. /\ stage'[q] \in {"update_document", "select_version", "update_version"} =>
               \/ stage[q] = stage'[q]
               \/ stage[q] = "update_document" /\ stage'[q] = "select_version"
    BY <1>0, <1>1 DEF Receive, RejectBody, UpdateDocument, MissingAclVersion,
       StatementFails, StartTeardown, CommitFails, Rollback, CloseSession
  <2>3. FakeCode(q)' = FakeCode(q)
    BY <2>1 DEF FakeCode
  <2> QED
    BY <1>0, <2>1, <2>2, <2>3 DEF ReadSoFar
<1>2. ASSUME NEW r \in Requests, SelectDocument(r) PROVE ReadSoFar(q)'
  <2>1. /\ UNCHANGED <<body, exists, applied, row, code>> /\ exists.document
        /\ stage'[q] = IF q = r THEN "update_document" ELSE stage[q]
        /\ summary'[q] = IF q = r THEN Overlay(Part(row, DocField), summary[r])
                         ELSE summary[q]
    BY <1>0, <1>2 DEF SelectDocument
  <2>2. q = r => code[q] = 0
    BY <1>0, <1>2 DEF SelectDocument, WrittenSoFar
  <2>3. FakeCode(q)' = FakeCode(q)
    BY <2>1 DEF FakeCode
  <2> QED
    BY <1>0, <2>1, <2>2, <2>3, ReadAgain DEF ReadSoFar
<1>3. ASSUME NEW r \in Requests, DocumentNotFound(r) PROVE ReadSoFar(q)'
  <2>1. /\ UNCHANGED <<body, exists, applied, row, summary>> /\ ~exists.document
        /\ stage'[q] = IF q = r THEN "answered" ELSE stage[q]
        /\ code'[q] = IF q = r THEN 404 ELSE code[q]
    BY <1>0, <1>3 DEF DocumentNotFound
  <2>2. q = r => code[q] = 0
    BY <1>0, <1>3 DEF DocumentNotFound, WrittenSoFar
  <2>3. FakeCode(q)' = FakeCode(q) /\ FakeCode(q) = 404
    BY <2>1 DEF FakeCode
  <2> QED
    BY <1>0, <2>1, <2>2, <2>3 DEF ReadSoFar
<1>4. ASSUME NEW r \in Requests, SelectVersion(r) PROVE ReadSoFar(q)'
  <2>1. /\ UNCHANGED <<body, exists, applied, row, code>> /\ exists.version
        /\ stage'[q] = IF q = r THEN "update_version" ELSE stage[q]
        /\ summary'[q] = IF q = r THEN Overlay(Part(row, AclField), summary[r])
                         ELSE summary[q]
    BY <1>0, <1>4 DEF SelectVersion
  <2>2. q = r => code[q] = 0 /\ exists.document
    BY <1>0, <1>4 DEF SelectVersion, WrittenSoFar, ReadSoFar
  <2>3. FakeCode(q)' = FakeCode(q) /\ (q = r => FakeCode(q) = 200)
    BY <2>1, <2>2 DEF FakeCode
  <2> QED
    BY <1>0, <2>1, <2>2, <2>3, ReadAgain DEF ReadSoFar
<1>5. ASSUME NEW r \in Requests, NoVersionNeeded(r) PROVE ReadSoFar(q)'
  <2>1. /\ UNCHANGED <<body, exists, applied, row, code, summary>>
        /\ ~exists.version /\ ~body[r].acl
        /\ stage'[q] = IF q = r THEN "update_version" ELSE stage[q]
    BY <1>0, <1>5 DEF NoVersionNeeded
  <2>2. q = r => code[q] = 0 /\ exists.document
    BY <1>0, <1>5 DEF NoVersionNeeded, WrittenSoFar, ReadSoFar
  <2>3. FakeCode(q)' = FakeCode(q) /\ (q = r => FakeCode(q) = 200)
    BY <2>1, <2>2 DEF FakeCode
  <2> QED
    BY <1>0, <2>1, <2>2, <2>3 DEF ReadSoFar
<1>6. ASSUME NEW r \in Requests, UpdateVersion(r) PROVE ReadSoFar(q)'
  <2>1. /\ UNCHANGED <<body, exists, applied, row>>
        /\ stage'[q] = IF q = r THEN "answered" ELSE stage[q]
        /\ code'[q] = IF q = r THEN 200 ELSE code[q]
        /\ summary'[q] = IF q = r THEN Overlay(body[r].set, summary[r])
                         ELSE summary[q]
    BY <1>0, <1>6 DEF UpdateVersion
  <2>2. q = r => code[q] = 0 /\ FakeCode(q) = 200
    BY <1>0, <1>6 DEF UpdateVersion, WrittenSoFar, ReadSoFar
  <2>3. FakeCode(q)' = FakeCode(q)
    BY <2>1 DEF FakeCode
  <2> QED
    BY <1>0, <2>1, <2>2, <2>3 DEF ReadSoFar
<1>7. ASSUME NEW r \in Requests, Commit(r) PROVE ReadSoFar(q)'
  <2>1. /\ UNCHANGED <<body, exists, code, summary>>
        /\ stage'[q] = IF q = r THEN "closed" ELSE stage[q]
    BY <1>0, <1>7 DEF Commit
  <2>2. FakeCode(q)' = FakeCode(q)
    BY <2>1 DEF FakeCode
  <2>3. applied' = {} => applied = {} /\ row' = row
    <3>1. CASE code[r] = 200
      BY <1>7, <3>1 DEF Commit
    <3>2. CASE code[r] # 200
      <4>1. WrittenSoFar(r) /\ row \in Changes
        BY RowIsChanges, <1>0 DEF EditInv
      <4>2. pending[r] = Nothing
        BY <1>7, <3>2, <4>1 DEF Commit, WrittenSoFar
      <4>3. row' = row
        BY <1>7, <4>1, <4>2, OverlayNothing DEF Commit
      <4> QED
        BY <1>7, <3>2, <4>3 DEF Commit
    <3> QED
      BY <3>1, <3>2
  <2> QED
    BY <1>0, <2>1, <2>2, <2>3 DEF ReadSoFar
<1>8. CASE Get
  BY <1>0, <1>8 DEF Get, ListDocuments, FetchCurrentAcl, ReadSoFar, FakeCode
<1>9. CASE UNCHANGED vars
  BY <1>0, <1>9 DEF vars, ReadSoFar, FakeCode
<1> QED
  BY <1>1, <1>2, <1>3, <1>4, <1>5, <1>6, <1>7, <1>8, <1>9 DEF Next, Handle

(* Every edit takes a time of its own, later than the row's updated_at; so  *)
(* updated_at is a new one whenever it is set.                              *)

\* r has taken its time, and may still commit it.
Timed(r) ==
    \/ stage[r] \in {"update_document", "select_version", "update_version"}
    \/ stage[r] \in {"answered", "committing"} /\ code[r] = 200

TimesDiffer ==
    /\ updated < clock
    /\ \A r \in Requests : Timed(r) => now[r] < clock /\ now[r] # updated
    /\ \A r, q \in Requests : Timed(r) /\ Timed(q) /\ now[r] = now[q] => r = q

LEMMA InitTimesDiffer == Init => TimesDiffer
BY DEF Init, TimesDiffer, Timed

LEMMA NextTimesDiffer ==
    DocTypeOK /\ EditInv /\ TimesDiffer /\ [Next]_vars => TimesDiffer'
<1> SUFFICES ASSUME DocTypeOK, EditInv, TimesDiffer, [Next]_vars
             PROVE  TimesDiffer'
  OBVIOUS
<1>0. /\ stage \in [Requests -> Stage]
      /\ code \in [Requests -> {0, 200, 400, 404, 500}]
      /\ now \in [Requests -> Nat] /\ updated \in Nat /\ clock \in Nat
  BY DEF DocTypeOK
<1> USE DEF Goto, requests, store
<1>1. ASSUME NEW r \in Requests, SelectDocument(r) PROVE TimesDiffer'
  <2>1. /\ UNCHANGED <<updated, code>> /\ clock' = clock + 1
        /\ now' = [now EXCEPT ![r] = clock]
        /\ stage' = [stage EXCEPT ![r] = "update_document"]
    BY <1>1 DEF SelectDocument
  <2>2. \A q \in Requests : q # r => (Timed(q)' <=> Timed(q))
    BY <1>0, <2>1 DEF Timed
  <2> QED
    BY <1>0, <2>1, <2>2 DEF TimesDiffer
<1>2. ASSUME NEW r \in Requests, Commit(r) PROVE TimesDiffer'
  <2>1. /\ UNCHANGED <<now, clock, code>>
        /\ stage' = [stage EXCEPT ![r] = "closed"]
        /\ updated' = IF DOMAIN pending[r] \cap DocField = {}
                      THEN updated ELSE now[r]
        /\ stage[r] = "committing"
    BY <1>2 DEF Commit
  <2>2. /\ ~Timed(r)'
        /\ \A q \in Requests : q # r => (Timed(q)' <=> Timed(q))
    BY <1>0, <2>1 DEF Timed
  <2>3. DOMAIN pending[r] \cap DocField # {} => Timed(r)
    BY <2>1 DEF EditInv, WrittenSoFar, Timed, Nothing
  <2>4. /\ updated' < clock
        /\ \A q \in Requests : q # r /\ Timed(q) => now[q] # updated'
    BY <1>0, <2>1, <2>3 DEF TimesDiffer
  <2> QED
    BY <1>0, <2>1, <2>2, <2>4 DEF TimesDiffer
<1>3. ASSUME UNCHANGED <<updated, now, clock>>,
             \A q \in Requests : Timed(q)' => Timed(q)
      PROVE  TimesDiffer'
  BY <1>3 DEF TimesDiffer
<1>4. ASSUME NEW r \in Requests,
             \/ Receive(r) \/ RejectBody(r) \/ DocumentNotFound(r)
             \/ UpdateDocument(r) \/ SelectVersion(r) \/ MissingAclVersion(r)
             \/ NoVersionNeeded(r) \/ UpdateVersion(r) \/ StartTeardown(r)
             \/ Rollback(r) \/ StatementFails(r) \/ CommitFails(r)
      PROVE  TimesDiffer'
  <2>1. UNCHANGED <<updated, now, clock>>
    BY <1>4 DEF Receive, RejectBody, DocumentNotFound, UpdateDocument,
       SelectVersion, MissingAclVersion, NoVersionNeeded, UpdateVersion,
       StartTeardown, Rollback, CloseSession, StatementFails, CommitFails
  <2>2. \A q \in Requests : Timed(q)' => Timed(q)
    BY <1>0, <1>4 DEF Receive, RejectBody, DocumentNotFound, UpdateDocument,
       SelectVersion, MissingAclVersion, NoVersionNeeded, UpdateVersion,
       StartTeardown, Rollback, CloseSession, StatementFails, CommitFails, Timed
  <2> QED
    BY <1>3, <2>1, <2>2
<1>5. CASE Get \/ UNCHANGED vars
  <2>1. UNCHANGED <<updated, now, clock, stage, code>>
    BY <1>5 DEF Get, ListDocuments, FetchCurrentAcl, vars
  <2> QED
    BY <1>3, <2>1 DEF Timed
<1> QED
  BY <1>1, <1>2, <1>4, <1>5 DEF Next, Handle

\* What tests show with FakeDocumentStore of the verdict and of the edited
\* fields holds of the SQL store, for any number of PUTs; of updated_at it
\* holds just where a column of documents is edited.
THEOREM TestStoreMakesTheSameEdit == Spec => SameEditAsTestStore
<1>1. ASSUME DocTypeOK, EditInv, ReadInv, TimesDiffer, [Next]_vars,
             NEW r \in Requests, r \in applied', r \notin applied
      PROVE  /\ row' = FakeUpdateDocument(r).fields
             /\ FakeUpdateDocument(r).updated_at # updated
             /\ updated' # updated <=> DOMAIN body[r].set \cap DocField # {}
             /\ applied = {} => summary[r] = row'
  <2>1. Commit(r)
    BY <1>1 DEF Next, Handle, Receive, RejectBody, SelectDocument,
       DocumentNotFound, UpdateDocument, SelectVersion, MissingAclVersion,
       NoVersionNeeded, UpdateVersion, StartTeardown, Commit, Rollback,
       CloseSession, StatementFails, CommitFails, Get, ListDocuments,
       FetchCurrentAcl, requests, store, vars
  <2>2. WrittenSoFar(r) /\ ReadSoFar(r)
    BY <1>1 DEF EditInv, ReadInv
  <2>3. code[r] = 200 /\ pending[r] = body[r].set
    BY <1>1, <2>1, <2>2 DEF Commit, WrittenSoFar, Nothing
  <2>4. row' = Overlay(body[r].set, row)
    BY <2>1, <2>3 DEF Commit
  <2>5. FakeUpdateDocument(r) =
            [fields |-> Overlay(body[r].set, row), updated_at |-> clock]
    BY <2>2, <2>3 DEF ReadSoFar, FakeUpdateDocument
  <2>6. Timed(r) /\ now[r] # updated /\ clock # updated
    BY <1>1, <2>1, <2>3 DEF Commit, Timed, TimesDiffer, DocTypeOK
  <2>7. updated' # updated <=> DOMAIN body[r].set \cap DocField # {}
    BY <2>1, <2>3, <2>6 DEF Commit
  <2>8. applied = {} => summary[r] = row'
    BY <2>2, <2>3, <2>4 DEF ReadSoFar
  <2> QED
    BY <2>4, <2>5, <2>6, <2>7, <2>8
<1>2. DocTypeOK /\ EditInv /\ ReadInv /\ TimesDiffer /\ ReadInv' /\ [Next]_vars =>
          [\A r \in Requests :
              /\ code'[r] \in {200, 404} => code'[r] = FakeCode(r)
              /\ r \in applied' \ applied =>
                    /\ row' = FakeUpdateDocument(r).fields
                    /\ FakeUpdateDocument(r).updated_at # updated
                    /\ updated' # updated <=> DOMAIN body[r].set \cap DocField # {}
                    /\ applied = {} => summary[r] = row']_vars
  <2> SUFFICES ASSUME DocTypeOK, EditInv, ReadInv, TimesDiffer, ReadInv',
                      [Next]_vars, NEW r \in Requests
               PROVE  /\ code'[r] \in {200, 404} => code'[r] = FakeCode(r)
                      /\ r \in applied' \ applied =>
                            /\ row' = FakeUpdateDocument(r).fields
                            /\ FakeUpdateDocument(r).updated_at # updated
                            /\ updated' # updated <=>
                                  DOMAIN body[r].set \cap DocField # {}
                            /\ applied = {} => summary[r] = row'
    OBVIOUS
  <2>1. body' = body /\ exists' = exists
    BY DEF Next, Handle, Receive, RejectBody, SelectDocument,
       DocumentNotFound, UpdateDocument, SelectVersion, MissingAclVersion,
       NoVersionNeeded, UpdateVersion, StartTeardown, Commit, Rollback,
       CloseSession, StatementFails, CommitFails, Get, ListDocuments,
       FetchCurrentAcl, requests, store, vars
  <2>2. code'[r] \in {200, 404} => code'[r] = FakeCode(r)
    BY <2>1 DEF ReadInv, ReadSoFar, FakeCode
  <2> QED
    BY <1>1, <2>2
<1>3. DocTypeOK /\ EditInv /\ ReadInv /\ [Next]_vars => ReadInv'
  BY NextRead
<1>4. DocTypeOK /\ EditInv /\ TimesDiffer /\ [Next]_vars => TimesDiffer'
  BY NextTimesDiffer
<1> QED
  BY <1>2, <1>3, <1>4, InitRead, InitTimesDiffer, DocumentsTypeCorrect,
     EditInvariant, PTL DEF Spec, SameEditAsTestStore

-----------------------------------------------------------------------------
(* The event loops: each is held by one handler or by the GET, if it is.    *)

HandlerOn(r, w) == home[r] = w /\ stage[r] \in Statement

GetOn(w) == get.home = w /\ get.stage = "acl"

LoopInv ==
    /\ \A r \in Requests, w \in Workers : HandlerOn(r, w) => busy[w] = TRUE
    /\ \A r, q \in Requests, w \in Workers :
           HandlerOn(r, w) /\ HandlerOn(q, w) => r = q
    /\ \A w \in Workers :
           GetOn(w) => busy[w] = TRUE /\ \A r \in Requests : ~HandlerOn(r, w)
    /\ \A w \in Workers :
           busy[w] = TRUE => GetOn(w) \/ \E r \in Requests : HandlerOn(r, w)

LEMMA InitLoop == Init => LoopInv
BY DEF Init, LoopInv, HandlerOn, GetOn, Statement

LEMMA NextLoop == DocTypeOK /\ LoopInv /\ [Next]_vars => LoopInv'
<1> SUFFICES ASSUME DocTypeOK, LoopInv, [Next]_vars PROVE LoopInv'
  OBVIOUS
<1>0. /\ home \in [Requests -> Workers]
      /\ busy \in [Workers -> BOOLEAN]
      /\ stage \in [Requests -> Stage]
      /\ get.home \in Workers
  BY DEF DocTypeOK
<1> USE DEF Goto, requests, store, Statement
<1>1. ASSUME NEW r \in Requests, Receive(r) PROVE LoopInv'
  <2> DEFINE w == home[r]
  <2>1. /\ w \in Workers /\ busy[w] = FALSE
        /\ busy' = [busy EXCEPT ![w] = TRUE]
        /\ UNCHANGED <<home, get>>
        /\ stage' = [stage EXCEPT ![r] = "select_document"]
        /\ stage[r] = "arrived"
    BY <1>0, <1>1 DEF Receive, Take, LoopFree
  <2>2. \A q \in Requests, v \in Workers :
            HandlerOn(q, v)' <=> HandlerOn(q, v) \/ (q = r /\ v = w)
    BY <1>0, <2>1 DEF HandlerOn
  <2>3. \A v \in Workers : GetOn(v)' <=> GetOn(v)
    BY <2>1 DEF GetOn
  <2>4. ~GetOn(w) /\ \A q \in Requests : ~HandlerOn(q, w)
    BY <2>1 DEF LoopInv
  <2> HIDE DEF w
  <2> QED
    BY <1>0, <2>1, <2>2, <2>3, <2>4 DEF LoopInv
<1>2. ASSUME NEW r \in Requests,
             \/ SelectDocument(r) \/ UpdateDocument(r) \/ SelectVersion(r)
             \/ NoVersionNeeded(r)
      PROVE  LoopInv'
  <2>1. /\ UNCHANGED <<home, get, busy>> /\ stage[r] \in Statement
        /\ \E s \in Statement : stage' = [stage EXCEPT ![r] = s]
    BY <1>2 DEF SelectDocument, UpdateDocument, SelectVersion, NoVersionNeeded
  <2>2. \A q \in Requests, v \in Workers : HandlerOn(q, v)' <=> HandlerOn(q, v)
    BY <1>0, <2>1 DEF HandlerOn
  <2>3. \A v \in Workers : GetOn(v)' <=> GetOn(v)
    BY <2>1 DEF GetOn
  <2> QED
    BY <2>1, <2>2, <2>3 DEF LoopInv
<1>3. ASSUME NEW r \in Requests,
             \/ DocumentNotFound(r) \/ MissingAclVersion(r) \/ UpdateVersion(r)
             \/ StatementFails(r)
      PROVE  LoopInv'
  <2> DEFINE w == home[r]
  <2>1. /\ w \in Workers /\ UNCHANGED <<home, get>> /\ stage[r] \in Statement
        /\ busy' = [busy EXCEPT ![w] = FALSE]
        /\ \E s \in {"answered", "raised"} : stage' = [stage EXCEPT ![r] = s]
    BY <1>0, <1>3 DEF DocumentNotFound, MissingAclVersion, UpdateVersion,
       StatementFails, Release
  <2>2. \A q \in Requests, v \in Workers :
            HandlerOn(q, v)' <=> HandlerOn(q, v) /\ q # r
    BY <1>0, <2>1 DEF HandlerOn
  <2>3. \A v \in Workers : GetOn(v)' <=> GetOn(v)
    BY <2>1 DEF GetOn
  <2>4. HandlerOn(r, w)
    BY <2>1 DEF HandlerOn
  <2>5. ~GetOn(w) /\ \A q \in Requests : HandlerOn(q, w) => q = r
    BY <2>1, <2>4 DEF LoopInv
  <2>6. \A v \in Workers : HandlerOn(r, v) => v = w
    BY DEF HandlerOn
  <2> HIDE DEF w
  <2> QED
    BY <1>0, <2>1, <2>2, <2>3, <2>4, <2>5, <2>6 DEF LoopInv
<1>4. ASSUME NEW r \in Requests,
             \/ RejectBody(r) \/ StartTeardown(r) \/ Commit(r) \/ CommitFails(r)
             \/ Rollback(r)
      PROVE  LoopInv'
  <2>1. /\ UNCHANGED <<home, get, busy>> /\ stage[r] \notin Statement
        /\ \E s \in Stage \ Statement : stage' = [stage EXCEPT ![r] = s]
    BY <1>4 DEF RejectBody, StartTeardown, Commit, CommitFails, Rollback, Stage
  <2>2. \A q \in Requests, v \in Workers : HandlerOn(q, v)' <=> HandlerOn(q, v)
    BY <1>0, <2>1 DEF HandlerOn
  <2>3. \A v \in Workers : GetOn(v)' <=> GetOn(v)
    BY <2>1 DEF GetOn
  <2> QED
    BY <2>1, <2>2, <2>3 DEF LoopInv
<1>5. ASSUME NEW w \in Workers, ListDocuments(w) PROVE LoopInv'
  <2>1. /\ busy[w] = FALSE /\ busy' = [busy EXCEPT ![w] = TRUE]
        /\ UNCHANGED <<home, stage>> /\ get.stage = "none"
        /\ get'.home = w /\ get'.stage = "acl"
    BY <1>0, <1>5 DEF ListDocuments, Take, LoopFree
  <2>2. \A q \in Requests, v \in Workers : HandlerOn(q, v)' <=> HandlerOn(q, v)
    BY <2>1 DEF HandlerOn
  <2>3. \A v \in Workers : ~GetOn(v) /\ (GetOn(v)' <=> v = w)
    BY <2>1 DEF GetOn
  <2> QED
    BY <1>0, <2>1, <2>2, <2>3 DEF LoopInv
<1>6. CASE FetchCurrentAcl
  <2> DEFINE w == get.home
  <2>1. /\ busy' = [busy EXCEPT ![w] = FALSE] /\ w \in Workers
        /\ UNCHANGED <<home, stage>> /\ get'.stage = "done" /\ get.stage = "acl"
    BY <1>0, <1>6 DEF FetchCurrentAcl, Release, DocTypeOK
  <2>2. \A q \in Requests, v \in Workers : HandlerOn(q, v)' <=> HandlerOn(q, v)
    BY <2>1 DEF HandlerOn
  <2>3. \A v \in Workers : ~GetOn(v)' /\ (GetOn(v) <=> v = w)
    BY <2>1 DEF GetOn
  <2> HIDE DEF w
  <2> QED
    BY <1>0, <2>1, <2>2, <2>3 DEF LoopInv
<1>7. CASE UNCHANGED vars
  BY <1>7 DEF vars, LoopInv, HandlerOn, GetOn
<1> QED
  BY <1>1, <1>2, <1>3, <1>4, <1>5, <1>6, <1>7 DEF Next, Handle, Get

LEMMA LoopInvariant == Spec => []LoopInv
<1>1. DocTypeOK /\ LoopInv /\ [Next]_vars => LoopInv'
  BY NextLoop
<1> QED
  BY <1>1, InitLoop, DocumentsTypeCorrect, PTL DEF Spec

-----------------------------------------------------------------------------
(* The time of the last change, with one event loop.                       *)

(* A handler keeps the event loop from its first statement to its answer,   *)
(* so handlers take their times in the order in which they run; and nobody  *)
(* updates documents while an earlier handler's UPDATE is uncommitted.      *)

DocPending(r) == DOMAIN pending[r] \cap DocField # {}

TimeInv ==
    /\ updated < clock
    /\ \A r \in Requests : now[r] < clock
    /\ \A r \in Requests : DocPending(r) => updated <= now[r]
    /\ \A r, q \in Requests : DocPending(r) /\ DocPending(q) => r = q
    /\ \A r \in Requests : stage[r] \in Statement \ {"select_document"} =>
           /\ updated <= now[r]
           /\ \A q \in Requests : DocPending(q) => now[q] <= now[r]

LEMMA InitTime == Init => TimeInv
BY DEF Init, TimeInv, DocPending, Nothing, Statement

\* With one event loop there is one handler at a time.
LEMMA OneHandler ==
    ASSUME NEW w, Workers = {w}, DocTypeOK, LoopInv
    PROVE  \A r, q \in Requests :
               stage[r] \in Statement /\ stage[q] \in Statement => r = q
BY DEF LoopInv, HandlerOn, DocTypeOK

LEMMA NextTime ==
    ASSUME NEW w, Workers = {w}, DocTypeOK, EditInv, LoopInv, TimeInv, [Next]_vars
    PROVE  TimeInv' /\ updated' >= updated
<1>0. /\ stage \in [Requests -> Stage]
      /\ now \in [Requests -> Nat] /\ updated \in Nat /\ clock \in Nat
      /\ pending \in [Requests -> Changes]
  BY DEF DocTypeOK
<1> USE DEF Goto, requests, store, Statement
<1>1. ASSUME NEW r \in Requests, SelectDocument(r)
      PROVE  TimeInv' /\ updated' >= updated
  <2>1. /\ UNCHANGED <<updated, pending>> /\ clock' = clock + 1
        /\ now' = [now EXCEPT ![r] = clock]
        /\ stage' = [stage EXCEPT ![r] = "update_document"]
        /\ stage[r] = "select_document"
    BY <1>1 DEF SelectDocument
  <2>2. \A q \in Requests : q # r => stage'[q] \notin Statement
    BY <1>0, <2>1, OneHandler
  <2>3. \A q \in Requests : DocPending(q)' <=> DocPending(q)
    BY <2>1 DEF DocPending
  <2>4. ~DocPending(r)
    BY <2>1 DEF EditInv, WrittenSoFar, DocPending, Nothing
  <2> QED
    BY <1>0, <2>1, <2>2, <2>3, <2>4 DEF TimeInv
<1>2. ASSUME NEW r \in Requests, UpdateDocument(r)
      PROVE  TimeInv' /\ updated' >= updated
  <2>1. /\ UNCHANGED <<updated, now, clock>> /\ Update(r, DocField)
        /\ stage' = [stage EXCEPT ![r] = "select_version"]
        /\ stage[r] = "update_document"
    BY <1>2 DEF UpdateDocument
  <2>2. \A q \in Requests : q # r => stage'[q] \notin Statement
    BY <1>0, <2>1, OneHandler
  <2>3. \A q \in Requests : q # r => (DocPending(q)' <=> DocPending(q))
    BY <2>1, UpdateOfOthers DEF DocPending
  <2>4. DocPending(r)' => \A q \in Requests : q # r => ~DocPending(q)
    <3>1. CASE DOMAIN body[r].set \cap DocField = {}
      BY <2>1, <3>1 DEF Update, EditInv, WrittenSoFar, DocPending, Nothing
    <3>2. CASE DOMAIN body[r].set \cap DocField # {}
      BY <2>1, <3>2 DEF Update, Unlocked, DocPending
    <3> QED
      BY <3>1, <3>2
  <2> QED
    BY <1>0, <2>1, <2>2, <2>3, <2>4 DEF TimeInv
<1>3. ASSUME NEW r \in Requests, UpdateVersion(r)
      PROVE  TimeInv' /\ updated' >= updated
  <2>1. /\ UNCHANGED <<updated, now, clock>> /\ Update(r, AclField)
        /\ stage' = [stage EXCEPT ![r] = "answered"]
        /\ pending[r] = Part(body[r].set, DocField)
    BY <1>3 DEF UpdateVersion, EditInv, WrittenSoFar
  <2>2. \A q \in Requests : q # r => (DocPending(q)' <=> DocPending(q))
    BY <2>1, UpdateOfOthers DEF DocPending
  <2>3. pending'[r] = body[r].set
    BY <2>1, SecondUpdate
  <2>4. DocPending(r)' <=> DocPending(r)
    BY <2>1, <2>3 DEF DocPending, Part
  <2> QED
    BY <1>0, <2>1, <2>2, <2>4 DEF TimeInv
<1>4. ASSUME NEW r \in Requests, Commit(r)
      PROVE  TimeInv' /\ updated' >= updated
  <2>1. /\ UNCHANGED <<now, clock>>
        /\ stage' = [stage EXCEPT ![r] = "closed"]
        /\ pending' = [pending EXCEPT ![r] = Nothing]
        /\ updated' = IF DocPending(r) THEN now[r] ELSE updated
    BY <1>4 DEF Commit, Unlock, DocPending
  <2>2. /\ \A q \in Requests : q # r => (DocPending(q)' <=> DocPending(q))
        /\ ~DocPending(r)'
    BY <1>0, <2>1 DEF DocPending, Nothing
  <2> QED
    BY <1>0, <2>1, <2>2 DEF TimeInv
<1>5. ASSUME NEW r \in Requests, CommitFails(r) \/ Rollback(r)
      PROVE  TimeInv' /\ updated' >= updated
  <2>1. /\ UNCHANGED <<now, clock, updated>>
        /\ stage' = [stage EXCEPT ![r] = "closed"]
        /\ pending' = [pending EXCEPT ![r] = Nothing]
    BY <1>5 DEF CommitFails, Rollback, CloseSession, Unlock
  <2>2. /\ \A q \in Requests : q # r => (DocPending(q)' <=> DocPending(q))
        /\ ~DocPending(r)'
    BY <1>0, <2>1 DEF DocPending, Nothing
  <2> QED
    BY <1>0, <2>1, <2>2 DEF TimeInv
<1>6. ASSUME NEW r \in Requests,
             \/ Receive(r) \/ RejectBody(r) \/ DocumentNotFound(r)
             \/ SelectVersion(r) \/ MissingAclVersion(r) \/ NoVersionNeeded(r)
             \/ StatementFails(r) \/ StartTeardown(r)
      PROVE  TimeInv' /\ updated' >= updated
  <2>1. /\ UNCHANGED <<updated, now, clock, pending>>
        /\ \A q \in Requests : stage'[q] \in Statement \ {"select_document"} =>
               stage[q] \in Statement \ {"select_document"}
    BY <1>0, <1>6 DEF Receive, RejectBody, DocumentNotFound, SelectVersion,
       MissingAclVersion, NoVersionNeeded, StatementFails, StartTeardown
  <2>2. \A q \in Requests : DocPending(q)' <=> DocPending(q)
    BY <2>1 DEF DocPending
  <2> QED
    BY <1>0, <2>1, <2>2 DEF TimeInv
<1>7. CASE Get \/ UNCHANGED vars
  <2>1. UNCHANGED <<updated, now, clock, pending, stage>>
    BY <1>7 DEF Get, ListDocuments, FetchCurrentAcl, vars
  <2> QED
    BY <1>0, <2>1 DEF TimeInv, DocPending
<1> QED
  BY <1>1, <1>2, <1>3, <1>4, <1>5, <1>6, <1>7 DEF Next, Handle

\* In one server process updated_at never goes back, though a handler takes
\* its time before it waits for the row, and whatever fails.
THEOREM OneLoopKeepsTime ==
    ASSUME NEW w, Workers = {w} PROVE Spec => UpdatedAtAdvances
<1>1. DocTypeOK /\ EditInv /\ LoopInv /\ TimeInv /\ [Next]_vars =>
          TimeInv' /\ updated' >= updated
  BY NextTime
<1>2. DocTypeOK /\ EditInv /\ LoopInv /\ TimeInv /\ [Next]_vars =>
          [updated' >= updated]_vars
  BY <1>1
<1> QED
  BY <1>1, <1>2, InitTime, LoopInvariant, DocumentsTypeCorrect, EditInvariant,
     PTL DEF Spec, UpdatedAtAdvances

-----------------------------------------------------------------------------
(* Waiting.  A handler waits for a row lock that another request holds; the *)
(* end of a request waits for its event loop.                               *)

\* The columns that the next UPDATE of r is about.
NextColumns(r) == IF stage[r] = "update_document" THEN DocField ELSE AclField

WaitsFor(r, q) ==
    /\ stage[r] \in {"update_document", "update_version"}
    /\ r # q
    /\ DOMAIN body[r].set \cap NextColumns(r) # {}
    /\ DOMAIN pending[q] \cap NextColumns(r) # {}

\* Whether some step of Handle(r) is possible.
CanGoOn(r) ==
    \/ stage[r] \in {"arrived", "answered", "raised"} /\ LoopFree(home[r])
    \/ stage[r] \in Statement /\ \A q \in Requests : ~WaitsFor(r, q)
    \/ stage[r] \in {"committing", "rolling_back"}

\* A request is open, and neither any open one nor the GET can go on.
Wedged ==
    /\ \E r \in Requests : stage[r] # "closed"
    /\ get.stage # "acl"
    /\ \A r \in Requests : stage[r] # "closed" => ~CanGoOn(r)

\* A request that holds columns of document_versions has executed its last
\* statement, one that holds columns of documents has executed its first.
LEMMA LocksFollowStages ==
    ASSUME EditInv, NEW r \in Requests
    PROVE  /\ DOMAIN pending[r] \cap AclField # {} =>
                  stage[r] \notin Statement \union {"arrived", "closed"}
           /\ DOMAIN pending[r] \cap DocField # {} =>
                  stage[r] \notin {"arrived", "select_document",
                                   "update_document", "closed"}
<1>1. WrittenSoFar(r)
  BY DEF EditInv
<1>2. DocField \cap AclField = {}
  BY DEF DocField, AclField
<1>3. stage[r] \in Statement \union {"arrived", "closed"} =>
          DOMAIN pending[r] \cap AclField = {}
  BY <1>1, <1>2 DEF WrittenSoFar, Statement, Nothing, Part
<1>4. stage[r] \in {"arrived", "select_document", "update_document", "closed"} =>
          DOMAIN pending[r] \cap DocField = {}
  BY <1>1 DEF WrittenSoFar, Nothing
<1> QED
  BY <1>3, <1>4

\* Every PUT locks documents before document_versions: if r waits for q and q
\* for s, then s waits for nobody, so no circle of any length closes.
LocksAreOrdered ==
    \A r, q, s, t \in Requests :
        ~(WaitsFor(r, q) /\ WaitsFor(q, s) /\ WaitsFor(s, t))

LEMMA WaitedForVersion ==
    ASSUME EditInv, NEW r \in Requests, NEW q \in Requests, NEW s \in Requests,
           WaitsFor(r, q), WaitsFor(q, s)
    PROVE  stage[q] = "update_version" /\ stage[s] \notin Statement
<1>1. NextColumns(r) = DocField \/ NextColumns(r) = AclField
  BY DEF NextColumns
<1>2. stage[q] = "update_version"
  BY <1>1, LocksFollowStages DEF WaitsFor, Statement
<1>3. DOMAIN pending[s] \cap AclField # {}
  BY <1>2 DEF WaitsFor, NextColumns
<1> QED
  BY <1>2, <1>3, LocksFollowStages

\* However many PUTs edit one document, the database finds no deadlock
\* between them: chains of lock waits have at most two links.
THEOREM LockOrder == Spec => []LocksAreOrdered
<1>1. EditInv => LocksAreOrdered
  BY WaitedForVersion DEF LocksAreOrdered, WaitsFor, Statement
<1> QED
  BY <1>1, EditInvariant, PTL

\* If a handler is stuck, the request it waits for, or that one's, is past its
\* statements.
LEMMA StuckHandler ==
    ASSUME EditInv, Wedged, NEW r \in Requests, stage[r] \in Statement
    PROVE  \E p, q \in Requests :
               WaitsFor(p, q) /\ stage[q] \notin Statement
<1>1. PICK q \in Requests : WaitsFor(r, q)
  BY DEF Wedged, CanGoOn, Statement
<1>2. CASE stage[q] \notin Statement
  BY <1>1, <1>2
<1>3. CASE stage[q] \in Statement
  <2>1. PICK s \in Requests : WaitsFor(q, s)
    BY <1>3 DEF Wedged, CanGoOn, Statement
  <2> QED
    BY <1>1, <2>1, WaitedForVersion
<1> QED
  BY <1>2, <1>3

\* Only a commit that its own event loop cannot get round to blocks the
\* others: it keeps the lock that the handler on that loop, or another one,
\* waits for.
WedgedByDeferredCommit ==
    Wedged => \E p, q, s \in Requests :
                  /\ WaitsFor(p, q)
                  /\ stage[q] \in {"answered", "raised"}
                  /\ HandlerOn(s, home[q])

LEMMA WedgeShape ==
    DocTypeOK /\ EditInv /\ LoopInv => WedgedByDeferredCommit
<1> SUFFICES ASSUME DocTypeOK, EditInv, LoopInv, Wedged
             PROVE  \E p, q, s \in Requests :
                        /\ WaitsFor(p, q)
                        /\ stage[q] \in {"answered", "raised"}
                        /\ HandlerOn(s, home[q])
  BY DEF WedgedByDeferredCommit
<1>0. /\ \A w \in Workers : ~GetOn(w)
      /\ home \in [Requests -> Workers] /\ busy \in [Workers -> BOOLEAN]
      /\ stage \in [Requests -> Stage]
  BY DEF Wedged, GetOn, DocTypeOK
<1>1. ASSUME NEW r \in Requests, stage[r] \in {"arrived", "answered", "raised"}
      PROVE  \E s \in Requests : HandlerOn(s, home[r])
  <2>1. ~LoopFree(home[r])
    BY <1>1 DEF Wedged, CanGoOn
  <2>2. busy[home[r]] = TRUE /\ home[r] \in Workers
    BY <1>0, <2>1 DEF LoopFree
  <2> QED
    BY <1>0, <2>2 DEF LoopInv
<1>2. \E r \in Requests : stage[r] \in Statement
  <2>1. PICK r \in Requests : stage[r] # "closed"
    BY DEF Wedged
  <2>2. stage[r] \notin {"committing", "rolling_back"}
    BY <2>1 DEF Wedged, CanGoOn
  <2> QED
    BY <1>0, <1>1, <2>1, <2>2 DEF Stage, Statement, HandlerOn
<1>3. PICK p \in Requests, q \in Requests :
          WaitsFor(p, q) /\ stage[q] \notin Statement
  BY <1>2, StuckHandler
<1>4. stage[q] \in {"answered", "raised"}
  <2>1. DOMAIN pending[q] \cap DocField # {} \/ DOMAIN pending[q] \cap AclField # {}
    BY <1>3 DEF WaitsFor, NextColumns
  <2>2. stage[q] \notin {"arrived", "closed"}
    BY <2>1, LocksFollowStages
  <2>3. stage[q] \notin {"committing", "rolling_back"}
    BY DEF Wedged, CanGoOn
  <2> QED
    BY <1>0, <1>3, <2>2, <2>3 DEF Stage, Statement
<1> QED
  BY <1>1, <1>3, <1>4

\* If the service comes to a stand, it is because a request was answered (or
\* raised) whose commit (or rollback), which holds a row lock, waits for an
\* event loop on which another PUT's handler waits for a row lock.
THEOREM OnlyDeferredCommitsWedge == Spec => []WedgedByDeferredCommit
<1>1. DocTypeOK /\ EditInv /\ LoopInv => WedgedByDeferredCommit
  BY WedgeShape
<1> QED
  BY <1>1, DocumentsTypeCorrect, EditInvariant, LoopInvariant, PTL

LEMMA HomesStay == [Next]_vars => UNCHANGED <<home, body>>
BY DEF Next, Handle, Receive, RejectBody, SelectDocument,
   DocumentNotFound, UpdateDocument, SelectVersion, MissingAclVersion,
   NoVersionNeeded, UpdateVersion, StartTeardown, Commit, Rollback,
   CloseSession, StatementFails, CommitFails, Get, ListDocuments,
   FetchCurrentAcl, requests, store, vars

\* With a process for each request, as long as one is open, one of the open
\* requests or the GET can go on: what run admin_two_workers finds to be
\* answered for two requests is never blocked for any number.
THEOREM ApartNeverWedges == Apart /\ Spec => []~Wedged
<1>1. Apart /\ [Next]_vars => Apart'
  BY HomesStay DEF Apart
<1>2. Apart /\ EditInv /\ DocTypeOK /\ LoopInv => ~Wedged
  <2> SUFFICES ASSUME Apart, EditInv, DocTypeOK, LoopInv, Wedged PROVE FALSE
    OBVIOUS
  <2>1. PICK p \in Requests, q \in Requests, s \in Requests :
            /\ WaitsFor(p, q) /\ stage[q] \in {"answered", "raised"}
            /\ HandlerOn(s, home[q])
    BY WedgeShape DEF WedgedByDeferredCommit
  <2>2. s = q
    BY <2>1 DEF HandlerOn, Apart
  <2> QED
    BY <2>1, <2>2 DEF HandlerOn, Statement
<1> QED
  BY <1>1, <1>2, DocumentsTypeCorrect, EditInvariant, LoopInvariant, PTL
     DEF Spec

-----------------------------------------------------------------------------
(* What a caller sees once an edit is committed.                           *)

(* The abstract specification alone gives that a field that was edited has  *)
(* the value of an applied edit; so what run edit_before_commit shows to    *)
(* fail from the answer on holds from the commit on.                        *)

Supported(f, v) ==
    \E q \in applied : f \in DOMAIN body[q].set /\ v = body[q].set[f]

AppliedInv ==
    \A r \in applied : \A f \in DOMAIN body[r].set : Supported(f, row[f])

LEMMA NextApplied ==
    ASSUME DocTypeOK, AppliedInv, [Edits!Next]_(Edits!vars)
    PROVE  AppliedInv'
<1>1. ASSUME NEW q \in Requests, Edits!Apply(q) PROVE AppliedInv'
  <2> SUFFICES ASSUME NEW r \in applied \union {q}, NEW f \in DOMAIN body[r].set
               PROVE  \E p \in applied \union {q} :
                          f \in DOMAIN body[p].set /\ row'[f] = body[p].set[f]
    BY <1>1 DEF AppliedInv, Supported, Edits!Apply
  <2>1. f \in Field
    <3>1. r \in Requests /\ body[r].set \in Changes
      BY BodiesType DEF DocTypeOK
    <3> QED
      BY <3>1, ChangesAreFunctions
  <2>2. row'[f] = IF f \in DOMAIN body[q].set THEN body[q].set[f] ELSE row[f]
    BY <1>1, <2>1 DEF Edits!Apply
  <2> QED
    BY <2>2 DEF AppliedInv, Supported
<1>2. CASE UNCHANGED Edits!vars
  BY <1>2 DEF Edits!vars, AppliedInv, Supported
<1> QED
  BY <1>1, <1>2 DEF Edits!Next

\* Whatever a GET reads of the fields of a committed edit is the value of a
\* committed edit: documents first, then the current ACLs.
CommittedIsObservable ==
    [][\A r \in applied : \A f \in DOMAIN body[r].set :
          /\ get.stage = "none" /\ get'.stage = "acl" /\ f \in DocField =>
                 Supported(f, get'.saw[f])
          /\ get.stage = "acl" /\ get'.stage = "done" /\ f \in AclField =>
                 Supported(f, get'.saw[f])]_vars

\* An edit is observable on every subsequent GET from its commit on, however
\* many PUTs interleave with it and with the two reads of the GET.
THEOREM CommittedEditsObservable == Spec => CommittedIsObservable
<1>1. DocTypeOK /\ EditInv /\ AppliedInv /\ [Next]_vars => AppliedInv'
  BY StepRefines, NextApplied
<1>2. Init => AppliedInv
  BY DEF Init, AppliedInv
<1>3. ASSUME DocTypeOK, AppliedInv, [Next]_vars,
             NEW r \in applied, NEW f \in DOMAIN body[r].set
      PROVE  /\ get.stage = "none" /\ get'.stage = "acl" /\ f \in DocField =>
                    Supported(f, get'.saw[f])
             /\ get.stage = "acl" /\ get'.stage = "done" /\ f \in AclField =>
                    Supported(f, get'.saw[f])
  <2>1. row \in [Field -> Value] /\ get.saw \in [Field -> Value]
    BY <1>3 DEF DocTypeOK
  <2>2. ASSUME NEW columns \in SUBSET Field, f \in columns
        PROVE  Overlay(Part(row, columns), get.saw)[f] = row[f]
    BY <2>1, <2>2 DEF Overlay, Part
  <2>3. DocField \in SUBSET Field /\ AclField \in SUBSET Field
    BY DEF Field
  <2>4. Supported(f, row[f])
    BY <1>3 DEF AppliedInv
  <2>5. \/ get' = get
        \/ FetchCurrentAcl
        \/ \E w \in Workers : ListDocuments(w)
    BY <1>3 DEF Next, Handle, Receive, RejectBody, SelectDocument,
       DocumentNotFound, UpdateDocument, SelectVersion, MissingAclVersion,
       NoVersionNeeded, UpdateVersion, StartTeardown, Commit, Rollback,
       CloseSession, StatementFails, CommitFails, Get, store, vars
  <2>6. /\ get.stage = "none" /\ get'.stage = "acl" =>
               get'.saw = Overlay(Part(row, DocField), get.saw)
        /\ get.stage = "acl" /\ get'.stage = "done" =>
               get'.saw = Overlay(Part(row, AclField), get.saw)
    <3>1. FetchCurrentAcl =>
              /\ get.stage = "acl"
              /\ get'.saw = Overlay(Part(row, AclField), get.saw)
      BY <1>3 DEF FetchCurrentAcl, DocTypeOK
    <3>2. ASSUME NEW w \in Workers, ListDocuments(w)
          PROVE  /\ get.stage = "none"
                 /\ get'.saw = Overlay(Part(row, DocField), get.saw)
      BY <3>2 DEF ListDocuments
    <3> QED
      BY <2>5, <3>1, <3>2
  <2> QED
    BY <2>2, <2>3, <2>4, <2>6
<1>4. DocTypeOK /\ AppliedInv /\ [Next]_vars =>
          [\A r \in applied : \A f \in DOMAIN body[r].set :
              /\ get.stage = "none" /\ get'.stage = "acl" /\ f \in DocField =>
                     Supported(f, get'.saw[f])
              /\ get.stage = "acl" /\ get'.stage = "done" /\ f \in AclField =>
                     Supported(f, get'.saw[f])]_vars
  BY <1>3
<1> QED
  BY <1>1, <1>2, <1>4, DocumentsTypeCorrect, EditInvariant, PTL
     DEF Spec, CommittedIsObservable

=============================================================================
