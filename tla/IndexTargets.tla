----------------------------- MODULE IndexTargets -----------------------------
(***************************************************************************)
(* Which collection an upload is indexed into (ingest/qdrant_setup.py,      *)
(* config/active_model_version.py), and the listing of the active model     *)
(* versions (api/config_routes.py), while an operator creates collections   *)
(* and swaps versions, in any order.                                        *)
(*                                                                          *)
(* An upload resolves its target once, in the handler, and its background   *)
(* run writes to that target later.  Collections are made by the library    *)
(* function create_collection, which nothing in the service calls: the      *)
(* operator does, and drops what a failed call left behind.  Nothing makes  *)
(* him do so before a version is active, which the install script sets at   *)
(* first boot, or before a repository gets its first upload.                *)
(*                                                                          *)
(* A repository id and a model version are the sequences of their parts     *)
(* between underscores; so is a collection name, which is built of both.    *)
(***************************************************************************)
EXTENDS Naturals, Sequences

CONSTANTS
    Uploads,        \* the uploads considered
    Repositories,   \* the repository ids, which callers choose
    Versions,       \* model versions
    None,           \* no version, no target
    KnownRoles,     \* KNOWN_ROLES
    MandatoryPayloadIndexes     \* MANDATORY_PAYLOAD_INDEXES

ASSUME NamesAssumption ==
    Repositories \subseteq Seq(STRING) /\ Versions \subseteq Seq(STRING)
ASSUME NoneAssumption == None \notin Versions
ASSUME RolesAssumption == KnownRoles \in Seq(STRING)
ASSUME IndexesAssumption == MandatoryPayloadIndexes \in Seq(STRING)

VARIABLES
    active,       \* the active version of each role, as committed
    exists,       \* the collections in Qdrant
    indexes,      \* how many payload indexes each collection has
    creating,     \* those whose create_collection is under way
    usable,       \* those whose create_collection has returned
    points,       \* which upload is in which collection, under which stamp
    corpus,       \* the repository_id of each upload
    stage,        \* where each upload is
    target,       \* the IndexTarget each upload was resolved to
    prepared,     \* uploads resolved after their collection's creation returned
    asked,        \* how many roles the listing has asked for
    listing,      \* the results of the listing so far
    since         \* of each role listed, what was active since the listing began

operator == <<exists, indexes, creating, usable>>
ingest == <<points, corpus, stage, target, prepared>>
reader == <<asked, listing, since>>
vars == <<active, operator, ingest, reader>>

Listed == {KnownRoles[i] : i \in DOMAIN KnownRoles}
Roles == Listed \union {"embedding"}

Complete == Len(MandatoryPayloadIndexes)

\* f"{corpus_id}_{embedding_model_version}"
BuildCollectionName(repository, version) == repository \o version

Collections == {BuildCollectionName(r, v) : r \in Repositories, v \in Versions}

\* No two pairs have one name: so where neither ids nor versions contain an
\* underscore, but nothing forbids one.
NamesAreUnambiguous ==
    \A r, q \in Repositories, v, w \in Versions :
        BuildCollectionName(r, v) = BuildCollectionName(q, w) => r = q /\ v = w

IndexTarget == [collection_name : Collections, embedding_model_version : Versions]

RoleModelVersion == [role : Roles, model_version : Versions \union {None}]

TargetsTypeOK ==
    /\ active \in [Roles -> Versions \union {None}]
    /\ exists \subseteq Collections
    /\ indexes \in [Collections -> 0..Complete]
    /\ creating \subseteq exists
    /\ usable \subseteq exists
    /\ points \subseteq [upload : Uploads, collection : Collections, stamp : Versions]
    /\ corpus \in [Uploads -> Repositories]
    /\ stage \in [Uploads -> {"new", "refused", "scheduled", "indexed", "failed"}]
    /\ target \in [Uploads -> IndexTarget \union {None}]
    /\ \A u \in Uploads : stage[u] = "scheduled" => target[u] \in IndexTarget
    /\ prepared \subseteq Uploads
    /\ asked \in 0..Len(KnownRoles)
    /\ listing \in Seq(RoleModelVersion)
    /\ since \in [Listed -> SUBSET (Versions \union {None})]

\* The install script may have seeded the active versions.
Init ==
    /\ active \in [Roles -> Versions \union {None}]
    /\ exists = {}
    /\ indexes = [c \in Collections |-> 0]
    /\ creating = {}
    /\ usable = {}
    /\ points = {}
    /\ corpus \in [Uploads -> Repositories]
    /\ stage = [u \in Uploads |-> "new"]
    /\ target = [u \in Uploads |-> None]
    /\ prepared = {}
    /\ asked = 0
    /\ listing = <<>>
    /\ since = [r \in Listed |-> {active[r]}]

-----------------------------------------------------------------------------
(* create_collection, one call to Qdrant at a time.                         *)

\* Mutant: a collection that is there already is taken to be finished.
CreateIfMissing(c) ==
    IF c \in exists
    THEN usable' = usable \union {c} /\ UNCHANGED <<exists, creating>>
    ELSE exists' = exists \union {c} /\ creating' = creating \union {c}
         /\ UNCHANGED usable

\* Not idempotent: Qdrant refuses a name it has.
CreateNew(c) ==
    /\ c \notin exists
    /\ exists' = exists \union {c}
    /\ creating' = creating \union {c}
    /\ UNCHANGED usable

CreateCollection(c) ==
    /\ c \notin creating
    /\ CreateNew(c)
    /\ UNCHANGED <<active, indexes, ingest, reader>>

\* Mutant: the loop goes round once more.
LeftWithLast(c) == indexes[c] <= Complete

IndexesAreLeft(c) == indexes[c] < Complete

CreatePayloadIndex(c) ==
    /\ c \in creating
    /\ IndexesAreLeft(c)
    /\ indexes' = [indexes EXCEPT ![c] = @ + 1]
    /\ UNCHANGED <<active, exists, creating, usable, ingest, reader>>

CreationReturns(c) ==
    /\ c \in creating
    /\ ~IndexesAreLeft(c)
    /\ creating' = creating \ {c}
    /\ usable' = usable \union {c}
    /\ UNCHANGED <<active, exists, indexes, ingest, reader>>

\* A call raises, its effect there or not, and with it create_collection.
CreationRaises(c) ==
    /\ c \in creating
    /\ creating' = creating \ {c}
    /\ UNCHANGED <<active, exists, indexes, usable, ingest, reader>>

\* The rollback plan: drop what is half made, with any points that uploads
\* have written there meanwhile, and recreate it.
DropCollection(c) ==
    /\ c \in exists \ (creating \union usable)
    /\ exists' = exists \ {c}
    /\ indexes' = [indexes EXCEPT ![c] = 0]
    /\ points' = {p \in points : p.collection # c}
    /\ UNCHANGED <<active, creating, usable, corpus, stage, target, prepared, reader>>

-----------------------------------------------------------------------------
(* The active version.  A swap deactivates one row and inserts another in   *)
(* one transaction; the flag may also be cleared.  No code looks at the     *)
(* collections.                                                            *)

SetActive(role, v) ==
    /\ active' = [active EXCEPT ![role] = v]
    /\ since' = [r \in Listed |-> since[r] \union {x \in {v} : r = role}]
    /\ UNCHANGED <<operator, ingest, asked, listing>>

GetActiveModelVersion(role) == active[role]

-----------------------------------------------------------------------------
(* An upload.                                                              *)

\* resolve_index_target in post_ingest ...
ResolveIndexTarget(u) ==
    /\ stage[u] = "new"
    /\ LET v == GetActiveModelVersion("embedding")
           name == BuildCollectionName(corpus[u], v)
       IN  /\ v # None
           /\ target' = [target EXCEPT ![u] =
                 [collection_name |-> name, embedding_model_version |-> v]]
           /\ prepared' = IF name \in usable THEN prepared \union {u} ELSE prepared
    /\ stage' = [stage EXCEPT ![u] = "scheduled"]
    /\ UNCHANGED <<active, operator, points, corpus, reader>>

\* ... and its 500 if no version is active.
NoActiveModelVersion(u) ==
    /\ stage[u] = "new"
    /\ GetActiveModelVersion("embedding") = None
    /\ stage' = [stage EXCEPT ![u] = "refused"]
    /\ UNCHANGED <<active, operator, points, corpus, target, prepared, reader>>

\* Mutant: the stamp is the version that is active when the points are made.
StampWithActive(u) ==
    IF active["embedding"] = None
    THEN target[u].embedding_model_version ELSE active["embedding"]

Stamp(u) == target[u].embedding_model_version

\* The background run writes to the collection it was given, without a look
\* at it; Qdrant knows the collection or refuses.  One point stands for those
\* of an upload, which has some text.
Write(u) ==
    /\ target[u].collection_name \in exists
    /\ points' = points \union
          {[upload |-> u, collection |-> target[u].collection_name, stamp |-> Stamp(u)]}

Upsert(u) ==
    /\ stage[u] = "scheduled"
    /\ Write(u)
    /\ stage' = [stage EXCEPT ![u] = "indexed"]
    /\ UNCHANGED <<active, operator, corpus, target, prepared, reader>>

\* It fails, before Qdrant has the points or after.
UpsertRaises(u) ==
    /\ stage[u] = "scheduled"
    /\ Write(u) \/ UNCHANGED points
    /\ stage' = [stage EXCEPT ![u] = "failed"]
    /\ UNCHANGED <<active, operator, corpus, target, prepared, reader>>

-----------------------------------------------------------------------------
(* GET /v1/admin/config/models, one SELECT per role.                        *)

BeginListing ==
    /\ asked' = 0
    /\ listing' = <<>>
    /\ since' = [r \in Listed |-> {active[r]}]
    /\ UNCHANGED <<active, operator, ingest>>

\* Mutant: a role without an active row is left out.
SkipMissing(role) ==
    IF active[role] = None THEN listing
    ELSE Append(listing, [role |-> role, model_version |-> active[role]])

\* NoActiveModelVersionError is caught for each role, and the role listed.
ListRole(role) ==
    Append(listing, [role |-> role, model_version |-> GetActiveModelVersion(role)])

ListNext ==
    /\ asked < Len(KnownRoles)
    /\ asked' = asked + 1
    /\ listing' = ListRole(KnownRoles[asked + 1])
    /\ UNCHANGED <<active, operator, ingest, since>>

Operator ==
    \/ \E c \in Collections :
          \/ CreateCollection(c) \/ CreatePayloadIndex(c) \/ CreationReturns(c)
          \/ CreationRaises(c) \/ DropCollection(c)
    \/ \E r \in Roles, v \in Versions \union {None} : SetActive(r, v)

Next ==
    \/ Operator
    \/ \E u \in Uploads :
          \/ ResolveIndexTarget(u) \/ NoActiveModelVersion(u)
          \/ Upsert(u) \/ UpsertRaises(u)
    \/ BeginListing
    \/ ListNext

Spec == Init /\ [][Next]_vars

-----------------------------------------------------------------------------
(* Properties.                                                             *)

\* The payload indexes are "Mandatory, created before ingest"
\* (specs/07-database.md).  The code does not see to it: an upload takes the
\* collection it finds.  What an operator can rely on who waits for
\* create_collection to return: the uploads that are resolved from then on lie
\* in a collection with all payload indexes, and stay there, however often an
\* attempt failed half-way before, a half-made collection was dropped, and
\* versions were swapped.
PreparedIsIndexed ==
    /\ \A p \in points : p.upload \in prepared => indexes[p.collection] = Complete
    /\ \A u \in prepared : stage[u] = "indexed" => \E p \in points : p.upload = u

\* "One collection per (corpus_id, embedding_model_version)"
\* (specs/07-database.md), as the points have it: those of two uploads lie in
\* one collection just if their repositories and the versions they are stamped
\* with are the same, also when versions are swapped between a request and its
\* background run.  So it is where names are unambiguous.
OneCollectionPerPair ==
    \A p, q \in points :
        p.collection = q.collection <=>
            corpus[p.upload] = corpus[q.upload] /\ p.stamp = q.stamp

\* The listing has a line for each role it has asked for, in the order of
\* KNOWN_ROLES and also where no version is active, and what a line says was
\* so at some moment since the listing began, whatever is swapped in between.
ListingIsTruthful ==
    /\ Len(listing) = asked
    /\ \A i \in DOMAIN listing :
          /\ listing[i].role = KnownRoles[i]
          /\ listing[i].model_version \in since[listing[i].role]

=============================================================================
