-------------------------- MODULE IndexTargetsProofs --------------------------
(***************************************************************************)
(* Theorems about IndexTargets, for all uploads, repositories and versions  *)
(* and all lists of roles and of payload indexes.                           *)
(***************************************************************************)
EXTENDS IndexTargets, SequenceTheorems, TLAPS

USE DEF operator, ingest, reader

LEMMA CompleteType == Complete \in Nat
BY IndexesAssumption DEF Complete

LEMMA NameType ==
    ASSUME NEW r \in Repositories, NEW v \in Versions
    PROVE  BuildCollectionName(r, v) \in Collections
BY DEF Collections

LEMMA RoleOfPosition ==
    ASSUME NEW i \in 1..Len(KnownRoles)
    PROVE  KnownRoles[i] \in Listed /\ KnownRoles[i] \in Roles
BY RolesAssumption DEF Listed, Roles

\* A list that gets one element more keeps the others where they were.
LEMMA AppendOne ==
    ASSUME NEW S, NEW s \in Seq(S), NEW e \in S
    PROVE  /\ Append(s, e) \in Seq(S)
           /\ Len(Append(s, e)) = Len(s) + 1
           /\ DOMAIN s = 1..Len(s)
           /\ DOMAIN Append(s, e) = 1..(Len(s) + 1)
           /\ \A i \in 1..Len(s) : Append(s, e)[i] = s[i]
           /\ Append(s, e)[Len(s) + 1] = e
OBVIOUS

-----------------------------------------------------------------------------
(* Types.                                                                  *)

LEMMA InitTargetsType == Init => TargetsTypeOK
<1> SUFFICES ASSUME Init PROVE TargetsTypeOK
  OBVIOUS
<1>1. Len(KnownRoles) \in Nat
  BY RolesAssumption
<1>2. listing \in Seq(RoleModelVersion)
  BY DEF Init
<1>3. since \in [Listed -> SUBSET (Versions \union {None})]
  BY DEF Init, Roles
<1> QED
  BY <1>1, <1>2, <1>3, CompleteType DEF Init, TargetsTypeOK

\* The operator is the only one to touch a collection.
LEMMA CollectionSteps ==
    ASSUME [Next]_vars
    PROVE  \/ UNCHANGED operator
           \/ \E c \in Collections :
                 \/ CreateCollection(c) \/ CreatePayloadIndex(c) \/ CreationReturns(c)
                 \/ CreationRaises(c) \/ DropCollection(c)
BY DEF Next, Operator, SetActive, ResolveIndexTarget, NoActiveModelVersion, Upsert,
       UpsertRaises, BeginListing, ListNext, vars

LEMMA NextCollectionsType ==
    ASSUME TargetsTypeOK, [Next]_vars
    PROVE  /\ exists' \subseteq Collections
           /\ indexes' \in [Collections -> 0..Complete]
           /\ creating' \subseteq exists' /\ usable' \subseteq exists'
<1>0. /\ exists \subseteq Collections /\ indexes \in [Collections -> 0..Complete]
      /\ creating \subseteq exists /\ usable \subseteq exists /\ Complete \in Nat
  BY CompleteType DEF TargetsTypeOK
<1>1. ASSUME NEW c \in Collections,
             CreateCollection(c) \/ CreationReturns(c) \/ CreationRaises(c)
      PROVE  /\ exists' \subseteq Collections /\ indexes' = indexes
             /\ creating' \subseteq exists' /\ usable' \subseteq exists'
  BY <1>0, <1>1 DEF CreateCollection, CreateNew, CreationReturns, CreationRaises
<1>2. ASSUME NEW c \in Collections, CreatePayloadIndex(c)
      PROVE  /\ UNCHANGED <<exists, creating, usable>>
             /\ indexes' \in [Collections -> 0..Complete]
  BY <1>0, <1>2 DEF CreatePayloadIndex, IndexesAreLeft
<1>3. ASSUME NEW c \in Collections, DropCollection(c)
      PROVE  /\ exists' \subseteq Collections /\ indexes' \in [Collections -> 0..Complete]
             /\ creating' \subseteq exists' /\ usable' \subseteq exists'
  BY <1>0, <1>3 DEF DropCollection
<1>4. CASE UNCHANGED operator
  BY <1>0, <1>4
<1> QED
  BY <1>0, <1>1, <1>2, <1>3, <1>4, CollectionSteps

\* The points that an upload writes.
LEMMA WriteType ==
    ASSUME TargetsTypeOK, NEW u \in Uploads, stage[u] = "scheduled"
    PROVE  /\ target[u].collection_name \in Collections
           /\ Stamp(u) \in Versions
           /\ Write(u) =>
                 points' \subseteq [upload : Uploads, collection : Collections, stamp : Versions]
<1>1. target[u] \in IndexTarget
  BY DEF TargetsTypeOK
<1>2. /\ target[u].collection_name \in Collections
      /\ Stamp(u) \in Versions
  BY <1>1 DEF IndexTarget, Stamp
<1> QED
  BY <1>2 DEF Write, TargetsTypeOK

LEMMA NextTargetsType == ASSUME TargetsTypeOK, [Next]_vars PROVE TargetsTypeOK'
<1>0. /\ active \in [Roles -> Versions \union {None}]
      /\ points \subseteq [upload : Uploads, collection : Collections, stamp : Versions]
      /\ corpus \in [Uploads -> Repositories]
      /\ stage \in [Uploads -> {"new", "refused", "scheduled", "indexed", "failed"}]
      /\ target \in [Uploads -> IndexTarget \union {None}]
      /\ \A u \in Uploads : stage[u] = "scheduled" => target[u] \in IndexTarget
      /\ prepared \subseteq Uploads
      /\ asked \in 0..Len(KnownRoles)
      /\ listing \in Seq(RoleModelVersion)
      /\ since \in [Listed -> SUBSET (Versions \union {None})]
      /\ "embedding" \in Roles /\ Listed \subseteq Roles
      /\ Len(KnownRoles) \in Nat
  BY RolesAssumption DEF TargetsTypeOK, Roles
<1>a. /\ exists' \subseteq Collections
      /\ indexes' \in [Collections -> 0..Complete]
      /\ creating' \subseteq exists' /\ usable' \subseteq exists'
  BY NextCollectionsType
<1>1. CASE UNCHANGED <<active, corpus, stage, target, prepared, reader>>
           /\ points' \subseteq points
  BY <1>0, <1>1, <1>a DEF TargetsTypeOK
<1>2. ASSUME NEW r \in Roles, NEW v \in Versions \union {None}, SetActive(r, v)
      PROVE  TargetsTypeOK'
  <2>1. since' \in [Listed -> SUBSET (Versions \union {None})]
    BY <1>0, <1>2 DEF SetActive
  <2> QED
    BY <1>0, <1>2, <1>a, <2>1 DEF TargetsTypeOK, SetActive
<1>3. ASSUME NEW u \in Uploads, ResolveIndexTarget(u) PROVE TargetsTypeOK'
  <2> DEFINE v == active["embedding"]
             name == BuildCollectionName(corpus[u], v)
             t == [collection_name |-> name, embedding_model_version |-> v]
  <2>1. /\ v # None /\ target' = [target EXCEPT ![u] = t]
        /\ prepared' = IF name \in usable THEN prepared \union {u} ELSE prepared
        /\ stage' = [stage EXCEPT ![u] = "scheduled"]
        /\ UNCHANGED <<active, operator, points, corpus, reader>>
    BY <1>3 DEF ResolveIndexTarget, GetActiveModelVersion
  <2>2. t \in IndexTarget
    BY <1>0, <2>1, NameType DEF IndexTarget
  <2> HIDE DEF v, name, t
  <2>3. /\ target' \in [Uploads -> IndexTarget \union {None}]
        /\ stage' \in [Uploads -> {"new", "refused", "scheduled", "indexed", "failed"}]
        /\ \A w \in Uploads : stage'[w] = "scheduled" => target'[w] \in IndexTarget
        /\ prepared' \subseteq Uploads
    BY <1>0, <2>1, <2>2
  <2> QED
    BY <1>0, <1>a, <2>1, <2>3 DEF TargetsTypeOK
<1>4. ASSUME NEW u \in Uploads, Upsert(u) \/ UpsertRaises(u) PROVE TargetsTypeOK'
  <2>1. /\ stage[u] = "scheduled"
        /\ Write(u) \/ UNCHANGED points
        /\ UNCHANGED <<active, operator, corpus, target, prepared, reader>>
        /\ \E s \in {"indexed", "failed"} : stage' = [stage EXCEPT ![u] = s]
    BY <1>4 DEF Upsert, UpsertRaises
  <2>2. points' \subseteq [upload : Uploads, collection : Collections, stamp : Versions]
    BY <1>0, <2>1, WriteType
  <2>3. /\ stage' \in [Uploads -> {"new", "refused", "scheduled", "indexed", "failed"}]
        /\ \A w \in Uploads : stage'[w] = "scheduled" => stage[w] = "scheduled"
    BY <1>0, <2>1
  <2> QED
    BY <1>0, <1>a, <2>1, <2>2, <2>3 DEF TargetsTypeOK
<1>5. ASSUME NEW u \in Uploads, NoActiveModelVersion(u) PROVE TargetsTypeOK'
  BY <1>0, <1>5, <1>a DEF TargetsTypeOK, NoActiveModelVersion
<1>6. CASE BeginListing
  <2>1. /\ asked' \in 0..Len(KnownRoles) /\ listing' \in Seq(RoleModelVersion)
        /\ since' \in [Listed -> SUBSET (Versions \union {None})]
    BY <1>0, <1>6 DEF BeginListing
  <2> QED
    BY <1>0, <1>6, <1>a, <2>1 DEF TargetsTypeOK, BeginListing
<1>7. CASE ListNext
  <2> DEFINE role == KnownRoles[asked + 1]
  <2>1. asked + 1 \in 1..Len(KnownRoles)
    BY <1>0, <1>7 DEF ListNext
  <2>2. role \in Roles
    BY <2>1, RoleOfPosition
  <2>3. [role |-> role, model_version |-> active[role]] \in RoleModelVersion
    BY <1>0, <2>2 DEF RoleModelVersion
  <2>4. listing' \in Seq(RoleModelVersion)
    BY <1>0, <1>7, <2>3, AppendOne DEF ListNext, ListRole, GetActiveModelVersion
  <2> QED
    BY <1>0, <1>7, <1>a, <2>1, <2>4 DEF TargetsTypeOK, ListNext
<1> QED
  BY <1>1, <1>2, <1>3, <1>4, <1>5, <1>6, <1>7
     DEF Next, Operator, CreateCollection, CreatePayloadIndex, CreationReturns,
         CreationRaises, DropCollection, vars

\* Every variable keeps its type: no collection has more indexes than there
\* are fields, and only collections that exist are being made or used.
THEOREM TargetsTypeCorrect == Spec => []TargetsTypeOK
<1>1. TargetsTypeOK /\ [Next]_vars => TargetsTypeOK'
  BY NextTargetsType
<1> QED
  BY <1>1, InitTargetsType, PTL DEF Spec

-----------------------------------------------------------------------------
(* Collections and points.                                                 *)

\* A collection whose creation returned is whole and not being worked on; the
\* target of an upload was built for its repository, and exists for good if it
\* was usable by then; an upload's points are where it was sent, and are there
\* if nobody could drop them.
TargetInv ==
    /\ \A c \in usable : indexes[c] = Complete /\ c \notin creating
    /\ \A u \in Uploads :
          /\ stage[u] \in {"scheduled", "indexed", "failed"} =>
                /\ target[u] \in IndexTarget
                /\ target[u].collection_name =
                      BuildCollectionName(corpus[u], target[u].embedding_model_version)
          /\ u \in prepared => /\ target[u].collection_name \in usable
                              /\ stage[u] \in {"scheduled", "indexed", "failed"}
          /\ u \in prepared /\ stage[u] = "indexed" => \E p \in points : p.upload = u
    /\ \A p \in points :
          /\ stage[p.upload] \in {"indexed", "failed"}
          /\ p.collection = target[p.upload].collection_name
          /\ p.stamp = target[p.upload].embedding_model_version

\* Neither uploads nor swaps touch a collection; whatever the operator does to
\* one, it never takes or changes a usable one.
LEMMA UsableStays ==
    ASSUME TargetsTypeOK, TargetInv, [Next]_vars
    PROVE  /\ usable \subseteq usable'
           /\ \A c \in usable' : indexes'[c] = Complete /\ c \notin creating'
<1>0. /\ indexes \in [Collections -> 0..Complete] /\ Complete \in Nat
      /\ usable \subseteq exists /\ exists \subseteq Collections /\ creating \subseteq exists
      /\ \A c \in usable : indexes[c] = Complete /\ c \notin creating
  BY CompleteType DEF TargetsTypeOK, TargetInv
<1>1. ASSUME NEW c \in Collections, CreateCollection(c) \/ CreationRaises(c)
      PROVE  /\ UNCHANGED <<indexes, usable>>
             /\ \A d \in usable : d \notin creating'
  BY <1>0, <1>1 DEF CreateCollection, CreateNew, CreationRaises
<1>2. ASSUME NEW c \in Collections, CreatePayloadIndex(c)
      PROVE  /\ UNCHANGED <<creating, usable>>
             /\ \A d \in usable : indexes'[d] = indexes[d]
  BY <1>0, <1>2 DEF CreatePayloadIndex
<1>3. ASSUME NEW c \in Collections, CreationReturns(c)
      PROVE  /\ usable' = usable \union {c} /\ creating' = creating \ {c}
             /\ indexes' = indexes /\ indexes[c] = Complete
  BY <1>0, <1>3 DEF CreationReturns, IndexesAreLeft
<1>4. ASSUME NEW c \in Collections, DropCollection(c)
      PROVE  /\ UNCHANGED <<creating, usable>>
             /\ \A d \in usable : indexes'[d] = indexes[d]
  BY <1>0, <1>4 DEF DropCollection
<1> QED
  BY <1>0, <1>1, <1>2, <1>3, <1>4, CollectionSteps

LEMMA InitTarget == Init => TargetInv
BY DEF Init, TargetInv

LEMMA NextTarget ==
    ASSUME TargetsTypeOK, TargetInv, [Next]_vars PROVE TargetInv'
<1>0. /\ active \in [Roles -> Versions \union {None}] /\ "embedding" \in Roles
      /\ points \subseteq [upload : Uploads, collection : Collections, stamp : Versions]
      /\ corpus \in [Uploads -> Repositories]
      /\ stage \in [Uploads -> {"new", "refused", "scheduled", "indexed", "failed"}]
      /\ target \in [Uploads -> IndexTarget \union {None}]
      /\ prepared \subseteq Uploads
      /\ \A p \in points : p.upload \in Uploads
  BY DEF TargetsTypeOK, Roles
<1>a. /\ usable \subseteq usable'
      /\ \A c \in usable' : indexes'[c] = Complete /\ c \notin creating'
  BY UsableStays
<1>1. CASE UNCHANGED ingest
  BY <1>1, <1>a DEF TargetInv
<1>2. ASSUME NEW c \in Collections, DropCollection(c) PROVE TargetInv'
  <2>1. /\ points' = {p \in points : p.collection # c} /\ c \notin usable
        /\ UNCHANGED <<corpus, stage, target, prepared>>
    BY <1>2 DEF DropCollection
  <2>2. ASSUME NEW u \in Uploads, u \in prepared, stage[u] = "indexed"
        PROVE  \E p \in points' : p.upload = u
    <3>1. PICK p \in points : p.upload = u
      BY <2>2 DEF TargetInv
    <3>2. p.collection \in usable
      BY <2>2, <3>1 DEF TargetInv
    <3> QED
      BY <2>1, <3>1, <3>2
  <2> QED
    BY <1>a, <2>1, <2>2 DEF TargetInv
<1>3. ASSUME NEW u \in Uploads, ResolveIndexTarget(u) PROVE TargetInv'
  <2> DEFINE v == active["embedding"]
             name == BuildCollectionName(corpus[u], v)
             t == [collection_name |-> name, embedding_model_version |-> v]
  <2>1. /\ v # None /\ stage[u] = "new"
        /\ target' = [target EXCEPT ![u] = t]
        /\ prepared' = IF name \in usable THEN prepared \union {u} ELSE prepared
        /\ stage' = [stage EXCEPT ![u] = "scheduled"]
        /\ UNCHANGED <<points, corpus, usable>>
    BY <1>3 DEF ResolveIndexTarget, GetActiveModelVersion
  <2>2. t \in IndexTarget /\ t.collection_name = name /\ t.embedding_model_version = v
    BY <1>0, <2>1, NameType DEF IndexTarget
  <2>3. /\ target'[u] = t /\ stage'[u] = "scheduled"
        /\ \A w \in Uploads : w # u => target'[w] = target[w] /\ stage'[w] = stage[w]
        /\ \A p \in points : p.upload # u
        /\ u \notin prepared
    BY <1>0, <2>1 DEF TargetInv
  <2>4. target'[u].collection_name =
            BuildCollectionName(corpus'[u], target'[u].embedding_model_version)
    BY <2>1, <2>2, <2>3
  <2>5. u \in prepared' => target'[u].collection_name \in usable
    BY <2>1, <2>2, <2>3
  <2> HIDE DEF v, name, t
  <2>6. ASSUME NEW w \in Uploads
        PROVE  /\ stage'[w] \in {"scheduled", "indexed", "failed"} =>
                     /\ target'[w] \in IndexTarget
                     /\ target'[w].collection_name =
                           BuildCollectionName(corpus'[w], target'[w].embedding_model_version)
               /\ w \in prepared' => /\ target'[w].collection_name \in usable'
                                     /\ stage'[w] \in {"scheduled", "indexed", "failed"}
               /\ w \in prepared' /\ stage'[w] = "indexed" =>
                     \E p \in points' : p.upload = w
    <3>1. CASE w = u
      BY <1>a, <2>2, <2>3, <2>4, <2>5, <3>1
    <3>2. CASE w # u
      <4>1. w \in prepared' => w \in prepared
        BY <2>1, <3>2
      <4> QED
        BY <1>a, <2>1, <2>3, <3>2, <4>1 DEF TargetInv
    <3> QED
      BY <3>1, <3>2
  <2>7. \A p \in points' :
           /\ stage'[p.upload] \in {"indexed", "failed"}
           /\ p.collection = target'[p.upload].collection_name
           /\ p.stamp = target'[p.upload].embedding_model_version
    BY <1>0, <2>1, <2>3 DEF TargetInv
  <2> QED
    BY <1>a, <2>6, <2>7 DEF TargetInv
<1>4. ASSUME NEW u \in Uploads, Upsert(u) \/ UpsertRaises(u) PROVE TargetInv'
  <2> DEFINE point == [upload |-> u, collection |-> target[u].collection_name,
                       stamp |-> target[u].embedding_model_version]
  <2>1. /\ stage[u] = "scheduled"
        /\ UNCHANGED <<usable, corpus, target, prepared>>
        /\ \/ /\ points' = points \union {point}
              /\ stage' = [stage EXCEPT ![u] = "indexed"]
           \/ /\ (points' = points \union {point} \/ points' = points)
              /\ stage' = [stage EXCEPT ![u] = "failed"]
    BY <1>4 DEF Upsert, UpsertRaises, Write, Stamp
  <2>2. /\ stage'[u] \in {"indexed", "failed"}
        /\ stage'[u] = "indexed" => point \in points'
        /\ \A w \in Uploads : w # u => stage'[w] = stage[w]
        /\ points \subseteq points' /\ points' \subseteq points \union {point}
        /\ point.upload = u /\ point.collection = target[u].collection_name
        /\ point.stamp = target[u].embedding_model_version
    BY <1>0, <2>1
  <2> HIDE DEF point
  <2>3. \A w \in Uploads :
           w \in prepared /\ stage'[w] = "indexed" => \E p \in points' : p.upload = w
    BY <2>2 DEF TargetInv
  <2>4. \A p \in points' :
           /\ stage'[p.upload] \in {"indexed", "failed"}
           /\ p.collection = target[p.upload].collection_name
           /\ p.stamp = target[p.upload].embedding_model_version
    BY <1>0, <2>2 DEF TargetInv
  <2>5. \A w \in Uploads :
           stage'[w] \in {"scheduled", "indexed", "failed"} =>
               stage[w] \in {"scheduled", "indexed", "failed"}
    BY <2>1, <2>2
  <2>6. \A w \in Uploads :
           stage[w] \in {"scheduled", "indexed", "failed"} =>
               stage'[w] \in {"scheduled", "indexed", "failed"}
    BY <2>1, <2>2
  <2> QED
    BY <1>a, <2>1, <2>3, <2>4, <2>5, <2>6 DEF TargetInv
<1>5. ASSUME NEW u \in Uploads, NoActiveModelVersion(u) PROVE TargetInv'
  <2>1. /\ UNCHANGED <<usable, points, corpus, target, prepared>> /\ stage[u] = "new"
        /\ stage'[u] = "refused"
        /\ \A w \in Uploads : w # u => stage'[w] = stage[w]
    BY <1>0, <1>5 DEF NoActiveModelVersion
  <2>2. u \notin prepared /\ \A p \in points : p.upload # u
    BY <1>0, <2>1 DEF TargetInv
  <2> QED
    BY <1>0, <1>a, <2>1, <2>2 DEF TargetInv
<1> QED
  BY <1>1, <1>2, <1>3, <1>4, <1>5
     DEF Next, Operator, CreateCollection, CreatePayloadIndex, CreationReturns,
         CreationRaises, SetActive, BeginListing, ListNext, vars

LEMMA TargetInvariant == Spec => []TargetInv
<1>1. TargetsTypeOK /\ TargetInv /\ [Next]_vars => TargetInv'
  BY NextTarget
<1> QED
  BY <1>1, InitTarget, TargetsTypeCorrect, PTL DEF Spec

\* Uploads that are resolved after create_collection has returned lie in a
\* collection with all its payload indexes and stay there.  Nothing is
\* assumed of when versions are swapped or of the attempts that failed before,
\* and nothing is said of the uploads that come too early.
THEOREM PreparedUploadsAreIndexed == Spec => []PreparedIsIndexed
<1>1. TargetsTypeOK /\ TargetInv => PreparedIsIndexed
  BY DEF TargetsTypeOK, TargetInv, PreparedIsIndexed
<1> QED
  BY <1>1, TargetsTypeCorrect, TargetInvariant, PTL

\* A collection holds the points of one repository, of one model version, and
\* all of them, however versions are swapped, if the ids and versions in use
\* make no name twice.
THEOREM CollectionsAreKeptApart ==
    ASSUME NamesAreUnambiguous PROVE Spec => []OneCollectionPerPair
<1>1. ASSUME TargetsTypeOK, TargetInv PROVE OneCollectionPerPair
  <2> SUFFICES ASSUME NEW p \in points, NEW q \in points
               PROVE  p.collection = q.collection <=>
                          corpus[p.upload] = corpus[q.upload] /\ p.stamp = q.stamp
    BY DEF OneCollectionPerPair
  <2>1. ASSUME NEW x \in points
        PROVE  /\ x.upload \in Uploads /\ corpus[x.upload] \in Repositories
               /\ x.stamp \in Versions
               /\ x.collection = BuildCollectionName(corpus[x.upload], x.stamp)
    BY <1>1 DEF TargetsTypeOK, TargetInv
  <2> QED
    BY <2>1 DEF NamesAreUnambiguous
<1> QED
  BY <1>1, TargetsTypeCorrect, TargetInvariant, PTL

-----------------------------------------------------------------------------
(* The listing.                                                            *)

ListInv ==
    /\ ListingIsTruthful
    /\ \A r \in Listed : active[r] \in since[r]

LEMMA NextList ==
    ASSUME TargetsTypeOK, ListInv, [Next]_vars PROVE ListInv'
<1>0. /\ active \in [Roles -> Versions \union {None}]
      /\ asked \in 0..Len(KnownRoles)
      /\ listing \in Seq(RoleModelVersion) /\ Len(listing) = asked
      /\ since \in [Listed -> SUBSET (Versions \union {None})]
      /\ Listed \subseteq Roles
      /\ Len(KnownRoles) \in Nat
      /\ \A r \in Listed : active[r] \in since[r]
      /\ \A i \in 1..asked : /\ listing[i].role = KnownRoles[i]
                             /\ listing[i].model_version \in since[listing[i].role]
  BY RolesAssumption DEF TargetsTypeOK, ListInv, ListingIsTruthful, Roles
<1>a. ASSUME NEW i \in 1..asked PROVE listing[i].role \in Listed
  <2>1. listing[i].role = KnownRoles[i] /\ i \in 1..Len(KnownRoles)
    BY <1>0
  <2> QED
    BY <2>1, RoleOfPosition
<1>1. CASE UNCHANGED <<active, reader>>
  <2>1. UNCHANGED <<active, asked, listing, since>>
    BY <1>1 DEF reader
  <2> QED
    BY <2>1 DEF ListInv, ListingIsTruthful
<1>2. ASSUME NEW r \in Roles, NEW v \in Versions \union {None}, SetActive(r, v)
      PROVE  ListInv'
  <2>1. /\ UNCHANGED <<asked, listing>>
        /\ \A q \in Listed : since[q] \subseteq since'[q] /\ active'[q] \in since'[q]
    BY <1>0, <1>2 DEF SetActive
  <2> QED
    BY <1>0, <1>a, <2>1 DEF ListInv, ListingIsTruthful
<1>3. CASE BeginListing
  BY <1>0, <1>3 DEF BeginListing, ListInv, ListingIsTruthful
<1>4. CASE ListNext
  <2> DEFINE role == KnownRoles[asked + 1]
             line == [role |-> role, model_version |-> active[role]]
  <2>1. asked + 1 \in 1..Len(KnownRoles)
    BY <1>0, <1>4 DEF ListNext
  <2>2. role \in Listed /\ role \in Roles
    BY <2>1, RoleOfPosition
  <2>3. line \in RoleModelVersion
    BY <1>0, <2>2 DEF RoleModelVersion
  <2>4. UNCHANGED <<active, since>> /\ asked' = asked + 1 /\ listing' = Append(listing, line)
    BY <1>4 DEF ListNext, ListRole, GetActiveModelVersion
  <2>5. /\ Len(listing') = asked + 1 /\ DOMAIN listing' = 1..(asked + 1)
        /\ \A i \in 1..asked : listing'[i] = listing[i]
        /\ listing'[asked + 1] = line
    <3> HIDE DEF line
    <3> QED
      BY <1>0, <2>3, <2>4, AppendOne
  <2>6. line.role = role /\ line.model_version \in since[line.role]
    BY <1>0, <2>2
  <2>7. ASSUME NEW i \in 1..(asked + 1)
        PROVE  /\ listing'[i].role = KnownRoles[i]
               /\ listing'[i].model_version \in since[listing'[i].role]
    <3>1. i \in 1..asked \/ i = asked + 1
      BY <1>0
    <3> HIDE DEF line
    <3> QED
      BY <1>0, <2>5, <2>6, <3>1
  <2> QED
    BY <1>0, <2>4, <2>5, <2>7 DEF ListInv, ListingIsTruthful
<1> QED
  BY <1>1, <1>2, <1>3, <1>4
     DEF Next, Operator, CreateCollection, CreatePayloadIndex, CreationReturns,
         CreationRaises, DropCollection, ResolveIndexTarget, NoActiveModelVersion,
         Upsert, UpsertRaises, vars

\* A listing never names a version that was not active since it began, and
\* leaves no role out.
THEOREM ListingsAreTruthful == Spec => []ListingIsTruthful
<1>1. Init => ListInv
  BY DEF Init, ListInv, ListingIsTruthful
<1>2. TargetsTypeOK /\ ListInv /\ [Next]_vars => ListInv'
  BY NextList
<1>3. ListInv => ListingIsTruthful
  BY DEF ListInv
<1> QED
  BY <1>1, <1>2, <1>3, TargetsTypeCorrect, PTL DEF Spec

=============================================================================
