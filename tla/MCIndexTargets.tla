---------------------------- MODULE MCIndexTargets ----------------------------
(***************************************************************************)
(* An instance of IndexTargets for TLC.                                     *)
(*                                                                          *)
(* The module is about three things that have little to do with one another *)
(* and are too many states together: the indexes of the collection that an  *)
(* upload lies in, the collections that several uploads lie in, and the     *)
(* listing.  A behaviour is about one of them, and does not take the steps  *)
(* that only the others need.                                               *)
(***************************************************************************)
EXTENDS IndexTargets

CONSTANT Single     \* the upload of a behaviour about indexes

VARIABLE about      \* what the behaviour is about

\* Two repositories, and two versions, none with an underscore.
PlainRepositories == {<<"default">>, <<"archive">>}
PlainVersions == {<<"m1">>, <<"m2">>}

\* Two roles that uploads do not read.
TwoRoles == <<"generation", "rerank">>

TwoIndexes == <<"allow_principals", "deny_principals">>

MCInit ==
    /\ Init
    /\ about \in {"indexes", "collections", "listing"}
    /\ about = "listing" => active["embedding"] = None
    /\ about # "listing" => \A r \in Listed : active[r] = None
    /\ about # "collections" => \A u \in Uploads : corpus[u] = corpus[Single]

Within ==
    /\ about = "indexes" =>
          UNCHANGED reader /\ \A u \in Uploads \ {Single} : stage'[u] = stage[u]
    /\ about = "collections" => UNCHANGED <<indexes, reader>>
    /\ about = "listing" => UNCHANGED <<operator, ingest>> /\ active'["embedding"] = None

MCNext == Next /\ Within /\ UNCHANGED about

MCSpec == MCInit /\ [][MCNext]_<<vars, about>>

=============================================================================
