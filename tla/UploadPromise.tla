----------------------------- MODULE UploadPromise -----------------------------
(***************************************************************************)
(* What the ingest API promises to the client of one upload, who sees the   *)
(* answer to the POST, the answers to polls, and what a search can find.    *)
(* Nothing is found of an upload that was not acknowledged, polls know of   *)
(* none that was turned away, they say "ready" only of what can be found,   *)
(* and after a final verdict nothing changes any more.                      *)
(***************************************************************************)
EXTENDS JobPhases

VARIABLES
    answer,     \* the status code of the POST, 0 before it
    told,       \* the status in the last answer to a poll
    searchable  \* every chunk of the document is in the index

vars == <<answer, told, searchable>>

TurnedAway == {400, 401, 415}

\* A document without chunks is searchable before anything happens.
Init ==
    /\ answer = 0
    /\ told = "unknown"
    /\ searchable \in BOOLEAN

Answer(code) ==
    /\ answer = 0
    /\ code \in TurnedAway => told = "unknown"
    /\ answer' = code
    /\ UNCHANGED <<told, searchable>>

Publish ==
    /\ answer = 200
    /\ told \notin Settled
    /\ searchable' = TRUE
    /\ UNCHANGED <<answer, told>>

Tell(status) ==
    /\ StatusRank(status) > StatusRank(told)
    /\ answer \notin TurnedAway
    /\ status # "pending" => answer = 200
    /\ status = "ready" => searchable
    /\ told' = status
    /\ UNCHANGED <<answer, searchable>>

Next ==
    \/ \E code \in TurnedAway \union {200, 500} : Answer(code)
    \/ Publish
    \/ \E status \in ApiStatus : Tell(status)

Spec == Init /\ [][Next]_vars

=============================================================================
