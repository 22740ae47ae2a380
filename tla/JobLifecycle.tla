----------------------------- MODULE JobLifecycle -----------------------------
(***************************************************************************)
(* What an ingest job promises to those who poll it, whatever goes on       *)
(* inside: the phase only moves forward, "ready" is said of a document only *)
(* when it is searchable, and a verdict is final.                           *)
(***************************************************************************)
EXTENDS JobPhases

VARIABLES
    phase,      \* the phase that polls report
    searchable  \* every chunk of the document is in the index

vars == <<phase, searchable>>

\* A document without chunks is searchable before anything happens.
Init == phase = "pending" /\ searchable \in BOOLEAN

Work ==
    /\ phase \in Working
    /\ phase' \in {p \in Working : Rank[p] > Rank[phase]}
    /\ UNCHANGED searchable

Publish ==
    /\ phase \in Working
    /\ searchable' = TRUE
    /\ UNCHANGED phase

Finish ==
    /\ phase \in Working
    /\ searchable
    /\ phase' = "ready"
    /\ UNCHANGED searchable

GiveUp ==
    /\ phase \in Working
    /\ phase' = "failed"
    /\ UNCHANGED searchable

Next == Work \/ Publish \/ Finish \/ GiveUp

Spec == Init /\ [][Next]_vars

=============================================================================
