---------------------------- MODULE DocumentEdits ----------------------------
(***************************************************************************)
(* What the admin API promises of edits to one document: each is applied as *)
(* a whole, at most once, to the document as it is at that moment, and      *)
(* leaves the fields alone that it does not name.                           *)
(***************************************************************************)
CONSTANTS Field, Value, Requests

VARIABLES
    row,      \* the document's fields
    body,     \* the edit each request asks for
    applied   \* the requests that took effect

vars == <<row, body, applied>>

Init ==
    /\ row \in [Field -> Value]
    /\ applied = {}

Apply(r) ==
    /\ r \notin applied
    /\ applied' = applied \union {r}
    /\ row' = [f \in Field |-> IF f \in DOMAIN body[r].set
                              THEN body[r].set[f] ELSE row[f]]
    /\ UNCHANGED body

Next == \E r \in Requests : Apply(r)

Spec == Init /\ [][Next]_vars

=============================================================================
