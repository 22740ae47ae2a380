-------------------------- MODULE MCAdminDocuments --------------------------
(* Instances of AdminDocuments for TLC. *)
EXTENDS AdminDocuments

MCValue == {"old", "a", "b"}

Edit(set, acl) == [set |-> set, acl |-> acl, valid |-> TRUE]

\* Edits of one table, of both, of the same and of different columns, an
\* empty acl object, an empty body and an unknown state.
MCBodies == {
    Edit([lifecycle |-> "a"], FALSE),
    Edit([authority |-> "b"], FALSE),
    Edit([authority |-> "a", retention |-> "a"], TRUE),
    Edit([principals |-> "a"], TRUE),
    Edit([principals |-> "b", retention |-> "b"], TRUE),
    Edit(Nothing, TRUE),
    Edit(Nothing, FALSE),
    [set |-> Nothing, acl |-> FALSE, valid |-> FALSE]}

\* Edits of either table and of both.
MCCrossingBodies == {
    Edit([lifecycle |-> "a"], FALSE),
    Edit([principals |-> "b"], TRUE),
    Edit([authority |-> "a", principals |-> "a"], TRUE)}

\* Two edits that both change documents.
MCDocBodies == {Edit([authority |-> "a"], FALSE), Edit([lifecycle |-> "b"], FALSE)}

ApartInit == Init /\ Apart

ApartSpec == ApartInit /\ [][Next]_vars /\ Fairness

=============================================================================
