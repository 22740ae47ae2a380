------------------------- MODULE MCKeysetPagination -------------------------
(* Instances of KeysetPagination for TLC. *)
EXTENDS KeysetPagination

MCRow == {
    [at |-> 1, id |-> 1, user |-> "u"],
    [at |-> 1, id |-> 2, user |-> "v"],
    [at |-> 1, id |-> 4, user |-> "u"],
    [at |-> 2, id |-> 3, user |-> "u"],
    [at |-> 3, id |-> 0, user |-> "v"]}

MCFilters == {
    [from |-> 0, to |-> 9, user |-> AnyUser],   \* the list of documents
    [from |-> 1, to |-> 2, user |-> AnyUser],
    [from |-> 0, to |-> 9, user |-> "u"]}

MCLimits == {0, 1, 2, 3, 9}

=============================================================================
