------------------------------ MODULE Chunking ------------------------------
(***************************************************************************)
(* split_into_chunks (ingest/chunking.py): a window of `size' tokens slides *)
(* over the tokens of a text, each time by `size - overlap', and every      *)
(* position becomes a chunk with the next sequence number.                  *)
(*                                                                          *)
(* Tokens are numbered from 0; a chunk is made of the interval from..to - 1 *)
(* and its text is what decode leaves of it: bge-m3's own tokenizer puts a  *)
(* mark before the text and one behind it, and leaves marks out when it     *)
(* decodes.  The text is modelled as the set of the tokens it shows.        *)
(*                                                                          *)
(* The id of a chunk is a function of the document, the version and its     *)
(* sequence number, and a chunk written later under the same id replaces    *)
(* the earlier one in the index.                                            *)
(***************************************************************************)
EXTENDS Integers, Sequences

CONSTANTS Calls     \* the calls considered

\* empty: there is no text.  tokens: what the tokenizer makes of it, which may
\* be more than nothing for an empty text.  silent: the tokens that decode
\* leaves out.  Callers leave the overlap below the size (by default 128 of
\* 1024).
Call ==
    {c \in [empty : BOOLEAN, tokens : Nat, silent : SUBSET Nat,
            size : Nat, overlap : Nat] : c.overlap < c.size}

ASSUME CallsAssumption == Calls \subseteq Call

VARIABLES
    call,       \* the arguments
    start,      \* where the window is
    sequence,   \* the number of the next chunk
    chunks,     \* the chunks so far
    returned    \* the list was returned

vars == <<call, start, sequence, chunks, returned>>

Chunk == [sequence : Nat, from : Nat, to : Nat, text : SUBSET Nat]

ChunkTypeOK ==
    /\ call \in Call
    /\ start \in Nat
    /\ sequence \in Nat
    /\ chunks \in Seq(Chunk)
    /\ returned \in BOOLEAN
    /\ \A i \in DOMAIN chunks : chunks[i].to <= call.tokens

Init ==
    /\ call \in Calls
    /\ start = 0
    /\ sequence = 0
    /\ chunks = <<>>
    /\ returned = FALSE

\* Mutant: the window moves on by a whole window.
StepOfWindow == call.size

Step == call.size - call.overlap

\* Mutant: a window that is not full is dropped.
FullWindowIsLeft == ~call.empty /\ start + call.size <= call.tokens

\* Mutant: the tokens of an empty text are marks, and are chunked.
TokensAreLeft == start < call.tokens

WindowIsLeft == ~call.empty /\ start < call.tokens

\* Mutant: the slice is not cut at the end of the text.
SliceBeyond == start + call.size

\* A slice of a list ends with the list.
SliceEnd ==
    IF start + call.size < call.tokens THEN start + call.size ELSE call.tokens

\* tokenizer.decode of a window.
Decode(from, to) == {t \in from .. to - 1 : t \notin call.silent}

\* Mutant: the number is not counted up.
SameSequence == sequence

NextSequence == sequence + 1

Slide ==
    /\ ~returned
    /\ WindowIsLeft
    /\ chunks' = Append(chunks,
                    [sequence |-> sequence, from |-> start, to |-> SliceEnd,
                     text |-> Decode(start, SliceEnd)])
    /\ sequence' = NextSequence
    /\ start' = start + Step
    /\ UNCHANGED <<call, returned>>

Return ==
    /\ ~returned
    /\ ~WindowIsLeft
    /\ returned' = TRUE
    /\ UNCHANGED <<call, start, sequence, chunks>>

Next == Slide \/ Return

Spec == Init /\ [][Next]_vars

-----------------------------------------------------------------------------
(* Properties.                                                             *)

\* What the index will hold of the chunks: the last one of each number.
Kept(i) ==
    \A j \in i + 1 .. Len(chunks) : chunks[j].sequence # chunks[i].sequence

\* No token that decode shows gets lost between the windows, at the end of the
\* text or under a chunk id that is used twice: it is in the text of a chunk.
TextIsIndexed ==
    returned /\ ~call.empty =>
        \A t \in 0 .. call.tokens - 1 :
            t \notin call.silent =>
                \E i \in DOMAIN chunks : Kept(i) /\ t \in chunks[i].text

\* Neighbours share exactly the overlap, or what is left of the text.
NeighboursOverlap ==
    \A i \in 1 .. Len(chunks) - 1 :
        LET shared == chunks[i].to - chunks[i + 1].from
            left == call.tokens - chunks[i + 1].from
        IN  /\ shared = IF left < call.overlap THEN left ELSE call.overlap
            /\ left > 0

\* The number of chunks is the number of steps that begin within the text, and
\* none for an empty text, and each chunk is made of some tokens; so the loop
\* comes to an end.  The text of a chunk may be empty all the same: a window
\* can hold nothing but the closing mark.
CountIsExact ==
    /\ call.empty => chunks = <<>>
    /\ Len(chunks) * Step < call.tokens + Step
    /\ returned /\ ~call.empty => call.tokens <= Len(chunks) * Step
    /\ \A i \in DOMAIN chunks : chunks[i].from < chunks[i].to

=============================================================================
