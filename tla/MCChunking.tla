----------------------------- MODULE MCChunking -----------------------------
(* Instances of Chunking for TLC. *)
EXTENDS Chunking

\* The default window around the lengths where its number of chunks changes.
DefaultLengths == {1, 895, 896, 897, 1023, 1024, 1025, 1792, 1793}

Arguments ==
    [empty : BOOLEAN, tokens : 0..16, size : 1..6, overlap : 0..3] \union
    [empty : {FALSE}, tokens : DefaultLengths, size : {1024}, overlap : {128}]

\* Every token shown, as by the tokenizer of the tests; marks at both ends, as
\* by that of bge-m3; one more token that shows nothing; and none shown.
Silences(n) ==
    {s \cap (0 .. n - 1) : s \in {{}, {0, n - 1}, {0, n \div 2, n - 1}, 0 .. n - 1}}

CallsOn(a) ==
    {[empty |-> a.empty, tokens |-> a.tokens, silent |-> s,
      size |-> a.size, overlap |-> a.overlap] : s \in Silences(a.tokens)}

MCCalls == UNION {CallsOn(a) : a \in {b \in Arguments : b.overlap < b.size}}

=============================================================================
