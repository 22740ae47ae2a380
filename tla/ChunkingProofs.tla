--------------------------- MODULE ChunkingProofs ---------------------------
(***************************************************************************)
(* Theorems about Chunking, for every text, window and overlap.             *)
(***************************************************************************)
EXTENDS Chunking, TLAPS

LEMMA StepType ==
    ASSUME ChunkTypeOK
    PROVE  /\ call \in Call /\ Step \in Nat /\ Step > 0 /\ Step <= call.size
           /\ call.tokens \in Nat /\ call.size \in Nat /\ call.overlap \in Nat
           /\ call.empty \in BOOLEAN
BY DEF ChunkTypeOK, Call, Step

LEMMA InitChunkType == Init => ChunkTypeOK
<1> SUFFICES ASSUME Init PROVE ChunkTypeOK
  OBVIOUS
<1>1. chunks \in Seq(Chunk) /\ Len(chunks) = 0
  BY DEF Init
<1>2. DOMAIN chunks = 1 .. 0
  BY <1>1
<1>3. \A i \in DOMAIN chunks : chunks[i].to <= call.tokens
  BY <1>2
<1>4. call \in Call
  BY CallsAssumption DEF Init
<1> QED
  BY <1>1, <1>3, <1>4 DEF Init, ChunkTypeOK

LEMMA SliceType ==
    ASSUME ChunkTypeOK
    PROVE  SliceEnd \in Nat /\ SliceEnd <= call.tokens
BY StepType DEF ChunkTypeOK, SliceEnd

\* The chunks after one more step of the loop.
LEMMA SlideAppends ==
    ASSUME ChunkTypeOK, Slide
    PROVE  /\ chunks' \in Seq(Chunk) /\ Len(chunks) \in Nat
           /\ Len(chunks') = Len(chunks) + 1
           /\ \A i \in 1 .. Len(chunks) : chunks'[i] = chunks[i]
           /\ chunks'[Len(chunks) + 1] =
                  [sequence |-> sequence, from |-> start, to |-> SliceEnd,
                   text |-> Decode(start, SliceEnd)]
<1>1. start \in Nat /\ sequence \in Nat /\ SliceEnd \in Nat
  BY SliceType DEF ChunkTypeOK
<1>2. Decode(start, SliceEnd) \in SUBSET Nat
  BY <1>1 DEF Decode
<1> DEFINE chunk == [sequence |-> sequence, from |-> start, to |-> SliceEnd,
                     text |-> Decode(start, SliceEnd)]
<1>3. chunk \in Chunk
  BY <1>1, <1>2 DEF Chunk
<1>4. chunks' = Append(chunks, chunk) /\ chunks \in Seq(Chunk)
  BY DEF Slide, ChunkTypeOK
<1> HIDE DEF chunk
<1>5. /\ chunks' \in Seq(Chunk) /\ Len(chunks) \in Nat
      /\ Len(chunks') = Len(chunks) + 1
      /\ \A i \in 1 .. Len(chunks) : chunks'[i] = chunks[i]
      /\ chunks'[Len(chunks) + 1] = chunk
  BY <1>3, <1>4
<1> QED
  BY <1>5 DEF chunk

LEMMA NextChunkType == ChunkTypeOK /\ [Next]_vars => ChunkTypeOK'
<1> SUFFICES ASSUME ChunkTypeOK, [Next]_vars PROVE ChunkTypeOK'
  OBVIOUS
<1>1. CASE Slide
  <2>1. /\ call' = call /\ returned' = returned
        /\ start' \in Nat /\ sequence' \in Nat
    BY <1>1, StepType DEF Slide, NextSequence, ChunkTypeOK
  <2>2. chunks' \in Seq(Chunk)
    BY <1>1, SlideAppends
  <2>3. \A i \in DOMAIN chunks' : chunks'[i].to <= call.tokens
    <3> SUFFICES ASSUME NEW i \in 1 .. Len(chunks) + 1
                 PROVE  chunks'[i].to <= call.tokens
      BY <1>1, <2>2, SlideAppends
    <3>1. CASE i = Len(chunks) + 1
      BY <1>1, <3>1, SlideAppends, SliceType
    <3>2. CASE i \in 1 .. Len(chunks)
      BY <1>1, <3>2, SlideAppends DEF ChunkTypeOK
    <3> QED
      BY <1>1, <3>1, <3>2, SlideAppends
  <2> QED
    BY <2>1, <2>2, <2>3 DEF ChunkTypeOK
<1>2. CASE Return
  BY <1>2 DEF Return, ChunkTypeOK
<1>3. CASE UNCHANGED vars
  BY <1>3 DEF vars, ChunkTypeOK
<1> QED
  BY <1>1, <1>2, <1>3 DEF Next

\* Every variable keeps its type, and no chunk reaches beyond its text.
THEOREM ChunkTypeCorrect == Spec => []ChunkTypeOK
BY InitChunkType, NextChunkType, PTL DEF Spec

-----------------------------------------------------------------------------
(* The inductive invariant of the loop.                                    *)

EndOf(from) ==
    IF from + call.size < call.tokens THEN from + call.size ELSE call.tokens

\* The number, the first token, the last one and the text of each chunk.
PlacesInv ==
    \A i \in 1 .. Len(chunks) :
        /\ chunks[i].sequence = i - 1
        /\ chunks[i].from < call.tokens
        /\ chunks[i].to = EndOf(chunks[i].from)
        /\ chunks[i].text = Decode(chunks[i].from, chunks[i].to)

\* The window moves on by one step.
StepsInv ==
    /\ \A i \in 1 .. Len(chunks) - 1 :
           chunks[i + 1].from = chunks[i].from + Step
    /\ IF chunks = <<>>
       THEN start = 0 ELSE start = chunks[Len(chunks)].from + Step

\* Where the loop stands.
LoopInv ==
    /\ sequence = Len(chunks)
    /\ start = Len(chunks) * Step
    /\ start < call.tokens + Step
    /\ call.empty => chunks = <<>>
    /\ returned => ~WindowIsLeft

\* What the window has passed is in a chunk.
PassedInv ==
    \A t \in 0 .. call.tokens - 1 :
        t < start => \E i \in 1 .. Len(chunks) :
                         chunks[i].from <= t /\ t < chunks[i].to

ChunkInv == PlacesInv /\ StepsInv /\ LoopInv /\ PassedInv

LEMMA InitChunks == Init => ChunkInv
<1> SUFFICES ASSUME Init PROVE ChunkInv
  OBVIOUS
<1>1. /\ start = 0 /\ sequence = 0 /\ ~returned
      /\ chunks = <<>> /\ Len(chunks) = 0
  BY DEF Init
<1>2. PlacesInv /\ StepsInv
  BY <1>1 DEF PlacesInv, StepsInv
<1>3. LoopInv
  BY <1>1, InitChunkType, StepType DEF LoopInv
<1>4. PassedInv
  BY <1>1 DEF PassedInv
<1> QED
  BY <1>2, <1>3, <1>4 DEF ChunkInv

LEMMA SlideKeepsChunks ==
    ASSUME ChunkTypeOK, ChunkInv, Slide
    PROVE  ChunkInv'
<1> DEFINE n == Len(chunks)
<1>1. /\ n \in Nat /\ Len(chunks') = n + 1 /\ chunks' # <<>>
      /\ \A i \in 1 .. n : chunks'[i] = chunks[i]
      /\ chunks'[n + 1].sequence = sequence
      /\ chunks'[n + 1].from = start
      /\ chunks'[n + 1].to = SliceEnd
      /\ chunks'[n + 1].text = Decode(start, SliceEnd)
  BY SlideAppends
<1>2. /\ call' = call /\ start' = start + Step /\ sequence' = sequence + 1
      /\ Step' = Step /\ returned' = returned /\ ~returned
      /\ start < call.tokens /\ ~call.empty
      /\ \A from : EndOf(from)' = EndOf(from)
      /\ \A from, to : Decode(from, to)' = Decode(from, to)
  BY DEF Slide, NextSequence, WindowIsLeft, Step, EndOf, Decode
<1>3. /\ Step \in Nat /\ Step > 0 /\ Step <= call.size
      /\ call.tokens \in Nat /\ call.size \in Nat /\ start \in Nat
  BY StepType DEF ChunkTypeOK
<1>4. sequence = n /\ start = n * Step
  BY DEF ChunkInv, LoopInv
<1> HIDE DEF n
<1>5. PlacesInv'
  <2> SUFFICES ASSUME NEW i \in 1 .. n + 1
               PROVE  /\ chunks'[i].sequence = i - 1
                      /\ chunks'[i].from < call.tokens
                      /\ chunks'[i].to = EndOf(chunks'[i].from)
                      /\ chunks'[i].text = Decode(chunks'[i].from, chunks'[i].to)
    BY <1>1, <1>2 DEF PlacesInv
  <2>1. CASE i = n + 1
    BY <1>1, <1>2, <1>4, <2>1 DEF SliceEnd, EndOf
  <2>2. CASE i \in 1 .. n
    BY <1>1, <2>2 DEF ChunkInv, PlacesInv, n
  <2> QED
    BY <1>1, <2>1, <2>2
<1>6. StepsInv'
  <2>1. ASSUME NEW i \in 1 .. n
        PROVE  chunks'[i + 1].from = chunks'[i].from + Step
    <3>1. CASE i = n
      <4>1. chunks # <<>>
        BY <1>1, <3>1 DEF n
      <4>2. start = chunks[n].from + Step
        BY <4>1 DEF ChunkInv, StepsInv, n
      <4> QED
        BY <1>1, <2>1, <3>1, <4>2
    <3>2. CASE i \in 1 .. n - 1
      <4>1. chunks[i + 1].from = chunks[i].from + Step
        BY <3>2 DEF ChunkInv, StepsInv, n
      <4> QED
        BY <1>1, <3>2, <4>1
    <3> QED
      BY <1>1, <2>1, <3>1, <3>2
  <2> QED
    BY <1>1, <1>2, <2>1 DEF StepsInv
<1>7. LoopInv'
  <2>1. start' = (n + 1) * Step
    BY <1>1, <1>2, <1>3, <1>4
  <2>2. start' < call.tokens + Step
    BY <1>2, <1>3
  <2> QED
    BY <1>1, <1>2, <1>4, <2>1, <2>2 DEF LoopInv
<1>8. PassedInv'
  <2> SUFFICES ASSUME NEW t \in 0 .. call.tokens - 1, t < start + Step
               PROVE  \E i \in 1 .. n + 1 :
                          chunks'[i].from <= t /\ t < chunks'[i].to
    BY <1>1, <1>2 DEF PassedInv
  <2>1. CASE t < start
    <3>1. PICK i \in 1 .. n : chunks[i].from <= t /\ t < chunks[i].to
      BY <2>1 DEF ChunkInv, PassedInv, n
    <3> QED
      BY <1>1, <3>1
  <2>2. CASE start <= t
    <3>1. t < SliceEnd
      BY <1>3 DEF SliceEnd
    <3> QED
      BY <1>1, <2>2, <3>1
  <2> QED
    BY <1>3, <2>1, <2>2
<1> QED
  BY <1>5, <1>6, <1>7, <1>8 DEF ChunkInv

LEMMA OthersKeepChunks ==
    ASSUME ChunkInv, UNCHANGED <<call, start, sequence, chunks>>,
           returned' => ~WindowIsLeft
    PROVE  ChunkInv'
BY DEF ChunkInv, PlacesInv, StepsInv, LoopInv, PassedInv, EndOf, Decode, Step,
       WindowIsLeft

LEMMA NextChunks == ChunkTypeOK /\ ChunkInv /\ [Next]_vars => ChunkInv'
<1> SUFFICES ASSUME ChunkTypeOK, ChunkInv, [Next]_vars PROVE ChunkInv'
  OBVIOUS
<1>1. CASE Slide
  BY <1>1, SlideKeepsChunks
<1>2. CASE Return
  BY <1>2, OthersKeepChunks DEF Return
<1>3. CASE UNCHANGED vars
  BY <1>3, OthersKeepChunks DEF vars, ChunkInv, LoopInv
<1> QED
  BY <1>1, <1>2, <1>3 DEF Next

LEMMA ChunkInvariant == Spec => []ChunkInv
BY InitChunks, NextChunks, ChunkTypeCorrect, PTL DEF Spec

-----------------------------------------------------------------------------
(* What follows from it.                                                   *)

\* Every token that decode shows is in the text of a chunk that keeps its place
\* in the index, for every length, window and overlap below it.
THEOREM EveryTokenIsIndexed == Spec => []TextIsIndexed
<1>1. ASSUME ChunkTypeOK, ChunkInv PROVE TextIsIndexed
  <2> SUFFICES ASSUME returned, ~call.empty, NEW t \in 0 .. call.tokens - 1,
                      t \notin call.silent
               PROVE  \E i \in DOMAIN chunks : Kept(i) /\ t \in chunks[i].text
    BY DEF TextIsIndexed
  <2>1. Len(chunks) \in Nat /\ DOMAIN chunks = 1 .. Len(chunks)
    BY <1>1 DEF ChunkTypeOK
  <2>2. t < start
    BY <1>1, StepType DEF ChunkTypeOK, ChunkInv, LoopInv, WindowIsLeft
  <2>3. PICK i \in 1 .. Len(chunks) : chunks[i].from <= t /\ t < chunks[i].to
    BY <1>1, <2>2 DEF ChunkInv, PassedInv
  <2>4. Kept(i)
    BY <1>1, <2>1 DEF Kept, ChunkInv, PlacesInv
  <2>5. chunks[i] \in Chunk
    BY <1>1 DEF ChunkTypeOK
  <2>6. t \in Decode(chunks[i].from, chunks[i].to)
    BY <2>3, <2>5 DEF Chunk, Decode
  <2>7. chunks[i].text = Decode(chunks[i].from, chunks[i].to)
    BY <1>1 DEF ChunkInv, PlacesInv
  <2> QED
    BY <2>1, <2>4, <2>6, <2>7
<1> QED
  BY <1>1, ChunkTypeCorrect, ChunkInvariant, PTL

\* Neighbouring chunks share exactly the overlap, or what is left of the text.
THEOREM ChunksOverlap == Spec => []NeighboursOverlap
<1>1. ASSUME ChunkTypeOK, ChunkInv PROVE NeighboursOverlap
  <2> SUFFICES ASSUME NEW i \in 1 .. Len(chunks) - 1
               PROVE  LET shared == chunks[i].to - chunks[i + 1].from
                          left == call.tokens - chunks[i + 1].from
                      IN  /\ shared = IF left < call.overlap
                                      THEN left ELSE call.overlap
                          /\ left > 0
    BY DEF NeighboursOverlap
  <2>1. /\ i \in 1 .. Len(chunks) /\ i + 1 \in 1 .. Len(chunks)
        /\ chunks[i] \in Chunk /\ chunks[i + 1] \in Chunk
    BY <1>1 DEF ChunkTypeOK
  <2>2. /\ chunks[i].to = EndOf(chunks[i].from)
        /\ chunks[i + 1].from < call.tokens
        /\ chunks[i + 1].from = chunks[i].from + Step
    BY <1>1, <2>1 DEF ChunkInv, PlacesInv, StepsInv
  <2>3. chunks[i].from \in Nat /\ chunks[i + 1].from \in Nat
    BY <2>1 DEF Chunk
  <2>4. /\ call.tokens \in Nat /\ call.size \in Nat /\ call.overlap \in Nat
        /\ Step = call.size - call.overlap
    BY <1>1, StepType DEF Step
  <2>5. chunks[i].to - chunks[i + 1].from =
            IF call.tokens - chunks[i + 1].from < call.overlap
            THEN call.tokens - chunks[i + 1].from ELSE call.overlap
    <3>1. CASE chunks[i].from + call.size < call.tokens
      <4>1. chunks[i].to - chunks[i + 1].from = call.overlap
        BY <2>2, <2>3, <2>4, <3>1 DEF EndOf
      <4>2. ~(call.tokens - chunks[i + 1].from < call.overlap)
        BY <2>2, <2>3, <2>4, <3>1
      <4> QED
        BY <4>1, <4>2
    <3>2. CASE ~(chunks[i].from + call.size < call.tokens)
      <4>1. chunks[i].to = call.tokens
        BY <2>2, <3>2 DEF EndOf
      <4>2. \/ call.tokens - chunks[i + 1].from < call.overlap
            \/ call.tokens - chunks[i + 1].from = call.overlap
        <5>1. call.tokens <= chunks[i].from + call.size
          BY <2>3, <2>4, <3>2
        <5>2. chunks[i + 1].from + call.overlap = chunks[i].from + call.size
          BY <2>2, <2>3, <2>4
        <5>3. call.tokens <= chunks[i + 1].from + call.overlap
          BY <5>1, <5>2
        <5> QED
          BY <2>3, <2>4, <5>3
      <4> QED
        BY <4>1, <4>2
    <3> QED
      BY <3>1, <3>2
  <2>6. call.tokens - chunks[i + 1].from > 0
    BY <2>2, <2>3, <2>4
  <2> QED
    BY <2>5, <2>6
<1> QED
  BY <1>1, ChunkTypeCorrect, ChunkInvariant, PTL

\* The loop makes as many chunks as steps begin within the text, no more while
\* it runs and no fewer when it has returned, and each of some tokens.
THEOREM ChunksAreCounted == Spec => []CountIsExact
<1>1. ASSUME ChunkTypeOK, ChunkInv PROVE CountIsExact
  <2>1. ASSUME NEW i \in DOMAIN chunks PROVE chunks[i].from < chunks[i].to
    <3>1. i \in 1 .. Len(chunks) /\ chunks[i] \in Chunk
      BY <1>1, <2>1 DEF ChunkTypeOK
    <3>2. /\ chunks[i].from < call.tokens
          /\ chunks[i].to = EndOf(chunks[i].from)
      BY <1>1, <3>1 DEF ChunkInv, PlacesInv
    <3>3. call.size \in Nat /\ call.size > 0 /\ call.tokens \in Nat
      BY <1>1, StepType
    <3> QED
      BY <3>1, <3>2, <3>3 DEF Chunk, EndOf
  <2>2. /\ call.empty => chunks = <<>>
        /\ Len(chunks) * Step < call.tokens + Step
        /\ returned /\ ~call.empty => call.tokens <= Len(chunks) * Step
    BY <1>1, StepType DEF ChunkTypeOK, ChunkInv, LoopInv, WindowIsLeft
  <2> QED
    BY <2>1, <2>2 DEF CountIsExact
<1> QED
  BY <1>1, ChunkTypeCorrect, ChunkInvariant, PTL

=============================================================================
