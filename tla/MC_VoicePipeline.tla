-------------------------- MODULE MC_VoicePipeline --------------------------
EXTENDS VoicePipeline, Endpointer

MaxFrames == 8

\* Every audio of MaxFrames frames at most, cut into at most three chunks, some of them
\* without a whole frame.
Audios == UNION {[1..n -> BOOLEAN] : n \in 0..MaxFrames}

Cuts(n) == {c \in SUBSET (0..n) : n \in c /\ Cardinality(c) <= 3}

ChunksOf(audio, ends) ==
    LET At(k) == CHOOSE e \in ends : Cardinality({f \in ends : f < e}) = k - 1
    IN  [k \in 1..Cardinality(ends) |->
           SubSeq(audio, IF k = 1 THEN 1 ELSE At(k - 1) + 1, At(k))]

ASSUME EndpointerCuts ==
    \A audio \in Audios : \A ends \in Cuts(Len(audio)) :
       LET chunks == ChunksOf(audio, ends)
       IN  /\ CutsTheAudio(chunks)
           /\ Reports(Fed(Front(chunks)), Last(chunks))
=============================================================================
