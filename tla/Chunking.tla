------------------------------ MODULE Chunking ------------------------------
(***************************************************************************)
(* ChunkingService.chunk_text: the loop that cuts a text into overlapping   *)
(* chunks, for any setting of the length of a chunk and of the overlap.     *)
(* What it promises is what stitching relies on (NeighborExpansion).        *)
(***************************************************************************)
EXTENDS WordChunks

CONSTANTS
    Services,     \* the settings DOCUMENT_CHUNK_MAX_WORDS and _OVERLAP_WORDS
    TextLengths   \* the numbers of words of a text

ASSUME ServicesAssumption ==
    Services \subseteq [max_words : Nat \ {0}, overlap_words : Nat]

ASSUME LengthsAssumption == TextLengths \subseteq Nat

VARIABLES
    service,     \* the settings of this service
    num_words,   \* the words of the text
    start,       \* the word the next chunk starts with
    chunks,      \* the chunks so far
    returned     \* chunk_text has returned them

vars == <<service, num_words, start, chunks, returned>>

WordChunk == [word_start : Nat, word_end : Nat]

TypeOK ==
    /\ service \in [max_words : Nat \ {0}, overlap_words : Nat]
    /\ num_words \in Nat
    /\ start \in Nat
    /\ chunks \in Seq(WordChunk)
    /\ returned \in BOOLEAN
----------------------------------------------------------------------------
Init ==
    /\ service \in Services
    /\ num_words \in TextLengths
    /\ start = 0
    /\ chunks = <<>>
    /\ returned = FALSE

\* One iteration, up to the break of the one that reached the end of the text.
AppendChunk ==
    /\ ~ returned
    /\ start < num_words
    /\ chunks' = Append(chunks, Chunk(service, num_words, start))
    /\ IF End(service, num_words, start) >= num_words
       THEN returned' = TRUE /\ UNCHANGED start
       ELSE start' = start + Step(service) /\ UNCHANGED returned
    /\ UNCHANGED <<service, num_words>>

\* The loop's condition fails, at once if the text has no words.
LoopEnds ==
    /\ ~ returned
    /\ start >= num_words
    /\ returned' = TRUE
    /\ UNCHANGED <<service, num_words, start, chunks>>

Stopped == returned /\ UNCHANGED vars

Next == AppendChunk \/ LoopEnds \/ Stopped

Spec == Init /\ [][Next]_vars
----------------------------------------------------------------------------
(* Properties. *)

\* No word is lost between or after the chunks, whatever the settings.
EveryWordChunked ==
    returned => \A w \in 0 .. num_words :
        w < num_words => \E i \in 1 .. Len(chunks) :
            chunks[i].word_start <= w /\ w < chunks[i].word_end

\* Chunks that follow each other can be stitched by their offsets: the later starts
\* within the earlier, does not end before it, and repeats overlap_words of it.
ChunksStitch ==
    \A i \in 1 .. Len(chunks) : i < Len(chunks) =>
        /\ chunks[i].word_start < chunks[i + 1].word_start
        /\ chunks[i + 1].word_start <= chunks[i].word_end
        /\ chunks[i].word_end <= chunks[i + 1].word_end
        /\ service.overlap_words < service.max_words =>
             chunks[i].word_end = chunks[i + 1].word_start + service.overlap_words

\* chunking.py:33 no "tiny straggler chunk": the last chunk adds more words than it
\* repeats, and absorbing a tail makes no chunk longer than that tail.
NoStraggler ==
    \A i \in 1 .. Len(chunks) :
        /\ chunks[i].word_end > chunks[i].word_start
        /\ chunks[i].word_end <=
               chunks[i].word_start + service.max_words + service.overlap_words
        /\ i < Len(chunks) =>
             chunks[i + 1].word_end > chunks[i].word_end
        /\ returned /\ i + 1 = Len(chunks) =>
             chunks[i + 1].word_end > chunks[i].word_end + service.overlap_words

\* The loop makes progress by a word at least, so that even an overlap as long as a
\* chunk cannot make it run on: there are no more chunks than words.
NoMoreChunksThanWords == Len(chunks) <= num_words

\* The loop computes the chunks of the definition without a loop.
ChunksAsDefined == returned => chunks = Chunked(service, num_words)

\* What makes these inductive: every chunk but the last of a finished text is a plain
\* one, and the next starts a step after the last.
Plain(c) ==
    /\ c.word_end = c.word_start + service.max_words
    /\ c.word_end + service.overlap_words < num_words

Covered(w) ==
    \E i \in 1 .. Len(chunks) : chunks[i].word_start <= w /\ w < chunks[i].word_end

Growing ==
    ~ returned =>
        /\ Len(chunks) <= start
        /\ start = 0 \/ start < num_words
        /\ chunks = <<>> => start = 0
        /\ chunks # <<>> => start = chunks[Len(chunks)].word_start + Step(service)
        /\ \A w \in Nat : w < start => Covered(w)

Finished ==
    returned =>
        /\ \A w \in Nat : w < num_words => Covered(w)
        /\ chunks # <<>> =>
             /\ chunks[Len(chunks)].word_end = num_words
             /\ num_words <= chunks[Len(chunks)].word_start
                               + service.max_words + service.overlap_words

ChunkInvariant ==
    /\ TypeOK /\ ChunksStitch /\ Growing /\ Finished
    /\ Len(chunks) <= num_words
    /\ \A i \in 1 .. Len(chunks) :
         /\ chunks[i].word_start < num_words
         /\ ~ returned \/ i < Len(chunks) => Plain(chunks[i])
=============================================================================
