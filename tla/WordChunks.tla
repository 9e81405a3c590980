----------------------------- MODULE WordChunks -----------------------------
(***************************************************************************)
(* The arithmetic of documents/processing/chunking.py: where a chunk of a   *)
(* text of words 0 .. num_words - 1 starts and ends.  The content of a chunk *)
(* is its words, so that a chunk is given by its word_start and word_end,    *)
(* and its chunk_index by its place in the list.                             *)
(***************************************************************************)
EXTENDS Naturals, Sequences

\* The overlap is a setting of its own and may be as long as a chunk.
Step(service) ==
    IF service.max_words > service.overlap_words
    THEN service.max_words - service.overlap_words ELSE 1

EndTooEarly(service, num_words, start) ==   \* mutant: a longer tail is absorbed
    IF start + service.max_words + service.overlap_words + 1 >= num_words
    THEN num_words ELSE start + service.max_words

\* A tail of at most overlap_words is absorbed by the chunk before it.
End(service, num_words, start) ==
    IF start + service.max_words + service.overlap_words >= num_words
    THEN num_words ELSE start + service.max_words

Chunk(service, num_words, start) ==
    [word_start |-> start, word_end |-> End(service, num_words, start)]

\* What the loop amounts to: chunks a step apart, up to the first that reaches the
\* end of the text.
Chunked(service, num_words) ==
    IF num_words = 0 THEN <<>>
    ELSE LET Reaches(i) == i * Step(service) + service.max_words + service.overlap_words
                               >= num_words
             last == CHOOSE i \in 0 .. num_words :
                        Reaches(i) /\ \A j \in 0 .. num_words : j < i => ~ Reaches(j)
         IN  [i \in 1 .. last + 1 |-> Chunk(service, num_words, (i - 1) * Step(service))]
=============================================================================
