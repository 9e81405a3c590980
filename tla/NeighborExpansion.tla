------------------------- MODULE NeighborExpansion --------------------------
(***************************************************************************)
(* NeighborExpander.expand (materials/generation/expansion.py): every chunk *)
(* that a search found gets the chunks around it that no better one has,    *)
(* and the pieces are stitched by the offsets chunking left in them.  The   *)
(* chunks are read twice, so that a document may be processed again, or     *)
(* deleted, between the queries.                                            *)
(*                                                                         *)
(* A primary key is a number.  The content of a chunk is the set of its     *)
(* words, and a word is its position in a block of text; the program knows  *)
(* the offsets of a chunk and not its block.  A passage is the set of its   *)
(* paragraphs, and a paragraph the set of its words.                        *)
(***************************************************************************)
EXTENDS ChunkTable, FiniteSets

CONSTANTS
    Corpora,        \* what the table of chunks may hold: sequences of chunks by pk
    NonExpanding,   \* NON_EXPANDING_CHUNK_TYPES
    Window,         \* MATERIAL_NEIGHBOR_WINDOW
    TopK            \* MATERIAL_RETRIEVAL_TOP_K

\* word_start and word_end tell the content of a chunk; has_offsets, if its metadata
\* tells them too (not that of captions and of chunks of older versions).
DocumentChunk ==
    [document : Nat, chunk_type : STRING, block : Nat, chunk_index : Nat,
     word_start : Nat, word_end : Nat, has_offsets : BOOLEAN]

ASSUME CorporaAssumption == \A c \in Corpora : c \in Seq(DocumentChunk)

\* The rows are those chunking writes (SavedIsWellCut of DocumentPayloads).
ASSUME CutAssumption == \A c \in Corpora : WellCut(c)

ASSUME WindowAssumption == Window \in Nat /\ TopK \in Nat

VARIABLES
    chunk,       \* the chunks, by primary key
    live,        \* the keys still in the table
    seeds,       \* the keys of the chunks found, best first
    step,        \* what expand does next
    rank,        \* the next seed to assign neighbours to
    listed,      \* the keys _ordered_ids returned
    claimed,     \* the keys of seeds and of neighbours assigned
    assignment,  \* the neighbours of each seed
    passage      \* the passage of each seed; none if its content stands alone

vars == <<chunk, live, seeds, step, rank, listed, claimed, assignment, passage>>

Keys == DOMAIN chunk

SeedKeys == {seeds[i] : i \in 1 .. Len(seeds)}

TypeOK ==
    /\ chunk \in Corpora
    /\ live \subseteq Keys
    /\ seeds \in Seq(Keys)
    /\ step \in {"list", "assign", "load", "done"}
    /\ rank \in 1 .. Len(seeds) + 1
    /\ listed \subseteq Keys
    /\ claimed \subseteq Keys
    /\ assignment \in [SeedKeys -> SUBSET Keys]
    /\ DOMAIN passage = SeedKeys
----------------------------------------------------------------------------
(* stitch *)

Content(p) ==
    {<<chunk[p].block, w>> : w \in {w \in 0 .. chunk[p].word_end :
                                      chunk[p].word_start <= w /\ w < chunk[p].word_end}}

\* _same_block
SameBlockByRange(q, p) ==   \* mutant: the index is not looked at
    /\ chunk[q].has_offsets /\ chunk[p].has_offsets
    /\ chunk[q].word_start <= chunk[p].word_start
    /\ chunk[p].word_start <= chunk[q].word_end

SameBlock(q, p) ==
    /\ chunk[q].has_offsets /\ chunk[p].has_offsets
    /\ chunk[p].chunk_index = chunk[q].chunk_index + 1
    /\ chunk[q].word_start <= chunk[p].word_start
    /\ chunk[p].word_start <= chunk[q].word_end

\* The piece before p.
Before(q, p, pieces) == q \in pieces /\ q < p /\ \A r \in pieces : ~ (q < r /\ r < p)

\* p goes on with the paragraph of q: its first words, the overlap, are left out.
Continues(q, p, pieces) ==
    /\ Before(q, p, pieces)
    /\ SameBlock(q, p)
    /\ chunk[q].word_end <= chunk[p].word_end

StartsParagraph(p, pieces) == ~ \E q \in pieces : Continues(q, p, pieces)

Part(p, pieces) ==
    {word \in Content(p) :
        \A q \in pieces : Continues(q, p, pieces) => word[2] >= chunk[q].word_end}

Paragraph(p, pieces) ==
    UNION {Part(q, pieces) :
              q \in {q \in pieces : /\ p <= q
                                    /\ \A r \in pieces :
                                         p < r /\ r <= q => ~ StartsParagraph(r, pieces)}}

Stitch(pieces) ==
    {Paragraph(p, pieces) : p \in {p \in pieces : StartsParagraph(p, pieces)}}
----------------------------------------------------------------------------
(* expand *)

SameKey(p, q) ==
    chunk[p].document = chunk[q].document /\ chunk[p].chunk_type = chunk[q].chunk_type

Init ==
    /\ chunk \in Corpora
    /\ live = Keys
    /\ seeds \in UNION {[1 .. n -> Keys] : n \in 0 .. TopK}
    /\ \A i, j \in 1 .. Len(seeds) : seeds[i] = seeds[j] => i = j
    /\ step = "list"
    /\ rank = 1
    /\ listed = {}
    /\ claimed = {}
    /\ assignment = [s \in SeedKeys |-> {}]
    /\ passage = [s \in SeedKeys |-> {}]

\* The chunks of a document are replaced, or cascade, in one transaction.
DocumentVanishes(document) ==
    /\ step # "done"
    /\ live' = {p \in live : chunk[p].document # document}
    /\ UNCHANGED <<chunk, seeds, step, rank, listed, claimed, assignment, passage>>

\* The early return, or _ordered_ids, the first query.
OrderedIds ==
    /\ step = "list"
    /\ IF Window = 0 \/ seeds = <<>>
       THEN step' = "done" /\ UNCHANGED <<listed, claimed>>
       ELSE /\ step' = "assign"
            /\ listed' = {p \in live : \E s \in SeedKeys :
                             SameKey(p, s) /\ chunk[s].chunk_type \notin NonExpanding}
            /\ claimed' = SeedKeys
    /\ UNCHANGED <<chunk, live, seeds, rank, assignment, passage>>

\* The keys within the window of a seed: at most Window steps along the listed ones.
WantedShort(s) ==   \* mutant: the slice after the seed ends one too early
    {p \in listed \ {s} :
        /\ SameKey(p, s)
        /\ Cardinality({q \in listed : /\ SameKey(q, s)
                                       /\ (p <= q /\ q < s) \/ (s <= q /\ q <= p)}) <= Window}

Wanted(s) ==
    {p \in listed \ {s} :
        /\ SameKey(p, s)
        /\ Cardinality({q \in listed : /\ SameKey(q, s)
                                       /\ (p <= q /\ q < s) \/ (s < q /\ q <= p)}) <= Window}

AssignUnclaimed ==   \* mutant: what a seed takes is not claimed
    /\ step = "assign"
    /\ rank <= Len(seeds)
    /\ LET s == seeds[rank]
           fresh == IF s \in listed THEN Wanted(s) \ claimed ELSE {}
       IN  assignment' = [assignment EXCEPT ![s] = fresh]
    /\ rank' = rank + 1
    /\ UNCHANGED <<chunk, live, seeds, step, listed, claimed, passage>>

AssignFromWorst ==   \* mutant: the seeds are not taken in rank order
    /\ step = "assign"
    /\ rank <= Len(seeds)
    /\ LET s == seeds[Len(seeds) + 1 - rank]
           fresh == IF s \in listed THEN Wanted(s) \ claimed ELSE {}
       IN  /\ assignment' = [assignment EXCEPT ![s] = fresh]
           /\ claimed' = claimed \cup fresh
    /\ rank' = rank + 1
    /\ UNCHANGED <<chunk, live, seeds, step, listed, passage>>

\* One seed takes the wanted keys no seed before it has, and no seed itself.
Assign ==
    /\ step = "assign"
    /\ rank <= Len(seeds)
    /\ LET s == seeds[rank]
           fresh == IF s \in listed THEN Wanted(s) \ claimed ELSE {}
       IN  /\ assignment' = [assignment EXCEPT ![s] = fresh]
           /\ claimed' = claimed \cup fresh
    /\ rank' = rank + 1
    /\ UNCHANGED <<chunk, live, seeds, step, listed, passage>>

AllAssigned ==
    /\ step = "assign"
    /\ rank > Len(seeds)
    /\ step' = IF \A s \in SeedKeys : assignment[s] = {} THEN "done" ELSE "load"
    /\ UNCHANGED <<chunk, live, seeds, rank, listed, claimed, assignment, passage>>

\* in_bulk, the second query: what is gone by then is left out.
StitchAll ==
    /\ step = "load"
    /\ passage' =
         [s \in SeedKeys |->
            LET survivors == assignment[s] \cap live
            IN  IF survivors = {} THEN {} ELSE Stitch({s} \cup survivors)]
    /\ step' = "done"
    /\ UNCHANGED <<chunk, live, seeds, rank, listed, claimed, assignment>>

Next ==
    \/ \E p \in Keys : DocumentVanishes(chunk[p].document)
    \/ OrderedIds \/ Assign \/ AllAssigned \/ StitchAll

Spec == Init /\ [][Next]_vars
----------------------------------------------------------------------------
(* Properties. *)

\* No chunk is put before the model twice: the neighbours of a seed are no seeds and
\* no other seed's neighbours.
ClaimedOnce ==
    /\ \A s \in SeedKeys : assignment[s] \cap SeedKeys = {}
    /\ \A s, t \in SeedKeys : s # t => assignment[s] \cap assignment[t] = {}

\* A chunk near several seeds goes to the best of them, and every chunk near a seed is
\* before the model in the end, unless its document went away.
RankWins ==
    \A i \in 1 .. Len(seeds) : i < rank =>
        /\ seeds[i] \in listed =>
             \A p \in Wanted(seeds[i]) \ SeedKeys :
                \E j \in 1 .. i : p \in assignment[seeds[j]]
        /\ assignment[seeds[i]] \subseteq
              {p \in listed : SameKey(p, seeds[i]) /\ p \in Wanted(seeds[i])}

\* expansion.py:3 "Adjacent chunks from the same chunking block are stitched exactly
\* [...]. Everything else [...] is joined with a paragraph break": a passage has every
\* word of its pieces, a paragraph is an uninterrupted part of one block, and pieces
\* that follow each other in a block are in one paragraph.
Uninterrupted(words) ==
    \E u \in words : words = {<<u[1], u[2] + n>> : n \in 0 .. Cardinality(words) - 1}

PassageIsExact ==
    \A s \in SeedKeys :
        passage[s] # {} =>
            LET pieces == {s} \cup assignment[s]
            IN  /\ UNION passage[s] = UNION {Content(p) : p \in pieces}
                /\ \A paragraph \in passage[s] : Uninterrupted(paragraph)
                /\ \A p, q \in pieces :
                     /\ chunk[p].block = chunk[q].block
                     /\ chunk[p].has_offsets /\ chunk[q].has_offsets
                     /\ chunk[q].chunk_index = chunk[p].chunk_index + 1
                     => \E paragraph \in passage[s] :
                            Content(p) \cup Content(q) \subseteq paragraph

\* The paragraphs the model reads for a seed: its passage, or its own content.
Read(s) == IF passage[s] = {} THEN {Content(s)} ELSE passage[s]

\* expansion.py:1 "Small-to-big neighbor expansion for retrieved chunks": the chunks
\* before and after one that was found are before the model, whole, though perhaps with
\* another seed; unless a document went away.
NeighborsAreRead ==
    step = "done" /\ live = Keys =>
        \A s \in SeedKeys, p \in Keys :
            /\ chunk[s].chunk_type \notin NonExpanding
            /\ Follows(chunk, s, p) \/ Follows(chunk, p, s)
            => \E t \in SeedKeys : \E paragraph \in Read(t) : Content(p) \subseteq paragraph

\* What makes the first two inductive: claimed is what is assigned, and nothing is
\* assigned ahead of rank.
SeedsDistinct == \A i, j \in 1 .. Len(seeds) : seeds[i] = seeds[j] => i = j

ClaimedIsAssigned ==
    step \in {"assign", "load"} =>
        claimed = SeedKeys \cup UNION {assignment[s] : s \in SeedKeys}

NothingAhead ==
    /\ step = "list" => rank = 1
    /\ \A i \in 1 .. Len(seeds) : i >= rank => assignment[seeds[i]] = {}

ExpansionInvariant ==
    /\ TypeOK /\ SeedsDistinct /\ ClaimedIsAssigned /\ NothingAhead
    /\ ClaimedOnce /\ RankWins
=============================================================================
