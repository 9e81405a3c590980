-------------------------- MODULE DocumentPayloads --------------------------
(***************************************************************************)
(* What the document pipeline makes of a PDF: the blocks that extraction     *)
(* finds are chunked one after the other (Chunking is the loop within one    *)
(* block), captions follow, the contents are embedded batch by batch, and    *)
(* every payload is saved with its embedding.  DocumentIngestion has the     *)
(* jobs, rows and failures around this.                                      *)
(*                                                                         *)
(* PyMuPDF and pdfplumber (external) find the blocks; a block is given by    *)
(* its place and its number of words, none if extraction makes nothing of    *)
(* it: a blank page, an empty table, an image that cannot be extracted.  An  *)
(* embedding is the payload it was made from.                                *)
(***************************************************************************)
EXTENDS Chunking, ChunkTable, FiniteSets

CONSTANTS
    Documents,  \* the blocks of each PDF: pages, then tables, then images
    BatchSize   \* EMBEDDING_BATCH_SIZE

ChunkType == {"text", "table", "image_caption"}

\* nth tells the tables and the images of a page apart.
Block == [chunk_type : ChunkType, page : Nat, nth : Nat, words : Nat]

ASSUME DocumentAssumption == \A d \in Documents : d \in Seq(Block)

Place(b) == <<b.chunk_type, b.page, b.nth>>

\* Pages, and the tables and images of a page, are numbered by enumerate.
ASSUME PlaceAssumption ==
    \A d \in Documents : \A i, j \in 1 .. Len(d) : Place(d[i]) = Place(d[j]) => i = j

ASSUME BatchAssumption == BatchSize \in Nat \ {0}

VARIABLES
    phase,     \* the step of process
    document,  \* the blocks of this PDF
    blocks,    \* the blocks still to go, the first of which is being chunked
    payloads,  \* the payloads so far
    asked,     \* how many of them have been given to the embedding model
    vectors,   \* the embeddings it returned
    saved      \* the chunks that are saved

payloadVars == <<phase, document, blocks, payloads, asked, vectors, saved>>

allVars == <<vars, payloadVars>>

Payload ==
    [chunk_type : ChunkType, page : Nat, nth : Nat, chunk_index : Nat,
     word_start : Nat, word_end : Nat]

PayloadTypeOK ==
    /\ phase \in {"extract", "build", "embed", "save", "finish", "processed", "failed"}
    /\ document \in Documents
    /\ blocks \in Seq(Block)
    /\ payloads \in Seq(Payload)
    /\ asked \in Nat
    /\ vectors \in Seq(Payload)
    /\ saved \in Seq([payload : Payload, embedding : Payload])
----------------------------------------------------------------------------
\* The chunker has returned the chunks of nothing.
PayloadInit ==
    /\ service \in Services
    /\ num_words = 0 /\ start = 0 /\ chunks = <<>> /\ returned = TRUE
    /\ phase = "extract"
    /\ document \in Documents /\ blocks = document
    /\ payloads = <<>> /\ asked = 0 /\ vectors = <<>> /\ saved = <<>>

Extract ==
    /\ phase = "extract"
    /\ phase' = "build"
    /\ UNCHANGED <<vars, document, blocks, payloads, asked, vectors, saved>>

\* Storage, the PDF libraries, the embedding model (no embeddings for a batch, or of
\* another dimension) and the database may raise.
Raise ==
    /\ phase \in {"extract", "embed", "save", "finish"}
    /\ phase' = "failed"
    /\ UNCHANGED <<vars, document, blocks, payloads, asked, vectors, saved>>
----------------------------------------------------------------------------
(* _build_payloads *)

Idle == phase = "build" /\ returned /\ chunks = <<>>

SkipBlank ==
    /\ Idle /\ blocks # <<>> /\ Head(blocks).words = 0
    /\ blocks' = Tail(blocks)
    /\ UNCHANGED <<vars, phase, document, payloads, asked, vectors, saved>>

\* chunk_text is called for the next page or table.
TakeBlock ==
    /\ Idle /\ blocks # <<>>
    /\ Head(blocks).words > 0 /\ Head(blocks).chunk_type # "image_caption"
    /\ num_words' = Head(blocks).words
    /\ start' = 0 /\ chunks' = <<>> /\ returned' = FALSE
    /\ UNCHANGED <<service, payloadVars>>

\* The loop; a text with words never ends by the loop's condition.
CutBlock == phase = "build" /\ AppendChunk /\ UNCHANGED payloadVars

PayloadsNumberedOn(b, cs) ==   \* mutant: chunk_index goes on from block to block
    [i \in 1 .. Len(cs) |->
        [chunk_type |-> b.chunk_type, page |-> b.page, nth |-> b.nth,
         chunk_index |-> Len(payloads) + i - 1,
         word_start |-> cs[i].word_start, word_end |-> cs[i].word_end]]

PayloadsOf(b, cs) ==
    [i \in 1 .. Len(cs) |->
        [chunk_type |-> b.chunk_type, page |-> b.page, nth |-> b.nth,
         chunk_index |-> i - 1,
         word_start |-> cs[i].word_start, word_end |-> cs[i].word_end]]

CollectFirst ==   \* mutant: of a table only the first chunk
    /\ phase = "build" /\ returned /\ chunks # <<>>
    /\ payloads' = payloads \o PayloadsOf(Head(blocks),
            IF Head(blocks).chunk_type = "table" THEN <<chunks[1]>> ELSE chunks)
    /\ blocks' = Tail(blocks)
    /\ num_words' = 0 /\ start' = 0 /\ chunks' = <<>>
    /\ UNCHANGED <<service, returned, phase, document, asked, vectors, saved>>

\* _text_payloads and _table_payloads: a payload for every chunk returned.
Collect ==
    /\ phase = "build" /\ returned /\ chunks # <<>>
    /\ payloads' = payloads \o PayloadsOf(Head(blocks), chunks)
    /\ blocks' = Tail(blocks)
    /\ num_words' = 0 /\ start' = 0 /\ chunks' = <<>>
    /\ UNCHANGED <<service, returned, phase, document, asked, vectors, saved>>

Captions == {i \in 1 .. Len(payloads) : payloads[i].chunk_type = "image_caption"}

\* _image_payloads: a caption has no offsets, and the images are numbered through.
Caption ==
    /\ Idle /\ blocks # <<>>
    /\ Head(blocks).words > 0 /\ Head(blocks).chunk_type = "image_caption"
    /\ payloads' = Append(payloads,
            [chunk_type |-> "image_caption", page |-> Head(blocks).page,
             nth |-> Head(blocks).nth, chunk_index |-> Cardinality(Captions),
             word_start |-> 0, word_end |-> 0])
    /\ blocks' = Tail(blocks)
    /\ UNCHANGED <<vars, phase, document, asked, vectors, saved>>

\* "No extractable content found in PDF."
Build ==
    /\ Idle /\ blocks = <<>>
    /\ phase' = IF payloads = <<>> THEN "failed" ELSE "embed"
    /\ UNCHANGED <<vars, document, blocks, payloads, asked, vectors, saved>>
----------------------------------------------------------------------------
(* _embed, _save_chunks, _summarize and _finish *)

BatchEnd == IF asked + BatchSize < Len(payloads) THEN asked + BatchSize ELSE Len(payloads)

EmbedBatchAhead ==   \* mutant: a later batch is put before an earlier one
    /\ phase = "embed" /\ asked < Len(payloads)
    /\ \E n \in asked + 1 .. BatchEnd :
            vectors' = SubSeq(payloads, asked + 1, n) \o vectors
    /\ asked' = BatchEnd
    /\ UNCHANGED <<vars, phase, document, blocks, payloads, saved>>

\* The model may return fewer embeddings than it was given texts.
EmbedBatch ==
    /\ phase = "embed" /\ asked < Len(payloads)
    /\ \E n \in asked + 1 .. BatchEnd :
            vectors' = vectors \o SubSeq(payloads, asked + 1, n)
    /\ asked' = BatchEnd
    /\ UNCHANGED <<vars, phase, document, blocks, payloads, saved>>

Embed ==
    /\ phase = "embed" /\ asked = Len(payloads)
    /\ phase' = IF Len(vectors) = Len(payloads) THEN "save" ELSE "failed"
    /\ UNCHANGED <<vars, document, blocks, payloads, asked, vectors, saved>>

\* zip of payloads and embeddings, in one transaction.
SaveChunks ==
    /\ phase = "save"
    /\ saved' = [i \in 1 .. Len(payloads) |->
                    [payload |-> payloads[i], embedding |-> vectors[i]]]
    /\ phase' = "finish"
    /\ UNCHANGED <<vars, document, blocks, payloads, asked, vectors>>

\* A summary is made if that works; no failure of it is one of the document.
Finish ==
    /\ phase = "finish"
    /\ phase' = "processed"
    /\ UNCHANGED <<vars, document, blocks, payloads, asked, vectors, saved>>

Ended == phase \in {"processed", "failed"} /\ UNCHANGED allVars

PayloadNext ==
    \/ Extract \/ Raise
    \/ SkipBlank \/ TakeBlock \/ CutBlock \/ Collect \/ Caption \/ Build
    \/ EmbedBatch \/ Embed \/ SaveChunks \/ Finish \/ Ended

PayloadSpec == PayloadInit /\ [][PayloadNext]_allVars
----------------------------------------------------------------------------
(* Properties. *)

\* pipeline.py:213: every chunk is saved with the embedding of its own content: a
\* batch that came back short never shifts the embeddings of the batches after it.
EmbeddingsAreTheirOwn ==
    \A i \in 1 .. Len(saved) : saved[i].embedding = saved[i].payload

\* A document that is processed can be found by any of its words, in the right place:
\* each is in a saved chunk of its own block, over all blocks, chunks and batches.
EveryBlockSaved ==
    phase = "processed" =>
        \A k \in 1 .. Len(document) : \A w \in 0 .. document[k].words :
            w < document[k].words =>
                \E i \in 1 .. Len(saved) :
                    LET p == saved[i].payload
                    IN  /\ Place(p) = Place(document[k])
                        /\ p.chunk_type = "image_caption"
                             \/ (p.word_start <= w /\ w < p.word_end)

\* expansion.py:18 _same_block: chunks of different blocks never look like neighbours
\* of one, although a page's or table's number is not looked at.
IndexesTellBlocks ==
    \A i \in 1 .. Len(payloads) : i < Len(payloads) =>
        LET p == payloads[i]   q == payloads[i + 1]
        IN  /\ p.chunk_type = q.chunk_type /\ p.chunk_type # "image_caption"
            /\ q.chunk_index = p.chunk_index + 1
            /\ p.word_start <= q.word_start /\ q.word_start <= p.word_end
            => p.page = q.page /\ p.nth = q.nth

\* The row of a payload as NeighborExpansion reads it.  The words of a caption have no
\* offsets and are not cut: one stands for them.
RowOf(p) ==
    LET caption == p.chunk_type = "image_caption"
    IN  [document |-> 1, chunk_type |-> p.chunk_type, block |-> Place(p),
         chunk_index |-> p.chunk_index, word_start |-> p.word_start,
         word_end |-> IF caption THEN 1 ELSE p.word_end, has_offsets |-> ~ caption]

SavedTable == [i \in 1 .. Len(saved) |-> RowOf(saved[i].payload)]

\* expansion.py:18 _same_block looks at indexes and offsets only, pipeline.py writes
\* them: over all pages, tables and images of a document, chunks that look like parts
\* of one block that follow each other are, and those that are look like it.
SavedIsWellCut == WellCut(SavedTable)
=============================================================================
