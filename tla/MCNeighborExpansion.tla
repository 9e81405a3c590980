------------------------ MODULE MCNeighborExpansion -------------------------
(* NeighborExpansion on the golden dataset and on the chunks of small documents, *)
(* for TLC: those chunking makes of their blocks, with chunks of three words and  *)
(* an overlap of one.                                                             *)
EXTENDS GoldenDataset

MCService == [max_words |-> 3, overlap_words |-> 1]

Block(document, chunk_type, words, has_offsets) ==
    [document |-> document, chunk_type |-> chunk_type, words |-> words,
     has_offsets |-> has_offsets]

Corpus(blocks) ==
    FlattenSeq([k \in 1 .. Len(blocks) |->
        BlockChunks(MCService, blocks[k].document, blocks[k].chunk_type,
                    blocks[k].has_offsets, blocks[k].words, k)])

\* One document with two pages, a table and an image, and another of one long page;
\* the other way round, two tables and a document of an older version.
SmallCorpora ==
    {Corpus(<<Block(1, "text", 3, TRUE), Block(1, "text", 6, TRUE),
              Block(1, "table", 6, TRUE), Block(1, "image_caption", 2, FALSE),
              Block(2, "text", 8, TRUE)>>),
     Corpus(<<Block(1, "text", 8, TRUE), Block(1, "text", 3, TRUE),
              Block(1, "table", 5, TRUE), Block(1, "table", 4, TRUE),
              Block(2, "text", 6, FALSE)>>)}

MCCorpora == SmallCorpora \cup GoldenCorpora
=============================================================================
