----------------------------- MODULE ChunkTable -----------------------------
(***************************************************************************)
(* What stitching may rely on: how chunking leaves its marks in the rows of *)
(* the table of chunks.  DocumentPayloads writes such rows and              *)
(* NeighborExpansion reads them.  A table is a sequence of rows by primary   *)
(* key; block is the page, table or image a row was cut from, which the      *)
(* program does not store in a form that it compares.                        *)
(***************************************************************************)
EXTENDS Naturals, Sequences

SameRun(t, p, q) ==
    t[p].document = t[q].document /\ t[p].chunk_type = t[q].chunk_type

\* q is the next row of its document and type after p.
Follows(t, p, q) ==
    /\ p < q /\ SameRun(t, p, q)
    /\ \A r \in DOMAIN t : p < r /\ r < q => ~ SameRun(t, p, r)

\* By index and offsets q looks like the next chunk of the block of p.
LooksNext(t, p, q) ==
    /\ t[p].has_offsets /\ t[q].has_offsets
    /\ t[q].chunk_index = t[p].chunk_index + 1
    /\ t[p].word_start <= t[q].word_start
    /\ t[q].word_start <= t[p].word_end

\* q is the next chunk of the block of p.
IsNext(t, p, q) ==
    /\ t[p].has_offsets /\ t[q].has_offsets
    /\ t[p].block = t[q].block
    /\ t[q].chunk_index = t[p].chunk_index + 1

\* A row has words; rows that follow each other and look like one block's are; and the
\* next chunk of a block follows, overlaps or adjoins, and does not end earlier.
WellCut(t) ==
    /\ \A p \in DOMAIN t : t[p].word_start < t[p].word_end
    /\ \A p, q \in DOMAIN t :
         /\ Follows(t, p, q) /\ LooksNext(t, p, q) => t[p].block = t[q].block
         /\ IsNext(t, p, q) =>
              /\ Follows(t, p, q) /\ LooksNext(t, p, q)
              /\ t[p].word_end <= t[q].word_end

\* The table t holds the rows of the tables of single documents, each in its own order,
\* as they were written over time: row p is row at[p] of its document's table, and the
\* blocks of different documents are different.
Interleaves(t, tables, at) ==
    /\ \A p \in DOMAIN t :
         LET mine == tables[t[p].document]
         IN  /\ at[p] \in DOMAIN mine
             /\ t[p].chunk_type = mine[at[p]].chunk_type
             /\ t[p].chunk_index = mine[at[p]].chunk_index
             /\ t[p].word_start = mine[at[p]].word_start
             /\ t[p].word_end = mine[at[p]].word_end
             /\ t[p].has_offsets = mine[at[p]].has_offsets
             /\ \A i \in DOMAIN mine :
                  \E q \in DOMAIN t : t[q].document = t[p].document /\ at[q] = i
    /\ \A p, q \in DOMAIN t :
         t[p].document = t[q].document => (p < q => at[p] < at[q])
    /\ \A p, q \in DOMAIN t :
         t[p].block = t[q].block <=>
            /\ t[p].document = t[q].document
            /\ tables[t[p].document][at[p]].block = tables[t[q].document][at[q]].block
=============================================================================
