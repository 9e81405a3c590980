----------------------------- MODULE MCChunking -----------------------------
(* DocumentPayloads, and the chunking in it, with every small setting, for TLC. *)
EXTENDS DocumentPayloads

MCServices == [max_words : 1 .. 4, overlap_words : 0 .. 5]

Of(chunk_type, page, nth, words) ==
    [chunk_type |-> chunk_type, page |-> page, nth |-> nth, words |-> words]

\* One page of any length; and pages, tables and images, with blank ones between.
MCDocuments ==
    {<<Of("text", 1, 1, n)>> : n \in TextLengths}
    \cup {<<Of("text", 1, 1, n), Of("text", 2, 1, 0), Of("text", 3, 1, m),
            Of("table", 1, 1, m), Of("table", 1, 2, 0), Of("table", 1, 3, n),
            Of("image_caption", 1, 1, 1), Of("image_caption", 2, 1, 0),
            Of("image_caption", 2, 2, 1)>> : n \in {1, 5}, m \in {2, 3}}
=============================================================================
