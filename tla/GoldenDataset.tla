--------------------------- MODULE GoldenDataset ---------------------------
(***************************************************************************)
(* The documents of the golden dataset (materials/generation/eval/seed.py    *)
(* and hard_scenarios.py) as retrieval and expansion see them: the words of  *)
(* every block, and where in a block a claim and its qualifier stand.  The   *)
(* hard cases are cut by the real chunker, so that a search may find a claim *)
(* without the fine print; expansion is there to bring that along.           *)
(***************************************************************************)
EXTENDS NeighborExpansion, SequencesExt

Words == INSTANCE WordChunks

\* The settings of documents/processing: DOCUMENT_CHUNK_MAX_WORDS and _OVERLAP_WORDS.
HardService == [max_words |-> 300, overlap_words |-> 50]

BlockChunks(service, document, chunk_type, has_offsets, words, block) ==
    LET cut == Words!Chunked(service, words)
    IN  [i \in 1 .. Len(cut) |->
            [document |-> document, chunk_type |-> chunk_type, block |-> block,
             chunk_index |-> i - 1, word_start |-> cut[i].word_start,
             word_end |-> cut[i].word_end, has_offsets |-> has_offsets]]

\* _seed_chunks: a chunk for every fact, on a page of its own and without offsets.
FactChunks(words) ==
    [i \in 1 .. Len(words) |->
        [document |-> 1, chunk_type |-> "text", block |-> i, chunk_index |-> 0,
         word_start |-> 0, word_end |-> words[i], has_offsets |-> FALSE]]

\* _seed_hard_document: every block is a page, chunked as the pipeline does.
HardChunks(words) ==
    FlattenSeq([k \in 1 .. Len(words) |->
        BlockChunks(HardService, 1, "text", TRUE, words[k], k)])
----------------------------------------------------------------------------
(* The companies, by the numbers of words of their facts or blocks. *)

Pairs == {<<12, 12, 10, 9>>, <<10, 13, 13>>, <<13, 12, 10>>, <<11, 10, 8>>,
          <<11, 12, 11>>, <<15, 8, 10>>}

MerexSender == <<391, 376, 326, 79, 83>>

MerexReceiver == <<297, 277, 270, 77>>

VeridianSender == <<421, 413, 99>>

VeridianReceiver == <<301, 276, 81>>

KinetiqSender == <<400, 393, 95>>

KinetiqReceiver == <<251, 239, 74>>

GoldenCorpora ==
    {FactChunks(words) : words \in Pairs}
    \cup {HardChunks(words) : words \in {MerexSender, MerexReceiver, VeridianSender,
                                         VeridianReceiver, KinetiqSender, KinetiqReceiver}}
----------------------------------------------------------------------------
(* expected_facts: the sentence with the claim and the one with its qualifier. *)

Sentence(block, first, end) == {<<block, w>> : w \in first .. end - 1}

Fact(company, block, claim, qualifier) ==
    [corpus |-> HardChunks(company),
     claim |-> Sentence(block, claim[1], claim[2]),
     qualifier |-> Sentence(block, qualifier[1], qualifier[2])]

\* Sub-second queries, two-week onboarding, 22 percent of logistics cost.
MerexFacts ==
    {Fact(MerexSender, 1, <<91, 128>>, <<287, 329>>),
     Fact(MerexSender, 2, <<11, 37>>, <<252, 307>>),
     Fact(MerexSender, 2, <<11, 37>>, <<307, 341>>),
     Fact(MerexSender, 3, <<11, 46>>, <<198, 238>>)}

\* Automatic triage, five-minute response, business associate agreement and uptime.
VeridianFacts ==
    {Fact(VeridianSender, 1, <<32, 66>>, <<311, 373>>),
     Fact(VeridianSender, 1, <<32, 66>>, <<373, 407>>),
     Fact(VeridianSender, 2, <<11, 54>>, <<300, 344>>),
     Fact(VeridianSender, 2, <<11, 54>>, <<344, 388>>)}

\* Station rate, payback, six-week deployment.
KinetiqFacts ==
    {Fact(KinetiqSender, 1, <<17, 42>>, <<298, 360>>),
     Fact(KinetiqSender, 1, <<17, 42>>, <<360, 400>>),
     Fact(KinetiqSender, 2, <<8, 43>>, <<273, 336>>),
     Fact(KinetiqSender, 2, <<8, 43>>, <<336, 393>>)}

Facts == MerexFacts \cup VeridianFacts \cup KinetiqFacts

\* What the sentences were written for, and all that expansion needs of the dataset: a
\* chunk that has a claim, or one next to it, has the qualifier.
WordsOf(t, p) ==
    {<<t[p].block, w>> : w \in {w \in 0 .. t[p].word_end :
                                  t[p].word_start <= w /\ w < t[p].word_end}}

ASSUME FactsAssumption ==
    \A f \in Facts : \A s \in DOMAIN f.corpus :
        f.claim \subseteq WordsOf(f.corpus, s) =>
            /\ f.corpus[s].chunk_type \notin NonExpanding
            /\ \E p \in DOMAIN f.corpus :
                 /\ p = s \/ Follows(f.corpus, s, p) \/ Follows(f.corpus, p, s)
                 /\ f.qualifier \subseteq WordsOf(f.corpus, p)
----------------------------------------------------------------------------
(* Properties. *)

Reads(sentence) == \E s \in SeedKeys : \E paragraph \in Read(s) : sentence \subseteq paragraph

Found(sentence) == \E s \in SeedKeys : sentence \subseteq Content(s)

\* hard_scenarios.py:6 "bare 300-word chunks retrieve the claim without its qualifier":
\* with expansion, however the chunks that the search finds are ranked, a claim that it
\* finds comes with its qualifier, whole and in one paragraph.
QualifierFollowsClaim ==
    step = "done" /\ live = Keys =>
        \A f \in Facts : chunk = f.corpus /\ Found(f.claim) => Reads(f.qualifier)
=============================================================================
