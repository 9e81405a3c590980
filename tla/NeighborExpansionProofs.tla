---------------------- MODULE NeighborExpansionProofs -----------------------
(* Who gets which neighbours, for every table of chunks, window and search; that   *)
(* stitching is exact and what is found is read with what is beside it, for every  *)
(* table and search at the window in use; and so the qualifiers of the dataset are.*)
EXTENDS GoldenDataset, FiniteSetTheorems, WellFoundedInduction, TLAPS

LEMMA WantedType ==
    \A s : Wanted(s) \subseteq {p \in listed : p # s /\ SameKey(p, s)}
BY DEF Wanted

\* A step that leaves seeds, chunks, claims and assignments as they are.
LEMMA SameAssignments ==
    ASSUME ExpansionInvariant,
           UNCHANGED <<chunk, seeds, rank, listed, claimed, assignment>>,
           live' \subseteq live, step' \in {"list", "assign", "load", "done"},
           step' = step \/ step' = "done" \/ (step = "assign" /\ step' = "load"),
           DOMAIN passage' = SeedKeys
    PROVE  ExpansionInvariant'
<1>1. /\ SeedKeys' = SeedKeys /\ Keys' = Keys
      /\ \A s : Wanted(s)' = Wanted(s)
      /\ \A p, q : SameKey(p, q)' = SameKey(p, q)
  BY DEF SeedKeys, Keys, Wanted, SameKey
<1>2. TypeOK'
  BY <1>1 DEF ExpansionInvariant, TypeOK
<1>3. SeedsDistinct' /\ ClaimedIsAssigned' /\ NothingAhead' /\ ClaimedOnce'
  BY <1>1 DEF ExpansionInvariant, SeedsDistinct, ClaimedIsAssigned, NothingAhead, ClaimedOnce
<1>4. RankWins'
  BY <1>1 DEF ExpansionInvariant, RankWins
<1> QED  BY <1>2, <1>3, <1>4 DEF ExpansionInvariant

\* One seed takes what nobody has.
LEMMA AssignStep ==
    ASSUME ExpansionInvariant, Assign
    PROVE  ExpansionInvariant'
<1> DEFINE s == seeds[rank]
           fresh == IF s \in listed THEN Wanted(s) \ claimed ELSE {}
<1>1. /\ step = "assign" /\ rank \in Nat /\ rank \in 1 .. Len(seeds) /\ Len(seeds) \in Nat
      /\ rank' = rank + 1
      /\ claimed' = claimed \cup fresh
      /\ assignment' = [assignment EXCEPT ![s] = fresh]
      /\ UNCHANGED <<chunk, live, seeds, step, listed, passage>>
  BY DEF ExpansionInvariant, TypeOK, Assign
<1>2. /\ SeedKeys' = SeedKeys /\ Keys' = Keys
      /\ \A t : Wanted(t)' = Wanted(t)
      /\ \A p, q : SameKey(p, q)' = SameKey(p, q)
  BY <1>1 DEF SeedKeys, Keys, Wanted, SameKey
<1>3. /\ s \in SeedKeys /\ assignment \in [SeedKeys -> SUBSET Keys] /\ listed \subseteq Keys
      /\ \A i \in 1 .. Len(seeds) : seeds[i] \in SeedKeys
      /\ claimed = SeedKeys \cup UNION {assignment[t] : t \in SeedKeys}
  BY <1>1 DEF ExpansionInvariant, TypeOK, SeedKeys, ClaimedIsAssigned
<1>4. fresh \subseteq Keys /\ fresh \cap claimed = {}
  BY <1>3, WantedType
<1>5. /\ assignment'[s] = fresh
      /\ \A t \in SeedKeys : t # s => assignment'[t] = assignment[t]
      /\ assignment' \in [SeedKeys -> SUBSET Keys]
  BY <1>1, <1>3, <1>4
<1>6. TypeOK'
  <2>1. rank' \in 1 .. Len(seeds) + 1
    BY <1>1
  <2>2. claimed' \subseteq Keys
    BY <1>1, <1>4 DEF ExpansionInvariant, TypeOK
  <2> QED  BY <1>1, <1>2, <1>5, <2>1, <2>2 DEF ExpansionInvariant, TypeOK
<1>7. \A i \in 1 .. Len(seeds) : seeds[i] = s => i = rank
  BY <1>1 DEF ExpansionInvariant, SeedsDistinct
<1>8. SeedsDistinct'
  BY <1>1 DEF ExpansionInvariant, SeedsDistinct
<1>9. assignment[s] = {}
  BY <1>1 DEF ExpansionInvariant, NothingAhead
<1>10. ClaimedIsAssigned'
  <2>1. claimed \cup fresh = SeedKeys \cup UNION {assignment'[t] : t \in SeedKeys}
    BY <1>3, <1>5, <1>9
  <2> QED  BY <1>1, <1>2, <2>1 DEF ClaimedIsAssigned
<1>11. NothingAhead'
  <2>1. ASSUME NEW i \in 1 .. Len(seeds), i >= rank + 1 PROVE assignment'[seeds[i]] = {}
    <3>1. seeds[i] # s /\ i >= rank
      BY <1>1, <1>7, <2>1
    <3> QED  BY <1>3, <1>5, <3>1 DEF ExpansionInvariant, NothingAhead
  <2> QED  BY <1>1, <2>1 DEF NothingAhead
<1>12. ClaimedOnce'
  <2>1. \A t \in SeedKeys : assignment[t] \subseteq claimed
    BY <1>3
  <2>2. \A t \in SeedKeys : assignment'[t] \cap SeedKeys = {}
    BY <1>3, <1>4, <1>5 DEF ExpansionInvariant, ClaimedOnce
  <2>3. \A t, u \in SeedKeys : t # u => assignment'[t] \cap assignment'[u] = {}
    BY <1>4, <1>5, <2>1 DEF ExpansionInvariant, ClaimedOnce
  <2> QED  BY <1>2, <2>2, <2>3 DEF ClaimedOnce
<1>13. RankWins'
  <2> SUFFICES ASSUME NEW i \in 1 .. Len(seeds), i < rank + 1
               PROVE  /\ seeds[i] \in listed =>
                           \A p \in Wanted(seeds[i]) \ SeedKeys :
                              \E j \in 1 .. i : p \in assignment'[seeds[j]]
                      /\ assignment'[seeds[i]] \subseteq
                            {p \in listed : SameKey(p, seeds[i]) /\ p \in Wanted(seeds[i])}
    BY <1>1, <1>2 DEF RankWins
  <2>1. CASE i < rank
    <3>1. \A j \in 1 .. i : assignment'[seeds[j]] = assignment[seeds[j]]
      BY <1>1, <1>3, <1>5, <1>7, <2>1
    <3>2. i \in 1 .. i
      BY <1>1
    <3> QED  BY <2>1, <3>1, <3>2 DEF ExpansionInvariant, RankWins
  <2>2. CASE i = rank
    <3>1. ASSUME s \in listed, NEW p \in Wanted(s) \ SeedKeys
          PROVE  \E j \in 1 .. rank : p \in assignment'[seeds[j]]
      <4>1. CASE p \in claimed
        <5>1. PICK t \in SeedKeys : p \in assignment[t]
          BY <1>3, <3>1, <4>1
        <5>2. PICK j \in 1 .. Len(seeds) : t = seeds[j]
          BY <5>1 DEF SeedKeys
        <5>3. j < rank
          BY <1>1, <5>1, <5>2 DEF ExpansionInvariant, NothingAhead
        <5>4. p \in assignment'[seeds[j]]
          BY <1>1, <1>3, <1>5, <1>7, <5>1, <5>2, <5>3
        <5> QED  BY <1>1, <5>3, <5>4
      <4>2. CASE p \notin claimed
        <5>1. p \in assignment'[s]
          BY <1>5, <3>1, <4>2
        <5> QED  BY <1>1, <5>1
      <4> QED  BY <4>1, <4>2
    <3>2. fresh \subseteq {p \in listed : SameKey(p, s) /\ p \in Wanted(s)}
      BY WantedType
    <3> QED  BY <1>5, <2>2, <3>1, <3>2
  <2> QED  BY <1>1, <2>1, <2>2
<1> QED
  BY <1>6, <1>8, <1>10, <1>11, <1>12, <1>13 DEF ExpansionInvariant

\* The invariant holds of every step of an expansion.
THEOREM ExpansionInvariantHolds == Spec => []ExpansionInvariant
<1>1. Init => ExpansionInvariant
  <2> SUFFICES ASSUME Init PROVE ExpansionInvariant  OBVIOUS
  <2>1. PICK n \in 0 .. TopK : seeds \in [1 .. n -> Keys]
    BY DEF Init
  <2>2. n \in Nat /\ seeds \in Seq(Keys) /\ Len(seeds) = n
    BY <2>1, WindowAssumption
  <2>3. \A i \in 1 .. Len(seeds) : seeds[i] \in SeedKeys
    BY DEF SeedKeys
  <2>4. TypeOK
    BY <2>2 DEF Init, TypeOK
  <2>5. SeedsDistinct /\ ClaimedIsAssigned /\ NothingAhead /\ ClaimedOnce
    BY <2>3 DEF Init, SeedsDistinct, ClaimedIsAssigned, NothingAhead, ClaimedOnce
  <2>6. RankWins
    BY <2>2 DEF Init, RankWins
  <2> QED  BY <2>4, <2>5, <2>6 DEF ExpansionInvariant
<1>2. ExpansionInvariant /\ [Next]_vars => ExpansionInvariant'
  <2> SUFFICES ASSUME ExpansionInvariant, [Next]_vars PROVE ExpansionInvariant'  OBVIOUS
  <2>1. ASSUME NEW p \in Keys, DocumentVanishes(chunk[p].document)
        PROVE  ExpansionInvariant'
    BY <2>1, SameAssignments DEF DocumentVanishes, ExpansionInvariant, TypeOK
  <2>2. CASE OrderedIds
    <3>1. CASE Window = 0 \/ seeds = <<>>
      BY <2>2, <3>1, SameAssignments DEF OrderedIds, ExpansionInvariant, TypeOK
    <3>2. CASE ~ (Window = 0 \/ seeds = <<>>)
      <4>1. /\ step = "list" /\ step' = "assign" /\ rank = 1 /\ claimed' = SeedKeys
            /\ listed' \subseteq live
            /\ UNCHANGED <<chunk, live, seeds, rank, assignment, passage>>
        BY <2>2, <3>2 DEF OrderedIds, ExpansionInvariant, NothingAhead
      <4>2. SeedKeys' = SeedKeys /\ Keys' = Keys
        BY <4>1 DEF SeedKeys, Keys
      <4>3. Len(seeds) \in Nat /\ \A i \in 1 .. Len(seeds) : assignment[seeds[i]] = {}
        BY <4>1 DEF ExpansionInvariant, TypeOK, NothingAhead
      <4>4. \A s \in SeedKeys : assignment[s] = {}
        BY <4>3 DEF SeedKeys
      <4>5. SeedKeys \subseteq Keys
        BY DEF ExpansionInvariant, TypeOK, SeedKeys
      <4>6. TypeOK'
        BY <4>1, <4>2, <4>5 DEF ExpansionInvariant, TypeOK
      <4>7. SeedsDistinct' /\ NothingAhead' /\ ClaimedOnce'
        BY <4>1, <4>2, <4>3, <4>4
        DEF ExpansionInvariant, SeedsDistinct, NothingAhead, ClaimedOnce
      <4>8. ClaimedIsAssigned'
        BY <4>1, <4>2, <4>4 DEF ClaimedIsAssigned
      <4>9. RankWins'
        BY <4>1, <4>3 DEF RankWins
      <4> QED  BY <4>6, <4>7, <4>8, <4>9 DEF ExpansionInvariant
    <3> QED  BY <3>1, <3>2
  <2>3. CASE Assign
    BY <2>3, AssignStep
  <2>4. CASE AllAssigned
    BY <2>4, SameAssignments DEF AllAssigned, ExpansionInvariant, TypeOK
  <2>5. CASE StitchAll
    BY <2>5, SameAssignments DEF StitchAll, ExpansionInvariant, TypeOK
  <2>6. CASE UNCHANGED vars
    BY <2>6, SameAssignments DEF vars, ExpansionInvariant, TypeOK
  <2> QED  BY <2>1, <2>2, <2>3, <2>4, <2>5, <2>6 DEF Next
<1> QED  BY <1>1, <1>2, PTL DEF Spec

\* No chunk is before the model twice.
THEOREM NeighborsAreClaimedOnce == Spec => []ClaimedOnce
<1>1. ExpansionInvariant => ClaimedOnce
  BY DEF ExpansionInvariant
<1> QED  BY <1>1, ExpansionInvariantHolds, PTL

\* A chunk near several seeds goes to the best of them.
THEOREM RankAlwaysWins == Spec => []RankWins
<1>1. ExpansionInvariant => RankWins
  BY DEF ExpansionInvariant
<1> QED  BY <1>1, ExpansionInvariantHolds, PTL
----------------------------------------------------------------------------
(* Stitching.  Smallest elements stand in for induction over the pieces. *)

LEMMA LeastElement ==
    ASSUME NEW S \in SUBSET Nat, S # {}
    PROVE  \E m \in S : \A x \in S : m <= x
<1>1. PICK m \in S : \A x \in S : ~ (<<x, m>> \in OpToRel(<, Nat))
  BY NatLessThanWellFounded, WFMin
<1>2. \A x \in S : ~ (x < m)
  BY <1>1 DEF OpToRel
<1> QED  BY <1>2

LEMMA GreatestElement ==
    ASSUME NEW S \in SUBSET Nat, S # {}, NEW n \in Nat, \A x \in S : x <= n
    PROVE  \E m \in S : \A x \in S : x <= m
<1> DEFINE D == {n - x : x \in S}
<1>1. D \in SUBSET Nat /\ D # {}
  <2>1. \A x \in S : n - x \in Nat
    OBVIOUS
  <2> QED  BY <2>1
<1>2. PICK d \in D : \A y \in D : d <= y
  BY <1>1, LeastElement
<1>3. PICK m \in S : d = n - m
  OBVIOUS
<1>4. \A x \in S : n - m <= n - x
  BY <1>2, <1>3
<1> QED  BY <1>4

\* An uninterrupted part of a block, by its first and last word.
LEMMA IntervalIsUninterrupted ==
    ASSUME NEW b, NEW lo \in Nat, NEW hi \in Nat, lo < hi
    PROVE  Uninterrupted({<<b, w>> : w \in lo .. hi - 1})
<1> DEFINE S == lo .. hi - 1
           T == {<<b, w>> : w \in S}
           f == [w \in S |-> <<b, w>>]
<1>1. IsFiniteSet(S) /\ Cardinality(S) = hi - lo
  BY FS_Interval
<1>2. f \in Bijection(S, T)
  BY DEF Bijection, Injection, Surjection, IsInjective
<1>3. ExistsBijection(S, T)
  BY <1>2 DEF ExistsBijection
<1>4. Cardinality(T) = hi - lo
  BY <1>1, <1>3, FS_Bijection
<1> DEFINE u == <<b, lo>>
<1>5. u \in T /\ u[1] = b /\ u[2] = lo
  OBVIOUS
<1>6. T = {<<u[1], u[2] + n>> : n \in 0 .. Cardinality(T) - 1}
  <2>1. ASSUME NEW w \in S PROVE \E n \in 0 .. hi - lo - 1 : w = lo + n
    <3>1. w - lo \in 0 .. hi - lo - 1 /\ w = lo + (w - lo)
      OBVIOUS
    <3> QED  BY <3>1
  <2>2. \A n \in 0 .. hi - lo - 1 : lo + n \in S
    OBVIOUS
  <2>3. T = {<<b, lo + n>> : n \in 0 .. hi - lo - 1}
    BY <2>1, <2>2
  <2> QED  BY <1>4, <1>5, <2>3
<1> QED  BY <1>5, <1>6 DEF Uninterrupted

\* The rows of the table, and the words of a row.
LEMMA RowTypes ==
    ASSUME TypeOK
    PROVE  /\ Keys \in SUBSET Nat
           /\ WellCut(chunk)
           /\ \A p \in Keys :
                /\ chunk[p].word_start \in Nat /\ chunk[p].word_end \in Nat
                /\ chunk[p].word_start < chunk[p].word_end
                /\ chunk[p].has_offsets \in BOOLEAN /\ chunk[p].chunk_index \in Nat
<1>1. chunk \in Seq(DocumentChunk) /\ WellCut(chunk)
  BY CorporaAssumption, CutAssumption DEF TypeOK
<1>2. \A p \in Keys : chunk[p] \in DocumentChunk
  BY <1>1 DEF Keys
<1>3. Keys \in SUBSET Nat
  BY <1>1 DEF Keys
<1>4. \A p \in Keys :
        /\ chunk[p].word_start \in Nat /\ chunk[p].word_end \in Nat
        /\ chunk[p].has_offsets \in BOOLEAN /\ chunk[p].chunk_index \in Nat
  BY <1>2 DEF DocumentChunk
<1>5. \A p \in Keys : chunk[p].word_start < chunk[p].word_end
  BY <1>1 DEF Keys, WellCut
<1> QED  BY <1>1, <1>3, <1>4, <1>5

LEMMA ContentWords ==
    ASSUME TypeOK, NEW p \in Keys
    PROVE  Content(p) = {<<chunk[p].block, w>> :
                            w \in chunk[p].word_start .. chunk[p].word_end - 1}
<1>1. chunk[p].word_start \in Nat /\ chunk[p].word_end \in Nat
  BY RowTypes
<1>2. {w \in 0 .. chunk[p].word_end : chunk[p].word_start <= w /\ w < chunk[p].word_end}
        = chunk[p].word_start .. chunk[p].word_end - 1
  BY <1>1
<1> QED  BY <1>2 DEF Content

\* Pieces of which one that goes on with another is of the same block.
OfOneBlock(P) ==
    \A q, p \in P : Continues(q, p, P) => chunk[q].block = chunk[p].block

\* The pieces of the paragraph that starts with p.
Followers(p, P) ==
    {q \in P : p <= q /\ \A r \in P : p < r /\ r <= q => ~ StartsParagraph(r, P)}

LEMMA ContinuesOrder ==
    ASSUME TypeOK, NEW P \in SUBSET Keys, OfOneBlock(P),
           NEW q \in P, NEW p \in P, Continues(q, p, P)
    PROVE  /\ q < p /\ \A r \in P : ~ (q < r /\ r < p)
           /\ chunk[q].block = chunk[p].block
           /\ chunk[q].word_start <= chunk[p].word_start
           /\ chunk[p].word_start <= chunk[q].word_end
           /\ chunk[q].word_end <= chunk[p].word_end
BY DEF OfOneBlock, Continues, Before, SameBlock

LEMMA OnePredecessor ==
    ASSUME TypeOK, NEW P \in SUBSET Keys, NEW p \in P, NEW q \in P, NEW r \in P,
           Continues(q, p, P), Continues(r, p, P)
    PROVE  q = r
<1>1. p \in Nat /\ q \in Nat /\ r \in Nat
  BY RowTypes
<1> QED  BY <1>1 DEF Continues, Before

\* A piece of a paragraph that is not its first goes on with another of its pieces.
LEMMA HasPredecessor ==
    ASSUME TypeOK, NEW P \in SUBSET Keys, NEW p \in P, NEW q \in Followers(p, P), q # p
    PROVE  \E r \in Followers(p, P) : r < q /\ Continues(r, q, P)
<1>1. P \in SUBSET Nat /\ q \in P /\ p < q
  BY RowTypes DEF Followers
<1>2. PICK r \in P : Continues(r, q, P)
  BY <1>1 DEF Followers, StartsParagraph
<1>3. r < q /\ p <= r
  BY <1>1, <1>2 DEF Continues, Before
<1>4. \A x \in P : p < x /\ x <= r => ~ StartsParagraph(x, P)
  BY <1>1, <1>3 DEF Followers
<1> QED  BY <1>2, <1>3, <1>4 DEF Followers

LEMMA FollowersAfterFirst ==
    ASSUME TypeOK, NEW P \in SUBSET Keys, OfOneBlock(P), NEW p \in P
    PROVE  \A q \in Followers(p, P) :
              chunk[q].block = chunk[p].block /\ chunk[p].word_start <= chunk[q].word_start
<1> DEFINE Good(q) == /\ chunk[q].block = chunk[p].block
                      /\ chunk[p].word_start <= chunk[q].word_start
           Bad == {q \in Followers(p, P) : ~ Good(q)}
<1>1. P \in SUBSET Nat /\ Followers(p, P) \subseteq P /\ Bad \in SUBSET Nat
  BY RowTypes DEF Followers
<1>2. SUFFICES ASSUME Bad # {} PROVE FALSE
  OBVIOUS
<1>3. PICK q \in Bad : \A x \in Bad : q <= x
  BY <1>1, <1>2, LeastElement
<1>4. q # p
  BY <1>1, RowTypes
<1>5. PICK r \in Followers(p, P) : r < q /\ Continues(r, q, P)
  BY <1>3, <1>4, HasPredecessor
<1>6. r \notin Bad
  BY <1>1, <1>3, <1>5
<1>7. /\ chunk[r].block = chunk[q].block
      /\ chunk[r].word_start <= chunk[q].word_start
  BY <1>1, <1>5, ContinuesOrder
<1>8. /\ chunk[p].word_start \in Nat /\ chunk[q].word_start \in Nat
      /\ chunk[r].word_start \in Nat
  BY <1>1, RowTypes
<1>9. Good(q)
  BY <1>6, <1>7, <1>8
<1> QED  BY <1>9

LEMMA EndsGrow ==
    ASSUME TypeOK, NEW P \in SUBSET Keys, OfOneBlock(P), NEW p \in P,
           NEW q \in Followers(p, P)
    PROVE  \A r \in Followers(p, P) : q <= r => chunk[q].word_end <= chunk[r].word_end
<1> DEFINE Bad == {r \in Followers(p, P) : q <= r /\ ~ chunk[q].word_end <= chunk[r].word_end}
<1>1. P \in SUBSET Nat /\ Followers(p, P) \subseteq P /\ Bad \in SUBSET Nat
  BY RowTypes DEF Followers
<1>2. SUFFICES ASSUME Bad # {} PROVE FALSE
  OBVIOUS
<1>3. PICK r \in Bad : \A x \in Bad : r <= x
  BY <1>1, <1>2, LeastElement
<1>4. /\ q < r /\ r # p
  <2>1. chunk[r].word_end \in Nat /\ chunk[r].word_end <= chunk[r].word_end
    BY <1>1, RowTypes
  <2>2. q # r /\ q <= r /\ p <= q
    BY <1>1, <1>3, <2>1 DEF Followers
  <2>3. p \in Nat /\ q \in Nat /\ r \in Nat
    BY <1>1
  <2> HIDE DEF Bad
  <2> QED  BY <2>2, <2>3
<1>5. PICK x \in Followers(p, P) : x < r /\ Continues(x, r, P)
  BY <1>3, <1>4, HasPredecessor
<1>6. q <= x
  BY <1>1, <1>4, <1>5 DEF Continues, Before
<1>7. x \notin Bad
  BY <1>1, <1>3, <1>5
<1>8. chunk[x].word_end <= chunk[r].word_end
  BY <1>1, <1>5, ContinuesOrder
<1>9. /\ chunk[q].word_end \in Nat /\ chunk[x].word_end \in Nat /\ chunk[r].word_end \in Nat
  BY <1>1, RowTypes
<1> QED  BY <1>3, <1>6, <1>7, <1>8, <1>9

\* A paragraph is the part of a block from the first word of its first piece to the
\* last word of its last.
LEMMA ParagraphIsInterval ==
    ASSUME TypeOK, NEW P \in SUBSET Keys, OfOneBlock(P), NEW p \in P, StartsParagraph(p, P)
    PROVE  \E last \in Followers(p, P) :
              /\ \A q \in Followers(p, P) : chunk[q].word_end <= chunk[last].word_end
              /\ Paragraph(p, P) =
                    {<<chunk[p].block, w>> : w \in chunk[p].word_start .. chunk[last].word_end - 1}
<1> DEFINE F == Followers(p, P)
           b == chunk[p].block
           lo == chunk[p].word_start
<1>1. /\ P \in SUBSET Nat /\ F \subseteq P /\ F \in SUBSET Nat /\ p \in Nat
      /\ \A q \in P : /\ chunk[q].word_start \in Nat /\ chunk[q].word_end \in Nat
                      /\ chunk[q].word_start < chunk[q].word_end
  BY RowTypes DEF Followers
<1>2. p \in F
  BY <1>1 DEF Followers
<1>3. PICK last \in F : \A q \in F : q <= last
  <2>1. chunk \in Seq(DocumentChunk)
    BY CorporaAssumption DEF TypeOK
  <2>2. Len(chunk) \in Nat /\ \A q \in Keys : q <= Len(chunk)
    BY <2>1 DEF Keys
  <2>3. \A q \in F : q <= Len(chunk)
    BY <1>1, <2>2
  <2> QED  BY <1>1, <1>2, <2>2, <2>3, GreatestElement
<1> DEFINE hi == chunk[last].word_end
<1>4. \A q \in F : chunk[q].word_end <= hi
  BY <1>3, EndsGrow
<1>5. \A q \in F : chunk[q].block = b /\ lo <= chunk[q].word_start
  BY FollowersAfterFirst
<1>6. Paragraph(p, P) = UNION {Part(q, P) : q \in F}
  BY DEF Paragraph, Followers
<1>7. ASSUME NEW q \in F, NEW u \in Part(q, P)
      PROVE  u \in {<<b, w>> : w \in lo .. hi - 1}
  <2>1. PICK w \in chunk[q].word_start .. chunk[q].word_end - 1 : u = <<chunk[q].block, w>>
    BY <1>1, <1>7, ContentWords DEF Part
  <2>2. w \in lo .. hi - 1
    BY <1>1, <1>2, <1>4, <1>5, <2>1
  <2> QED  BY <1>5, <2>1, <2>2
<1>8. ASSUME NEW w \in lo .. hi - 1
      PROVE  \E q \in F : <<b, w>> \in Part(q, P)
  <2> DEFINE Later == {q \in F : w < chunk[q].word_end}
  <2>1. w \in Nat /\ lo <= w /\ last \in Later
    BY <1>1, <1>2
  <2>2. PICK q \in Later : \A x \in Later : q <= x
    <3>1. Later \in SUBSET Nat /\ Later # {}
      BY <1>1, <2>1
    <3> QED  BY <3>1, LeastElement
  <2>3. CASE q = p
    <3>1. <<b, w>> \in Content(p)
      BY <1>1, <2>1, <2>2, <2>3, ContentWords
    <3> QED  BY <1>2, <2>3, <3>1 DEF Part, StartsParagraph
  <2>4. CASE q # p
    <3>1. PICK r \in F : r < q /\ Continues(r, q, P)
      BY <2>2, <2>4, HasPredecessor
    <3>2. r \notin Later
      BY <1>1, <2>2, <3>1
    <3>3. chunk[r].word_end <= w
      BY <1>1, <2>1, <3>1, <3>2
    <3>4. chunk[q].word_start <= w /\ w < chunk[q].word_end
      <4>1. chunk[q].word_start <= chunk[r].word_end
        BY <1>1, <3>1, ContinuesOrder
      <4> QED  BY <1>1, <2>1, <2>2, <3>1, <3>3, <4>1
    <3>5. <<b, w>> \in Content(q)
      BY <1>1, <1>5, <2>1, <2>2, <3>4, ContentWords
    <3>6. \A x \in P : Continues(x, q, P) => x = r
      BY <1>1, <2>2, <3>1, OnePredecessor
    <3>7. <<b, w>>[2] >= chunk[r].word_end
      BY <1>1, <2>1, <3>1, <3>3
    <3> QED  BY <2>2, <3>5, <3>6, <3>7 DEF Part
  <2> QED  BY <2>3, <2>4
<1>9. Paragraph(p, P) = {<<b, w>> : w \in lo .. hi - 1}
  BY <1>6, <1>7, <1>8
<1> QED  BY <1>4, <1>9

\* Every piece is in a paragraph.
LEMMA PieceHasParagraph ==
    ASSUME TypeOK, NEW P \in SUBSET Keys, NEW q \in P
    PROVE  \E p \in P : StartsParagraph(p, P) /\ q \in Followers(p, P)
<1> DEFINE Starts == {p \in P : p <= q /\ StartsParagraph(p, P)}
<1>1. P \in SUBSET Nat /\ q \in Nat /\ Starts \in SUBSET Nat
  BY RowTypes
<1>2. PICK m \in P : \A x \in P : m <= x
  BY <1>1, LeastElement
<1>3. m \in Starts
  BY <1>1, <1>2 DEF StartsParagraph, Continues, Before
<1>4. PICK p \in Starts : \A x \in Starts : x <= p
  BY <1>1, <1>3, GreatestElement
<1>5. ASSUME NEW r \in P, p < r, r <= q, StartsParagraph(r, P) PROVE FALSE
  BY <1>1, <1>4, <1>5
<1>6. q \in Followers(p, P)
  BY <1>4, <1>5 DEF Followers
<1> QED  BY <1>4, <1>6

\* No word of a piece is lost in overlaps: what is left out is in the piece before.
LEMMA StitchKeepsWords ==
    ASSUME TypeOK, NEW P \in SUBSET Keys, OfOneBlock(P)
    PROVE  UNION Stitch(P) = UNION {Content(p) : p \in P}
<1>1. /\ P \in SUBSET Nat
      /\ \A q \in P : chunk[q].word_start \in Nat /\ chunk[q].word_end \in Nat
  BY RowTypes
<1>2. ASSUME NEW p \in P, NEW u \in Paragraph(p, P)
      PROVE  \E q \in P : u \in Content(q)
  BY <1>2 DEF Paragraph, Part
<1>3. ASSUME NEW q \in P, NEW u \in Content(q)
      PROVE  \E p \in P : StartsParagraph(p, P) /\ u \in Paragraph(p, P)
  <2> DEFINE Having == {x \in P : u \in Content(x)}
  <2>1. PICK r \in Having : \A x \in Having : r <= x
    <3>1. Having \in SUBSET Nat /\ Having # {}
      BY <1>1, <1>3
    <3> QED  BY <3>1, LeastElement
  <2>2. PICK w \in chunk[r].word_start .. chunk[r].word_end - 1 : u = <<chunk[r].block, w>>
    BY <2>1, ContentWords
  <2>3. w \in Nat /\ chunk[r].word_start <= w /\ w < chunk[r].word_end /\ u[2] = w
    BY <1>1, <2>1, <2>2
  <2>4. ASSUME NEW x \in P, Continues(x, r, P), ~ w >= chunk[x].word_end PROVE FALSE
    <3>1. /\ x < r /\ chunk[x].block = chunk[r].block
          /\ chunk[x].word_start <= chunk[r].word_start
      BY <2>1, <2>4, ContinuesOrder
    <3>2. w \in chunk[x].word_start .. chunk[x].word_end - 1
      BY <1>1, <2>1, <2>3, <2>4, <3>1
    <3>3. x \in Having
      BY <2>2, <3>1, <3>2, ContentWords
    <3> QED  BY <1>1, <2>1, <3>1, <3>3
  <2>5. u \in Part(r, P)
    BY <2>1, <2>3, <2>4 DEF Part
  <2>6. PICK p \in P : StartsParagraph(p, P) /\ r \in Followers(p, P)
    BY <2>1, PieceHasParagraph
  <2> QED  BY <2>5, <2>6 DEF Paragraph, Followers
<1>4. UNION Stitch(P) \subseteq UNION {Content(p) : p \in P}
  BY <1>2 DEF Stitch
<1>5. UNION {Content(p) : p \in P} \subseteq UNION Stitch(P)
  BY <1>3 DEF Stitch
<1> QED  BY <1>4, <1>5

\* A paragraph has its pieces whole: of what is left out of one, the piece before has it.
LEMMA ParagraphHoldsPieces ==
    ASSUME TypeOK, NEW P \in SUBSET Keys, OfOneBlock(P),
           NEW h \in P, StartsParagraph(h, P), NEW x \in Followers(h, P)
    PROVE  Content(x) \subseteq Paragraph(h, P)
<1>1. /\ P \in SUBSET Nat
      /\ \A y \in P : chunk[y].word_start \in Nat /\ chunk[y].word_end \in Nat
  BY RowTypes
<1>2. PICK last \in Followers(h, P) :
        /\ \A y \in Followers(h, P) : chunk[y].word_end <= chunk[last].word_end
        /\ Paragraph(h, P) =
              {<<chunk[h].block, w>> : w \in chunk[h].word_start .. chunk[last].word_end - 1}
  BY ParagraphIsInterval
<1>3. /\ chunk[x].block = chunk[h].block /\ chunk[h].word_start <= chunk[x].word_start
      /\ x \in P /\ last \in P
  BY FollowersAfterFirst DEF Followers
<1>4. \A w \in chunk[x].word_start .. chunk[x].word_end - 1 :
          w \in chunk[h].word_start .. chunk[last].word_end - 1
  BY <1>1, <1>2, <1>3
<1> QED  BY <1>2, <1>3, <1>4, ContentWords

\* Every piece is in a paragraph, whole.
LEMMA StitchHoldsPieces ==
    ASSUME TypeOK, NEW P \in SUBSET Keys, OfOneBlock(P), NEW p \in P
    PROVE  \E paragraph \in Stitch(P) : Content(p) \subseteq paragraph
<1>1. PICK h \in P : StartsParagraph(h, P) /\ p \in Followers(h, P)
  BY PieceHasParagraph
<1> QED  BY <1>1, ParagraphHoldsPieces DEF Stitch

\* Two pieces of which one goes on with the other are in one paragraph.
LEMMA StitchJoins ==
    ASSUME TypeOK, NEW P \in SUBSET Keys, OfOneBlock(P),
           NEW p \in P, NEW q \in P, Continues(p, q, P)
    PROVE  \E paragraph \in Stitch(P) : Content(p) \cup Content(q) \subseteq paragraph
<1>1. PICK h \in P : StartsParagraph(h, P) /\ q \in Followers(h, P)
  BY PieceHasParagraph
<1>2. q # h
  BY <1>1 DEF StartsParagraph
<1>3. PICK r \in Followers(h, P) : Continues(r, q, P)
  BY <1>1, <1>2, HasPredecessor
<1>4. r = p /\ p \in Followers(h, P)
  BY <1>3, OnePredecessor DEF Followers
<1>5. Content(p) \subseteq Paragraph(h, P) /\ Content(q) \subseteq Paragraph(h, P)
  BY <1>1, <1>4, ParagraphHoldsPieces
<1> QED  BY <1>1, <1>5 DEF Stitch
----------------------------------------------------------------------------
(* The pieces that expand stitches. *)

\* A document is in the table and in the list as a whole or not at all, and a passage is
\* what stitching made of the seed and all it was assigned.
DocumentsWhole ==
    \A p \in live, q \in Keys : chunk[q].document = chunk[p].document => q \in live

ListedWhole == \A p \in listed, q \in Keys : SameKey(q, p) => q \in listed

WindowUsed ==
    step \in {"assign", "load"} \/ (\E s \in SeedKeys : assignment[s] # {}) => Window # 0

PassagesStand ==
    \A s \in SeedKeys : passage[s] # {} =>
        step = "done" /\ assignment[s] # {} /\ passage[s] = Stitch({s} \cup assignment[s])

PassageInvariant ==
    /\ DocumentsWhole /\ ListedWhole /\ WindowUsed /\ PassagesStand

LEMMA AssignedIsWanted ==
    ASSUME ExpansionInvariant, NEW s \in SeedKeys
    PROVE  s \in Keys /\ assignment[s] \subseteq Wanted(s)
<1>1. PICK i \in 1 .. Len(seeds) : s = seeds[i]
  BY DEF SeedKeys
<1>2. seeds \in Seq(Keys) /\ i \in Nat /\ rank \in Nat
  BY <1>1 DEF ExpansionInvariant, TypeOK
<1>3. s \in Keys
  BY <1>1, <1>2
<1>4. CASE i < rank
  <2>1. assignment[seeds[i]] \subseteq
            {p \in listed : SameKey(p, seeds[i]) /\ p \in Wanted(seeds[i])}
    BY <1>1, <1>4 DEF ExpansionInvariant, RankWins
  <2> QED  BY <1>1, <1>3, <2>1
<1>5. CASE i >= rank
  <2>1. assignment[seeds[i]] = {}
    BY <1>1, <1>5 DEF ExpansionInvariant, NothingAhead
  <2> QED  BY <1>1, <1>3, <2>1
<1> QED  BY <1>2, <1>3, <1>4, <1>5

\* Stitching looks at the chunks only.
LEMMA StitchOfChunks ==
    ASSUME chunk' = chunk
    PROVE  \A P : Stitch(P)' = Stitch(P)
<1>1. \A p : Content(p)' = Content(p)
  BY DEF Content
<1>2. \A q, p : SameBlock(q, p)' = SameBlock(q, p)
  BY DEF SameBlock
<1>3. \A q, p, P : Continues(q, p, P)' = Continues(q, p, P)
  BY <1>2 DEF Continues, Before
<1>4. \A p, P : StartsParagraph(p, P)' = StartsParagraph(p, P)
  BY <1>3 DEF StartsParagraph
<1>5. \A p, P : Part(p, P)' = Part(p, P)
  BY <1>1, <1>3 DEF Part
<1>6. \A p, P : Paragraph(p, P)' = Paragraph(p, P)
  BY <1>4, <1>5 DEF Paragraph
<1> QED  BY <1>4, <1>6 DEF Stitch

\* A step before the passages are made, which only has to keep what they need.
LEMMA BeforePassages ==
    ASSUME PassageInvariant, chunk' = chunk, seeds' = seeds, passage' = passage,
           step # "done", DocumentsWhole', ListedWhole', WindowUsed'
    PROVE  PassageInvariant'
<1>1. SeedKeys' = SeedKeys
  BY DEF SeedKeys
<1>2. \A s \in SeedKeys : passage'[s] = {}
  BY DEF PassageInvariant, PassagesStand
<1>3. PassagesStand'
  BY <1>1, <1>2 DEF PassagesStand
<1> QED  BY <1>3 DEF PassageInvariant

LEMMA PassageStep ==
    ASSUME ExpansionInvariant, PassageInvariant, [Next]_vars
    PROVE  PassageInvariant'
<1> USE DEF PassageInvariant
<1>0. /\ chunk' = chunk /\ seeds' = seeds /\ SeedKeys' = SeedKeys /\ Keys' = Keys
      /\ \A p, q : SameKey(p, q)' = SameKey(p, q)
  BY DEF Next, DocumentVanishes, OrderedIds, Assign, AllAssigned, StitchAll, vars, SeedKeys,
         Keys, SameKey
<1>1. ASSUME NEW d, DocumentVanishes(d) PROVE PassageInvariant'
  <2>1. DocumentsWhole'
    BY <1>0, <1>1 DEF DocumentVanishes, DocumentsWhole
  <2>2. ListedWhole' /\ WindowUsed'
    BY <1>0, <1>1 DEF DocumentVanishes, ListedWhole, WindowUsed
  <2> QED  BY <1>0, <1>1, <2>1, <2>2, BeforePassages DEF DocumentVanishes
<1>2. CASE OrderedIds
  <2>1. DocumentsWhole'
    BY <1>0, <1>2 DEF OrderedIds, DocumentsWhole
  <2>2. ListedWhole'
    <3>1. CASE listed' = listed
      BY <1>0, <3>1 DEF ListedWhole
    <3>2. CASE listed' = {p \in live : \E s \in SeedKeys :
                             SameKey(p, s) /\ chunk[s].chunk_type \notin NonExpanding}
      BY <1>0, <3>2 DEF ListedWhole, DocumentsWhole, SameKey
    <3> QED  BY <1>2, <3>1, <3>2 DEF OrderedIds
  <2>3. WindowUsed'
    BY <1>0, <1>2 DEF OrderedIds, WindowUsed
  <2> QED  BY <1>0, <1>2, <2>1, <2>2, <2>3, BeforePassages DEF OrderedIds
<1>3. CASE Assign
  <2>1. DocumentsWhole' /\ ListedWhole'
    BY <1>0, <1>3 DEF Assign, DocumentsWhole, ListedWhole
  <2>2. WindowUsed'
    BY <1>0, <1>3 DEF Assign, WindowUsed
  <2> QED  BY <1>0, <1>3, <2>1, <2>2, BeforePassages DEF Assign
<1>4. CASE AllAssigned
  <2>1. DocumentsWhole' /\ ListedWhole' /\ WindowUsed'
    BY <1>0, <1>4 DEF AllAssigned, DocumentsWhole, ListedWhole, WindowUsed
  <2> QED  BY <1>0, <1>4, <2>1, BeforePassages DEF AllAssigned
<1>5. CASE StitchAll
  <2>1. DocumentsWhole' /\ ListedWhole' /\ WindowUsed'
    BY <1>0, <1>5 DEF StitchAll, DocumentsWhole, ListedWhole, WindowUsed
  <2>2. ASSUME NEW s \in SeedKeys, passage'[s] # {}
        PROVE  assignment[s] # {} /\ passage'[s] = Stitch({s} \cup assignment[s])
    <3> DEFINE survivors == assignment[s] \cap live
    <3>1. passage'[s] = IF survivors = {} THEN {} ELSE Stitch({s} \cup survivors)
      BY <1>5 DEF StitchAll
    <3>2. PICK p \in assignment[s] : p \in live
      BY <2>2, <3>1
    <3>3. assignment[s] \subseteq Wanted(s) /\ assignment[s] \subseteq Keys
      BY AssignedIsWanted DEF ExpansionInvariant, TypeOK
    <3>4. \A q \in assignment[s] : SameKey(q, s)
      BY <3>3, WantedType
    <3>5. assignment[s] \subseteq live
      BY <3>2, <3>3, <3>4 DEF SameKey, DocumentsWhole
    <3>6. survivors = assignment[s]
      BY <3>5
    <3> QED  BY <2>2, <3>1, <3>6
  <2>3. PassagesStand'
    <3>1. assignment' = assignment /\ step' = "done"
      BY <1>5 DEF StitchAll
    <3> QED  BY <1>0, <2>2, <3>1, StitchOfChunks DEF PassagesStand
  <2> QED  BY <2>1, <2>3
<1>6. CASE UNCHANGED vars
  <2>1. DocumentsWhole' /\ ListedWhole' /\ WindowUsed'
    BY <1>0, <1>6 DEF vars, DocumentsWhole, ListedWhole, WindowUsed
  <2>2. PassagesStand'
    BY <1>0, <1>6, StitchOfChunks DEF vars, PassagesStand
  <2> QED  BY <2>1, <2>2
<1> QED  BY <1>1, <1>2, <1>3, <1>4, <1>5, <1>6 DEF Next

\* At a window of 1 nothing of a document and type lies between a seed and a chunk it
\* wants: that one would take the only place within the window.
LEMMA NothingBetween ==
    ASSUME ExpansionInvariant, PassageInvariant, Window = 1,
           NEW s \in Keys, NEW p \in Wanted(s), NEW r \in Keys, SameKey(r, s)
    PROVE  ~ (p < r /\ r < s) /\ ~ (s < r /\ r < p)
<1> DEFINE Near == {q \in listed : /\ SameKey(q, s)
                                   /\ (p <= q /\ q < s) \/ (s < q /\ q <= p)}
<1>1. /\ p \in listed /\ p # s /\ SameKey(p, s) /\ Cardinality(Near) <= 1
      /\ listed \subseteq Keys /\ Keys \in SUBSET Nat /\ TypeOK
  BY RowTypes DEF Wanted, ExpansionInvariant, TypeOK
<1>2. r \in listed
  BY <1>1 DEF SameKey, PassageInvariant, ListedWhole
<1>3. IsFiniteSet(Near)
  <2>1. chunk \in Seq(DocumentChunk)
    BY <1>1, CorporaAssumption DEF TypeOK
  <2>2. Len(chunk) \in Nat /\ Keys = 1 .. Len(chunk) /\ IsFiniteSet(1 .. Len(chunk))
    BY <2>1, FS_Interval DEF Keys
  <2>3. Near \subseteq 1 .. Len(chunk)
    BY <1>1, <2>2
  <2> QED  BY <2>2, <2>3, FS_Subset
<1>4. SUFFICES ASSUME (p < r /\ r < s) \/ (s < r /\ r < p) PROVE FALSE
  OBVIOUS
<1>5. {p, r} \subseteq Near /\ p # r
  BY <1>1, <1>2, <1>4
<1>6. Cardinality({p, r}) = 2
  <2>1. {p, r} = {p} \cup {r} /\ IsFiniteSet({p}) /\ Cardinality({p}) = 1
    BY FS_Singleton
  <2> QED  BY <1>5, <2>1, FS_AddElement
<1>7. Cardinality({p, r}) <= Cardinality(Near) /\ Cardinality(Near) \in Nat
  BY <1>3, <1>5, FS_Subset, FS_CardinalityType
<1> QED  BY <1>1, <1>6, <1>7

\* The pieces of a seed are rows that follow each other, so that those which look like
\* one block's are.
LEMMA PiecesFollow ==
    ASSUME ExpansionInvariant, PassageInvariant, Window = 1, NEW s \in SeedKeys,
           NEW P, P = {s} \cup assignment[s]
    PROVE  /\ P \in SUBSET Keys
           /\ \A p \in P : SameKey(p, s)
           /\ \A q, p \in P : Before(q, p, P) => Follows(chunk, q, p)
           /\ OfOneBlock(P)
<1>1. /\ s \in Keys /\ assignment[s] \subseteq Wanted(s) /\ assignment[s] \subseteq Keys
      /\ Keys \in SUBSET Nat /\ WellCut(chunk) /\ TypeOK
  BY AssignedIsWanted, RowTypes DEF ExpansionInvariant, TypeOK
<1>2. P \in SUBSET Keys /\ P \in SUBSET Nat
  BY <1>1
<1>3. \A p \in P : SameKey(p, s)
  BY <1>1, WantedType DEF SameKey
<1>4. ASSUME NEW q \in P, NEW p \in P, Before(q, p, P) PROVE Follows(chunk, q, p)
  <2>1. q < p /\ \A x \in P : ~ (q < x /\ x < p)
    BY <1>4 DEF Before
  <2>2. ASSUME NEW r \in Keys, SameKey(r, s), q < r, r < p PROVE FALSE
    <3>1. CASE q = s
      BY <1>1, <2>1, <2>2, <3>1, NothingBetween
    <3>2. CASE p = s
      BY <1>1, <2>1, <2>2, <3>2, NothingBetween
    <3>3. CASE q # s /\ p # s
      <4>1. q \in Wanted(s) /\ p \in Wanted(s) /\ p \in Keys /\ q \in Keys
        BY <1>1, <3>3
      <4>2. (q < p /\ p < s) \/ (s < q /\ q < p)
        BY <1>1, <1>2, <2>1, <3>3
      <4>3. CASE q < p /\ p < s
        BY <1>1, <1>3, <4>1, <4>3, NothingBetween
      <4>4. CASE s < q /\ q < p
        BY <1>1, <1>3, <4>1, <4>4, NothingBetween
      <4> QED  BY <4>2, <4>3, <4>4
    <3> QED  BY <3>1, <3>2, <3>3
  <2>3. SameRun(chunk, q, p)
    BY <1>3 DEF SameKey, SameRun
  <2>4. \A r \in DOMAIN chunk : q < r /\ r < p => ~ SameRun(chunk, q, r)
    BY <1>3, <2>2 DEF SameKey, SameRun, Keys
  <2> QED  BY <2>1, <2>3, <2>4 DEF Follows
<1>5. OfOneBlock(P)
  <2> SUFFICES ASSUME NEW q \in P, NEW p \in P, Continues(q, p, P)
               PROVE  chunk[q].block = chunk[p].block
    BY DEF OfOneBlock
  <2>1. Follows(chunk, q, p) /\ LooksNext(chunk, q, p)
    BY <1>4 DEF Continues, SameBlock, LooksNext
  <2> QED  BY <1>1, <1>2, <2>1 DEF WellCut, Keys
<1> QED  BY <1>2, <1>3, <1>4, <1>5

\* The invariant of the passages.
THEOREM PassageInvariantHolds == Spec => []PassageInvariant
<1>1. Init => PassageInvariant
  BY DEF Init, PassageInvariant, DocumentsWhole, ListedWhole, WindowUsed, PassagesStand
<1> QED  BY <1>1, PassageStep, ExpansionInvariantHolds, PTL DEF Spec

\* What is put before the model for a seed has every word of the pieces once, in
\* paragraphs that are uninterrupted parts of one block: for every table that chunking
\* writes and every search, whatever goes away meanwhile, at a window of 1 (or none).
THEOREM PassagesAreExact ==
    ASSUME Window \in {0, 1}
    PROVE  Spec => []PassageIsExact
<1>1. ExpansionInvariant /\ PassageInvariant => PassageIsExact
  <2> SUFFICES ASSUME ExpansionInvariant, PassageInvariant,
                      NEW s \in SeedKeys, passage[s] # {},
                      NEW P, P = {s} \cup assignment[s]
               PROVE  /\ UNION passage[s] = UNION {Content(p) : p \in P}
                      /\ \A paragraph \in passage[s] : Uninterrupted(paragraph)
                      /\ \A p, q \in P :
                           /\ chunk[p].block = chunk[q].block
                           /\ chunk[p].has_offsets /\ chunk[q].has_offsets
                           /\ chunk[q].chunk_index = chunk[p].chunk_index + 1
                           => \E paragraph \in passage[s] :
                                  Content(p) \cup Content(q) \subseteq paragraph
    BY DEF PassageIsExact
  <2>1. Window = 1 /\ passage[s] = Stitch(P) /\ TypeOK
    BY DEF PassageInvariant, PassagesStand, WindowUsed, ExpansionInvariant
  <2>2. /\ P \in SUBSET Keys /\ OfOneBlock(P)
        /\ \A p \in P : SameKey(p, s)
    BY <2>1, PiecesFollow
  <2>3. UNION passage[s] = UNION {Content(p) : p \in P}
    BY <2>1, <2>2, StitchKeepsWords
  <2>4. ASSUME NEW paragraph \in Stitch(P) PROVE Uninterrupted(paragraph)
    <3>1. PICK p \in P : StartsParagraph(p, P) /\ paragraph = Paragraph(p, P)
      BY DEF Stitch
    <3>2. PICK last \in Followers(p, P) :
            /\ \A q \in Followers(p, P) : chunk[q].word_end <= chunk[last].word_end
            /\ Paragraph(p, P) =
                  {<<chunk[p].block, w>> : w \in chunk[p].word_start .. chunk[last].word_end - 1}
      BY <2>1, <2>2, <3>1, ParagraphIsInterval
    <3>3. p \in Followers(p, P) /\ last \in P
      BY <2>1, <2>2, RowTypes DEF Followers
    <3>4. /\ chunk[p].word_start \in Nat /\ chunk[last].word_end \in Nat
          /\ chunk[p].word_end \in Nat /\ chunk[p].word_start < chunk[p].word_end
      BY <2>1, <2>2, <3>3, RowTypes
    <3>5. chunk[p].word_end <= chunk[last].word_end
      BY <3>2, <3>3
    <3>6. chunk[p].word_start < chunk[last].word_end
      BY <3>4, <3>5
    <3>7. Uninterrupted({<<chunk[p].block, w>> :
                            w \in chunk[p].word_start .. chunk[last].word_end - 1})
      BY <3>4, <3>6, IntervalIsUninterrupted
    <3> QED  BY <3>1, <3>2, <3>7
  <2>5. ASSUME NEW p \in P, NEW q \in P, IsNext(chunk, p, q)
        PROVE  \E paragraph \in passage[s] : Content(p) \cup Content(q) \subseteq paragraph
    <3>1. /\ Follows(chunk, p, q) /\ LooksNext(chunk, p, q)
          /\ chunk[p].word_end <= chunk[q].word_end
      BY <2>1, <2>2, <2>5, RowTypes DEF WellCut, Keys
    <3>2. \A r \in P : SameRun(chunk, p, r) /\ r \in DOMAIN chunk
      BY <2>2 DEF SameKey, SameRun, Keys
    <3>3. Continues(p, q, P)
      BY <3>1, <3>2 DEF Continues, Before, Follows, LooksNext, SameBlock
    <3>4. PICK paragraph \in Stitch(P) : Content(p) \cup Content(q) \subseteq paragraph
      BY <2>1, <2>2, <3>3, StitchJoins
    <3> QED  BY <2>1, <3>4
  <2>6. \A p, q \in P :
          /\ chunk[p].block = chunk[q].block
          /\ chunk[p].has_offsets /\ chunk[q].has_offsets
          /\ chunk[q].chunk_index = chunk[p].chunk_index + 1
          => \E paragraph \in passage[s] : Content(p) \cup Content(q) \subseteq paragraph
    BY <2>5 DEF IsNext
  <2>7. \A paragraph \in passage[s] : Uninterrupted(paragraph)
    BY <2>1, <2>4
  <2> QED  BY <2>3, <2>6, <2>7
<1> QED  BY <1>1, ExpansionInvariantHolds, PassageInvariantHolds, PTL
----------------------------------------------------------------------------
(* What is read in the end. *)

\* As long as no document went away, all that a seed may want is listed, and what seeds
\* were assigned is in their passages.
AllListed ==
    step # "list" /\ live = Keys /\ Window # 0 =>
        \A s \in SeedKeys, p \in Keys :
            SameKey(p, s) /\ chunk[s].chunk_type \notin NonExpanding => p \in listed

AllRanked == step \in {"load", "done"} /\ Window # 0 => rank > Len(seeds)

PassagesMade ==
    step = "done" /\ live = Keys =>
        \A s \in SeedKeys :
            assignment[s] # {} => passage[s] = Stitch({s} \cup assignment[s])

ReadInvariant == AllListed /\ AllRanked /\ PassagesMade

\* No seed has neighbours while no seed had its turn.
LEMMA NothingAssignedYet ==
    ASSUME ExpansionInvariant, rank = 1, NEW s \in SeedKeys
    PROVE  assignment[s] = {}
<1>1. PICK i \in 1 .. Len(seeds) : s = seeds[i]
  BY DEF SeedKeys
<1>2. i >= rank
  OBVIOUS
<1> QED  BY <1>1, <1>2 DEF ExpansionInvariant, NothingAhead

LEMMA ReadStep ==
    ASSUME ExpansionInvariant, ReadInvariant, [Next]_vars
    PROVE  ReadInvariant'
<1> USE DEF ReadInvariant
<1>0. /\ chunk' = chunk /\ seeds' = seeds /\ SeedKeys' = SeedKeys /\ Keys' = Keys
      /\ \A p, q : SameKey(p, q)' = SameKey(p, q)
      /\ live' = Keys' => live = Keys
  BY DEF Next, DocumentVanishes, OrderedIds, Assign, AllAssigned, StitchAll, vars, SeedKeys,
         Keys, SameKey, ExpansionInvariant, TypeOK
<1>1. ASSUME NEW d, DocumentVanishes(d) PROVE ReadInvariant'
  BY <1>0, <1>1 DEF DocumentVanishes, AllListed, AllRanked, PassagesMade
<1>2. CASE OrderedIds
  <2>1. step = "list" /\ rank' = rank /\ rank = 1 /\ live' = live
        /\ assignment' = assignment
    BY <1>2 DEF OrderedIds, ExpansionInvariant, NothingAhead
  <2>2. CASE Window = 0 \/ seeds = <<>>
    <3>1. seeds = <<>> => SeedKeys = {} /\ Len(seeds) = 0
      BY DEF SeedKeys
    <3>2. PassagesMade'
      BY <1>0, <2>1, NothingAssignedYet DEF PassagesMade
    <3> QED  BY <1>0, <2>1, <2>2, <3>1, <3>2 DEF AllListed, AllRanked
  <2>3. CASE ~ (Window = 0 \/ seeds = <<>>)
    <3>1. /\ step' = "assign"
          /\ listed' = {p \in live : \E s \in SeedKeys :
                             SameKey(p, s) /\ chunk[s].chunk_type \notin NonExpanding}
      BY <1>2, <2>3 DEF OrderedIds
    <3> QED  BY <1>0, <2>1, <3>1 DEF AllListed, AllRanked, PassagesMade
  <2> QED  BY <2>2, <2>3
<1>3. CASE Assign
  BY <1>0, <1>3 DEF Assign, AllListed, AllRanked, PassagesMade
<1>4. CASE AllAssigned
  <2>1. /\ UNCHANGED <<live, rank, listed, assignment>> /\ rank > Len(seeds) /\ step = "assign"
        /\ step' = "done" => \A s \in SeedKeys : assignment[s] = {}
    BY <1>4 DEF AllAssigned
  <2> QED  BY <1>0, <2>1 DEF AllListed, AllRanked, PassagesMade
<1>5. CASE StitchAll
  <2>1. AllListed' /\ AllRanked'
    BY <1>0, <1>5 DEF StitchAll, AllListed, AllRanked
  <2>2. ASSUME live' = Keys', NEW s \in SeedKeys, assignment[s] # {}
        PROVE  passage'[s] = Stitch({s} \cup assignment[s])
    <3>1. assignment[s] \cap live = assignment[s]
      BY <1>0, <2>2 DEF ExpansionInvariant, TypeOK
    <3> QED  BY <1>5, <2>2, <3>1 DEF StitchAll
  <2>3. PassagesMade'
    <3>1. assignment' = assignment
      BY <1>5 DEF StitchAll
    <3> QED  BY <1>0, <2>2, <3>1, StitchOfChunks DEF PassagesMade
  <2> QED  BY <2>1, <2>3
<1>6. CASE UNCHANGED vars
  <2>1. AllListed' /\ AllRanked'
    BY <1>0, <1>6 DEF vars, AllListed, AllRanked
  <2>2. PassagesMade'
    BY <1>0, <1>6, StitchOfChunks DEF vars, PassagesMade
  <2> QED  BY <2>1, <2>2
<1> QED  BY <1>1, <1>2, <1>3, <1>4, <1>5, <1>6 DEF Next

\* If no document goes away, every neighbour is listed, every seed had its turn when the
\* ranks are through, and each passage is the stitching of its seed and what it was given.
THEOREM ReadInvariantHolds == Spec => []ReadInvariant
<1>1. Init => ReadInvariant
  BY DEF Init, ReadInvariant, AllListed, AllRanked, PassagesMade
<1> QED  BY <1>1, ReadStep, ExpansionInvariantHolds, PTL DEF Spec

\* The chunk before a seed, or after it, is the nearest to it.
LEMMA NextIsWanted ==
    ASSUME TypeOK, Window = 1, NEW s \in Keys, NEW p \in Keys, p \in listed,
           Follows(chunk, s, p) \/ Follows(chunk, p, s)
    PROVE  p \in Wanted(s)
<1> DEFINE Near == {q \in listed : /\ SameKey(q, s)
                                   /\ (p <= q /\ q < s) \/ (s < q /\ q <= p)}
<1>1. Keys \in SUBSET Nat /\ listed \subseteq Keys
  BY RowTypes DEF TypeOK
<1>2. SameKey(p, s) /\ p # s
  BY <1>1 DEF Follows, SameRun, SameKey
<1>3. \A q \in Near : q = p
  BY <1>1 DEF Follows, SameRun, SameKey, Keys
<1>4. p \in Near
  BY <1>1, <1>2
<1>5. Near = {p}
  BY <1>3, <1>4
<1>6. Cardinality(Near) <= Window
  BY <1>5, FS_Singleton
<1> QED  BY <1>2, <1>6 DEF Wanted

\* In the end a seed and the chunks assigned to it are read, whole.
LEMMA PiecesAreRead ==
    ASSUME ExpansionInvariant, PassageInvariant, ReadInvariant, Window = 1,
           step = "done", live = Keys, NEW t \in SeedKeys, NEW p \in {t} \cup assignment[t]
    PROVE  \E paragraph \in Read(t) : Content(p) \subseteq paragraph
<1> DEFINE P == {t} \cup assignment[t]
<1>1. P \in SUBSET Keys /\ OfOneBlock(P) /\ p \in P /\ TypeOK
  BY PiecesFollow DEF ExpansionInvariant
<1>2. PICK paragraph \in Stitch(P) : Content(p) \subseteq paragraph
  BY <1>1, StitchHoldsPieces
<1>3. CASE passage[t] # {}
  <2>1. passage[t] = Stitch(P)
    BY <1>3 DEF PassageInvariant, PassagesStand
  <2> QED  BY <1>2, <1>3, <2>1 DEF Read
<1>4. CASE passage[t] = {}
  <2>1. assignment[t] # {} => Stitch(P) = {}
    BY <1>4 DEF ReadInvariant, PassagesMade
  <2>2. p = t
    BY <1>2, <2>1
  <2> QED  BY <1>4, <2>2 DEF Read
<1> QED  BY <1>3, <1>4

\* A chunk that was found brings the chunks beside it before the model, for every table
\* that chunking writes and every search, at a window of 1.
THEOREM FoundChunksBringNeighbors ==
    ASSUME Window = 1
    PROVE  Spec => []NeighborsAreRead
<1>1. ExpansionInvariant /\ PassageInvariant /\ ReadInvariant => NeighborsAreRead
  <2> SUFFICES ASSUME ExpansionInvariant, PassageInvariant, ReadInvariant,
                      step = "done", live = Keys, NEW s \in SeedKeys, NEW p \in Keys,
                      chunk[s].chunk_type \notin NonExpanding,
                      Follows(chunk, s, p) \/ Follows(chunk, p, s)
               PROVE  \E t \in SeedKeys : \E paragraph \in Read(t) : Content(p) \subseteq paragraph
    BY DEF NeighborsAreRead
  <2>1. /\ TypeOK /\ s \in Keys /\ listed \subseteq Keys
        /\ \A t \in SeedKeys : t \in Keys /\ assignment[t] \subseteq Keys
    BY AssignedIsWanted DEF ExpansionInvariant, TypeOK
  <2>2. SameKey(p, s) /\ SameKey(s, s)
    BY DEF Follows, SameRun, SameKey
  <2>3. p \in listed /\ s \in listed
    BY <2>1, <2>2 DEF ReadInvariant, AllListed
  <2>4. p \in Wanted(s)
    BY <2>1, <2>3, NextIsWanted
  <2>5. ASSUME NEW t \in SeedKeys, p \in {t} \cup assignment[t]
        PROVE  \E paragraph \in Read(t) : Content(p) \subseteq paragraph
    BY <2>5, PiecesAreRead
  <2>6. p \in SeedKeys \/ \E t \in SeedKeys : p \in assignment[t]
    <3>1. PICK i \in 1 .. Len(seeds) : s = seeds[i]
      BY DEF SeedKeys
    <3>2. Len(seeds) \in Nat /\ rank \in Nat /\ rank > Len(seeds)
      BY <2>1 DEF TypeOK, ReadInvariant, AllRanked
    <3>3. i < rank
      BY <3>2
    <3>4. \A x \in Wanted(seeds[i]) \ SeedKeys : \E j \in 1 .. i : x \in assignment[seeds[j]]
      BY <2>3, <3>1, <3>3 DEF ExpansionInvariant, RankWins
    <3>5. \A j \in 1 .. i : seeds[j] \in SeedKeys
      BY <3>2 DEF SeedKeys
    <3> QED  BY <2>4, <3>1, <3>4, <3>5
  <2> QED  BY <2>5, <2>6
<1> QED
  BY <1>1, ExpansionInvariantHolds, PassageInvariantHolds, ReadInvariantHolds, PTL

\* A claim of the golden dataset that a search finds is read with its qualifier, however
\* many chunks it finds and however it ranks them, at a window of 1: from where chunking
\* puts the sentences (FactsAssumption), which TLC computes.
THEOREM FoundClaimsBringQualifiers ==
    ASSUME Window = 1
    PROVE  Spec => []QualifierFollowsClaim
<1>1. /\ ExpansionInvariant /\ PassageInvariant /\ ReadInvariant /\ NeighborsAreRead
      => QualifierFollowsClaim
  <2> SUFFICES ASSUME ExpansionInvariant, PassageInvariant, ReadInvariant, NeighborsAreRead,
                      step = "done", live = Keys,
                      NEW f \in Facts, chunk = f.corpus, Found(f.claim)
               PROVE  Reads(f.qualifier)
    BY DEF QualifierFollowsClaim
  <2>1. \A p \in Keys : WordsOf(f.corpus, p) = Content(p)
    BY DEF WordsOf, Content
  <2>2. PICK s \in SeedKeys : f.claim \subseteq Content(s)
    BY DEF Found
  <2>3. s \in Keys
    BY DEF ExpansionInvariant, TypeOK, SeedKeys
  <2>4. PICK p \in Keys :
          /\ p = s \/ Follows(chunk, s, p) \/ Follows(chunk, p, s)
          /\ f.qualifier \subseteq Content(p)
    BY <2>1, <2>2, <2>3, FactsAssumption DEF Keys
  <2>5. chunk[s].chunk_type \notin NonExpanding
    BY <2>1, <2>2, <2>3, FactsAssumption DEF Keys
  <2>6. CASE p = s
    <3>1. \E paragraph \in Read(s) : Content(s) \subseteq paragraph
      BY PiecesAreRead
    <3> QED  BY <2>4, <2>6, <3>1 DEF Reads
  <2>7. CASE p # s
    <3>1. \E t \in SeedKeys : \E paragraph \in Read(t) : Content(p) \subseteq paragraph
      BY <2>4, <2>5, <2>7 DEF NeighborsAreRead
    <3> QED  BY <2>4, <3>1 DEF Reads
  <2> QED  BY <2>6, <2>7
<1> QED
  BY <1>1, ExpansionInvariantHolds, PassageInvariantHolds, ReadInvariantHolds,
     FoundChunksBringNeighbors, PTL
=============================================================================
