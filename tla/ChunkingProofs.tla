--------------------------- MODULE ChunkingProofs ---------------------------
(* What chunking promises for every text and every setting of its service, and *)
(* what the pipeline around it promises for every PDF and every batch size.     *)
EXTENDS DocumentPayloads, FiniteSetTheorems, TLAPS

\* An iteration moves on by a word at least and by a chunk at most.
LEMMA StepBounds ==
    ASSUME NEW s \in [max_words : Nat \ {0}, overlap_words : Nat]
    PROVE  /\ Step(s) \in Nat
           /\ 1 <= Step(s)
           /\ Step(s) <= s.max_words
           /\ s.overlap_words < s.max_words => Step(s) = s.max_words - s.overlap_words
BY DEF Step

\* A chunk has a word at least, and ends with the text or far enough from its end.
LEMMA EndBounds ==
    ASSUME NEW s \in [max_words : Nat \ {0}, overlap_words : Nat],
           NEW n \in Nat, NEW b \in Nat, b < n
    PROVE  /\ End(s, n, b) \in Nat
           /\ b < End(s, n, b)
           /\ End(s, n, b) <= n
           /\ End(s, n, b) >= n => End(s, n, b) = n /\ n <= b + s.max_words + s.overlap_words
           /\ ~ End(s, n, b) >= n =>
                /\ End(s, n, b) = b + s.max_words
                /\ b + s.max_words + s.overlap_words < n
BY DEF End

\* The invariant after an iteration.
LEMMA AppendChunkStep ==
    ASSUME ChunkInvariant, AppendChunk
    PROVE  ChunkInvariant'
<1> DEFINE n == Len(chunks)
           c == Chunk(service, num_words, start)
           e == End(service, num_words, start)
<1>1. /\ service \in [max_words : Nat \ {0}, overlap_words : Nat]
      /\ num_words \in Nat /\ start \in Nat /\ chunks \in Seq(WordChunk)
      /\ returned = FALSE /\ start < num_words
      /\ service' = service /\ num_words' = num_words
      /\ n \in Nat
  BY DEF ChunkInvariant, TypeOK, AppendChunk
<1>2. /\ e \in Nat /\ start < e /\ e <= num_words
      /\ e >= num_words =>
           e = num_words
             /\ num_words <= start + service.max_words + service.overlap_words
      /\ ~ e >= num_words =>
           e = start + service.max_words
             /\ start + service.max_words + service.overlap_words < num_words
  BY <1>1, EndBounds
<1>3. c \in WordChunk /\ c.word_start = start /\ c.word_end = e
  BY <1>1, <1>2 DEF Chunk, WordChunk
<1>4. /\ chunks' \in Seq(WordChunk) /\ Len(chunks') = n + 1 /\ chunks' # <<>>
      /\ chunks'[n + 1] = c
      /\ \A i \in 1 .. n : chunks'[i] = chunks[i]
  BY <1>1, <1>3 DEF AppendChunk
<1>5. \A i \in 1 .. n :
        /\ chunks[i].word_start \in Nat /\ chunks[i].word_end \in Nat
        /\ chunks[i].word_start < num_words /\ Plain(chunks[i])
  <2> SUFFICES ASSUME NEW i \in 1 .. n
               PROVE  /\ chunks[i].word_start \in Nat /\ chunks[i].word_end \in Nat
                      /\ chunks[i].word_start < num_words /\ Plain(chunks[i])
    OBVIOUS
  <2>1. chunks[i] \in WordChunk
    BY <1>1
  <2>2. chunks[i].word_start < num_words /\ Plain(chunks[i])
    BY <1>1 DEF ChunkInvariant
  <2> QED  BY <2>1, <2>2 DEF WordChunk
<1>6. IF e >= num_words THEN returned' = TRUE /\ start' = start
      ELSE start' = start + Step(service) /\ returned' = FALSE
  BY <1>1 DEF AppendChunk
<1>7. /\ Step(service) \in Nat /\ 1 <= Step(service) /\ Step(service) <= service.max_words
      /\ service.overlap_words < service.max_words =>
           Step(service) = service.max_words - service.overlap_words
  BY <1>1, StepBounds
<1>8. TypeOK'
  <2>1. CASE e >= num_words
    BY <1>1, <1>4, <1>6, <2>1 DEF TypeOK
  <2>2. CASE ~ e >= num_words
    <3>1. start' \in Nat
      BY <1>1, <1>6, <1>7, <2>2
    <3> QED  BY <1>1, <1>4, <1>6, <2>2, <3>1 DEF TypeOK
  <2> QED  BY <2>1, <2>2
<1>9. ChunksStitch'
  <2> SUFFICES ASSUME NEW i \in 1 .. n
               PROVE  /\ chunks'[i].word_start < chunks'[i + 1].word_start
                      /\ chunks'[i + 1].word_start <= chunks'[i].word_end
                      /\ chunks'[i].word_end <= chunks'[i + 1].word_end
                      /\ service.overlap_words < service.max_words =>
                           chunks'[i].word_end =
                             chunks'[i + 1].word_start + service.overlap_words
    BY <1>1, <1>4 DEF ChunksStitch
  <2>1. CASE i < n
    <3>1. chunks'[i] = chunks[i] /\ chunks'[i + 1] = chunks[i + 1]
      BY <1>1, <1>4, <2>1
    <3> QED  BY <1>1, <2>1, <3>1 DEF ChunkInvariant, ChunksStitch
  <2>2. CASE i = n
    <3>1. chunks'[i] = chunks[n] /\ chunks'[i + 1] = c
      BY <1>1, <1>4, <2>2
    <3>2. chunks # <<>>
      BY <1>1, <2>2
    <3>3. start = chunks[n].word_start + Step(service)
      BY <1>1, <3>2 DEF ChunkInvariant, Growing
    <3>4. /\ chunks[n].word_end = chunks[n].word_start + service.max_words
          /\ chunks[n].word_end + service.overlap_words < num_words
          /\ chunks[n].word_start \in Nat
      BY <1>5, <2>2 DEF Plain
    <3>5. chunks[n].word_end <= e
      BY <1>1, <1>2, <1>7, <3>3, <3>4
    <3>6. /\ chunks[n].word_start < start
          /\ start <= chunks[n].word_end
          /\ service.overlap_words < service.max_words =>
               chunks[n].word_end = start + service.overlap_words
      <4>1. service.max_words \in Nat /\ service.overlap_words \in Nat
        BY <1>1
      <4> HIDE DEF n
      <4> QED  BY <1>7, <3>3, <3>4, <4>1
    <3> QED  BY <1>3, <3>1, <3>5, <3>6
  <2> QED  BY <1>1, <2>1, <2>2
<1>10. n <= start /\ Len(chunks') <= num_words'
  BY <1>1, <1>4 DEF ChunkInvariant, Growing
<1>11. \A w \in Nat : w < e => Covered(w)'
  <2> SUFFICES ASSUME NEW w \in Nat, w < e
               PROVE  \E i \in 1 .. n + 1 :
                        chunks'[i].word_start <= w /\ w < chunks'[i].word_end
    BY <1>4 DEF Covered
  <2>1. CASE w < start
    <3>1. PICK i \in 1 .. n : chunks[i].word_start <= w /\ w < chunks[i].word_end
      BY <1>1, <2>1 DEF ChunkInvariant, Growing, Covered
    <3>2. i \in 1 .. n + 1 /\ chunks'[i] = chunks[i]
      BY <1>1, <1>4
    <3> QED  BY <3>1, <3>2, Zenon
  <2>2. CASE ~ w < start
    <3>1. start <= w
      BY <1>1, <2>2
    <3>2. n + 1 \in 1 .. n + 1
      BY <1>1
    <3> QED  BY <1>3, <1>4, <3>1, <3>2
  <2> QED  BY <2>1, <2>2
<1>12. Growing'
  <2>1. CASE e >= num_words
    BY <1>6, <2>1 DEF Growing
  <2>2. CASE ~ e >= num_words
    <3>1. /\ start' = start + Step(service) /\ start' \in Nat
          /\ start' <= e /\ start' < num_words
      BY <1>1, <1>2, <1>6, <1>7, <2>2
    <3>2. Len(chunks') <= start'
      BY <1>1, <1>4, <1>6, <1>7, <1>10, <2>2
    <3>3. start' = chunks'[Len(chunks')].word_start + Step(service')
      BY <1>1, <1>3, <1>4, <3>1
    <3>4. \A w \in Nat : w < start' => Covered(w)'
      BY <1>2, <1>11, <3>1
    <3> QED  BY <1>1, <1>4, <3>1, <3>2, <3>3, <3>4 DEF Growing
  <2> QED  BY <2>1, <2>2
<1>13. Finished'
  <2>1. CASE e >= num_words
    <3>1. e = num_words' /\ \A w \in Nat : w < num_words' => Covered(w)'
      BY <1>1, <1>2, <1>11, <2>1
    <3>2. /\ chunks'[Len(chunks')].word_end = num_words'
          /\ num_words' <= chunks'[Len(chunks')].word_start
                             + service'.max_words + service'.overlap_words
      BY <1>1, <1>2, <1>3, <1>4, <2>1
    <3> QED  BY <3>1, <3>2 DEF Finished
  <2>2. CASE ~ e >= num_words
    BY <1>6, <2>2 DEF Finished
  <2> QED  BY <2>1, <2>2
<1>14. (\A i \in 1 .. Len(chunks) :
          /\ chunks[i].word_start < num_words
          /\ ~ returned \/ i < Len(chunks) => Plain(chunks[i]))'
  <2> SUFFICES ASSUME NEW i \in 1 .. n + 1
               PROVE  /\ chunks'[i].word_start < num_words
                      /\ ~ returned' \/ i < n + 1 =>
                           /\ chunks'[i].word_end = chunks'[i].word_start + service.max_words
                           /\ chunks'[i].word_end + service.overlap_words < num_words
    BY <1>1, <1>4 DEF Plain
  <2>1. CASE i \in 1 .. n
    BY <1>4, <1>5, <2>1 DEF Plain
  <2>2. CASE i = n + 1
    BY <1>1, <1>2, <1>3, <1>4, <1>6, <2>2
  <2> QED  BY <1>1, <2>1, <2>2
<1> QED
  BY <1>4, <1>8, <1>9, <1>10, <1>12, <1>13, <1>14 DEF ChunkInvariant

\* The invariant holds of every step of the loop.
THEOREM ChunkInvariantHolds == Spec => []ChunkInvariant
<1>1. Init => ChunkInvariant
  <2> SUFFICES ASSUME Init PROVE ChunkInvariant  OBVIOUS
  <2>1. TypeOK
    <3>1. service \in [max_words : Nat \ {0}, overlap_words : Nat]
      BY ServicesAssumption DEF Init
    <3>2. num_words \in Nat
      BY LengthsAssumption DEF Init
    <3>3. chunks \in Seq(WordChunk)
      BY DEF Init
    <3> QED  BY <3>1, <3>2, <3>3 DEF Init, TypeOK
  <2>2. chunks = <<>> /\ Len(chunks) = 0 /\ start = 0 /\ ~ returned /\ num_words \in Nat
    BY <2>1 DEF Init, TypeOK
  <2>3. ChunksStitch /\ Growing /\ Finished
    BY <2>2 DEF ChunksStitch, Growing, Finished
  <2> QED  BY <2>1, <2>2, <2>3 DEF ChunkInvariant
<1>2. ChunkInvariant /\ [Next]_vars => ChunkInvariant'
  <2> SUFFICES ASSUME ChunkInvariant, [Next]_vars PROVE ChunkInvariant'  OBVIOUS
  <2>1. CASE AppendChunk
    BY <2>1, AppendChunkStep
  <2>2. CASE LoopEnds
    <3>1. /\ num_words \in Nat /\ start \in Nat /\ start >= num_words /\ ~ returned
          /\ start = 0 \/ start < num_words
      BY <2>2 DEF LoopEnds, ChunkInvariant, TypeOK, Growing
    <3>2. num_words = 0 /\ Len(chunks) <= 0 /\ chunks \in Seq(WordChunk)
      BY <3>1 DEF ChunkInvariant, TypeOK
    <3>3. chunks = <<>>
      BY <3>2
    <3> QED
      BY <2>2, <3>2, <3>3
      DEF LoopEnds, ChunkInvariant, TypeOK, ChunksStitch, Growing, Finished
  <2>3. CASE UNCHANGED vars
    BY <2>3
    DEF vars, ChunkInvariant, TypeOK, ChunksStitch, Growing, Finished, Covered, Plain
  <2> QED  BY <2>1, <2>2, <2>3 DEF Next, Stopped
<1> QED  BY <1>1, <1>2, PTL DEF Spec

\* No word of a text is lost.
THEOREM EveryWordIsChunked == Spec => []EveryWordChunked
<1>1. ChunkInvariant => EveryWordChunked
  BY DEF ChunkInvariant, TypeOK, Finished, Covered, EveryWordChunked
<1> QED  BY <1>1, ChunkInvariantHolds, PTL

\* The chunks of a text can be stitched by their offsets.
THEOREM ChunksAlwaysStitch == Spec => []ChunksStitch
<1>1. ChunkInvariant => ChunksStitch
  BY DEF ChunkInvariant
<1> QED  BY <1>1, ChunkInvariantHolds, PTL

\* chunk_text ends within as many iterations as there are words.
THEOREM LoopIsBounded == Spec => []NoMoreChunksThanWords
<1>1. ChunkInvariant => NoMoreChunksThanWords
  BY DEF ChunkInvariant, NoMoreChunksThanWords
<1> QED  BY <1>1, ChunkInvariantHolds, PTL

LEMMA NoStraggle == ChunkInvariant => NoStraggler
<1> SUFFICES ASSUME ChunkInvariant, NEW i \in 1 .. Len(chunks)
             PROVE  /\ chunks[i].word_end > chunks[i].word_start
                    /\ chunks[i].word_end <= chunks[i].word_start
                          + service.max_words + service.overlap_words
                    /\ i < Len(chunks) => chunks[i + 1].word_end > chunks[i].word_end
                    /\ returned /\ i + 1 = Len(chunks) =>
                         chunks[i + 1].word_end
                           > chunks[i].word_end + service.overlap_words
  BY DEF NoStraggler
<1>1. /\ service.max_words \in Nat \ {0} /\ service.overlap_words \in Nat
      /\ num_words \in Nat /\ Len(chunks) \in Nat
      /\ \A j \in 1 .. Len(chunks) :
           chunks[j].word_start \in Nat /\ chunks[j].word_end \in Nat
  <2>1. \A j \in 1 .. Len(chunks) : chunks[j] \in WordChunk
    BY DEF ChunkInvariant, TypeOK
  <2> QED  BY <2>1 DEF ChunkInvariant, TypeOK, WordChunk
<1>2. \A j \in 1 .. Len(chunks) :
        /\ chunks[j].word_start < num_words
        /\ ~ returned \/ j < Len(chunks) =>
             /\ chunks[j].word_end = chunks[j].word_start + service.max_words
             /\ chunks[j].word_end + service.overlap_words < num_words
  BY DEF ChunkInvariant, Plain
<1>3. returned => /\ chunks[Len(chunks)].word_end = num_words
                  /\ num_words <= chunks[Len(chunks)].word_start
                                    + service.max_words + service.overlap_words
  BY <1>1 DEF ChunkInvariant, TypeOK, Finished
<1>4. i < Len(chunks) => chunks[i].word_start < chunks[i + 1].word_start
  BY DEF ChunkInvariant, ChunksStitch
<1>5. CASE ~ returned \/ i < Len(chunks)
  <2>1. /\ chunks[i].word_end = chunks[i].word_start + service.max_words
        /\ chunks[i].word_end + service.overlap_words < num_words
    BY <1>2, <1>5
  <2>2. CASE ~ (i < Len(chunks))
    BY <1>1, <2>1, <2>2
  <2>3. CASE i < Len(chunks) /\ (~ returned \/ i + 1 < Len(chunks))
    <3>1. i + 1 \in 1 .. Len(chunks)
      BY <1>1, <2>3
    <3>2. chunks[i + 1].word_end = chunks[i + 1].word_start + service.max_words
      BY <1>2, <2>3, <3>1
    <3>3. /\ chunks[i].word_start \in Nat /\ chunks[i].word_end \in Nat
          /\ chunks[i + 1].word_start \in Nat /\ chunks[i + 1].word_end \in Nat
      BY <1>1, <3>1
    <3>4. chunks[i].word_start < chunks[i + 1].word_start
      BY <1>4, <2>3
    <3>5. service.max_words \in Nat /\ service.max_words > 0 /\ service.overlap_words \in Nat
      BY <1>1
    <3>6. /\ chunks[i].word_end > chunks[i].word_start
          /\ chunks[i].word_end <= chunks[i].word_start
                + service.max_words + service.overlap_words
          /\ chunks[i + 1].word_end > chunks[i].word_end
      BY <2>1, <3>2, <3>3, <3>4, <3>5
    <3>7. ~ (returned /\ i + 1 = Len(chunks))
      BY <1>1, <2>3
    <3> QED  BY <3>6, <3>7
  <2>4. CASE returned /\ i + 1 = Len(chunks)
    BY <1>1, <1>3, <2>1, <2>4
  <2> QED  BY <1>1, <2>2, <2>3, <2>4
<1>6. CASE returned /\ i = Len(chunks)
  BY <1>1, <1>2, <1>3, <1>6
<1> QED  BY <1>1, <1>5, <1>6

\* The last chunk is worth a chunk, and no chunk is longer than a tail allows.
THEOREM NoChunkStraggles == Spec => []NoStraggler
BY NoStraggle, ChunkInvariantHolds, PTL

\* The chunks so far are the first of the definition's.
StepsApart ==
    /\ ~ returned => start = Len(chunks) * Step(service)
    /\ \A i \in 1 .. Len(chunks) :
          chunks[i] = Chunk(service, num_words, (i - 1) * Step(service))

LEMMA OneMoreStep ==
    ASSUME NEW n \in Nat, NEW d \in Nat
    PROVE  (n + 1) * d = n * d + d /\ n * d \in Nat
OBVIOUS

LEMMA StepsApartStep ==
    ASSUME ChunkInvariant, StepsApart, AppendChunk
    PROVE  StepsApart'
<1> DEFINE n == Len(chunks)
           c == Chunk(service, num_words, start)
<1>1. /\ service \in [max_words : Nat \ {0}, overlap_words : Nat]
      /\ num_words \in Nat /\ start \in Nat /\ chunks \in Seq(WordChunk) /\ n \in Nat
      /\ ~ returned /\ start < num_words /\ start = n * Step(service)
      /\ service' = service /\ num_words' = num_words
      /\ chunks' = Append(chunks, c)
  BY DEF ChunkInvariant, TypeOK, AppendChunk, StepsApart
<1>2. Step(service) \in Nat
  BY <1>1, StepBounds
<1>3. /\ Len(chunks') = n + 1 /\ chunks'[n + 1] = c
      /\ \A i \in 1 .. n : chunks'[i] = chunks[i]
  BY <1>1
<1>4. ~ returned' => start' = (n + 1) * Step(service)
  <2>1. ~ returned' => start' = start + Step(service)
    BY <1>1 DEF AppendChunk
  <2> QED  BY <1>1, <1>2, <2>1, OneMoreStep
<1>5. ASSUME NEW i \in 1 .. n + 1
      PROVE  chunks'[i] = Chunk(service, num_words, (i - 1) * Step(service))
  <2>1. CASE i \in 1 .. n
    BY <1>3, <2>1 DEF StepsApart
  <2>2. CASE i = n + 1
    <3>1. i - 1 = n
      BY <1>1, <2>2
    <3> QED  BY <1>1, <1>3, <2>2, <3>1
  <2> QED  BY <1>1, <2>1, <2>2
<1>6. Step(service)' = Step(service)
  BY <1>1 DEF Step
<1>7. \A b : Chunk(service, num_words, b)' = Chunk(service, num_words, b)
  BY <1>1 DEF Chunk, End
<1> QED  BY <1>1, <1>3, <1>4, <1>5, <1>6 DEF StepsApart, Chunk, End

\* The chunks of a text that is done are the definition's, and no more: all but the last
\* end too far from the end of the text to reach it.
LEMMA StepsAreTheDefinition ==
    ASSUME ChunkInvariant, StepsApart
    PROVE  ChunksAsDefined
<1> SUFFICES ASSUME returned PROVE chunks = Chunked(service, num_words)
  BY DEF ChunksAsDefined
<1> DEFINE n == Len(chunks)
           d == Step(service)
           Reaches(i) == i * d + service.max_words + service.overlap_words >= num_words
           Least(i) == Reaches(i) /\ \A j \in 0 .. num_words : j < i => ~ Reaches(j)
           last == CHOOSE i \in 0 .. num_words : Least(i)
<1>1. /\ service.max_words \in Nat /\ service.overlap_words \in Nat
      /\ num_words \in Nat /\ chunks \in Seq(WordChunk) /\ n \in Nat /\ n <= num_words
      /\ d \in Nat
  BY StepBounds DEF ChunkInvariant, TypeOK
<1>2. CASE num_words = 0
  BY <1>1, <1>2 DEF Chunked
<1>3. CASE num_words # 0
  <2>1. n # 0
    <3>1. Covered(0)
      BY <1>1, <1>3 DEF ChunkInvariant, Finished
    <3> QED  BY <3>1 DEF Covered
  <2>2. \A i \in 1 .. n :
          /\ chunks[i].word_start = (i - 1) * d
          /\ chunks[i] = Chunk(service, num_words, (i - 1) * d)
    <3>1. ASSUME NEW i \in 1 .. n PROVE chunks[i] = Chunk(service, num_words, (i - 1) * d)
      BY <3>1, Zenon DEF StepsApart
    <3>2. ASSUME NEW b PROVE Chunk(service, num_words, b).word_start = b
      BY DEF Chunk
    <3> QED  BY <3>1, <3>2, Zenon
  <2>3. n - 1 \in 0 .. num_words /\ Reaches(n - 1)
    <3>1. num_words <= chunks[n].word_start + service.max_words + service.overlap_words
      BY <1>1, <2>1 DEF ChunkInvariant, Finished
    <3>2. chunks[n].word_start = (n - 1) * d /\ n - 1 \in Nat
      BY <1>1, <2>1, <2>2
    <3>3. (n - 1) * d \in Nat
      BY <1>1, <3>2, OneMoreStep
    <3> QED  BY <1>1, <2>1, <3>1, <3>2, <3>3
  <2>4. ASSUME NEW j \in Nat, j < n - 1 PROVE ~ Reaches(j)
    <3>1. j + 1 \in 1 .. n /\ j + 1 < n /\ (j + 1) - 1 = j
      BY <1>1, <2>4
    <3>2. Plain(chunks[j + 1])
      BY <3>1 DEF ChunkInvariant
    <3>3. chunks[j + 1].word_start = j * d /\ j * d \in Nat
      BY <1>1, <2>2, <3>1, OneMoreStep
    <3> QED  BY <1>1, <3>2, <3>3 DEF Plain
  <2>5. Least(n - 1)
    BY <2>3, <2>4
  <2>6. last \in 0 .. num_words /\ Least(last)
    BY <2>3, <2>5
  <2>7. last = n - 1
    <3> HIDE DEF Reaches, last
    <3>1. last \in Nat /\ n - 1 \in Nat
      BY <1>1, <2>1, <2>6
    <3>2. ~ (last < n - 1)
      BY <3>1, <2>4, <2>6 DEF Least
    <3>3. ~ (n - 1 < last)
      BY <2>3, <2>6 DEF Least
    <3> QED  BY <3>1, <3>2, <3>3
  <2>8. chunks = [i \in 1 .. n |-> chunks[i]]
    BY <1>1
  <2>9. chunks = [i \in 1 .. n |-> Chunk(service, num_words, (i - 1) * d)]
    BY <2>2, <2>8
  <2>10. Chunked(service, num_words)
           = [i \in 1 .. last + 1 |-> Chunk(service, num_words, (i - 1) * d)]
    BY <1>3, Zenon DEF Chunked
  <2> HIDE DEF last
  <2>11. last + 1 = n
    BY <1>1, <2>7
  <2> QED  BY <2>9, <2>10, <2>11
<1> QED  BY <1>2, <1>3

\* The loop computes the chunks of the definition without a loop.
THEOREM LoopComputesDefinition == Spec => []ChunksAsDefined
<1>1. Init => StepsApart
  <2> SUFFICES ASSUME Init PROVE StepsApart  OBVIOUS
  <2>1. start = 0 /\ Len(chunks) = 0 /\ Step(service) \in Nat
    BY ServicesAssumption, StepBounds DEF Init
  <2>2. 0 * Step(service) = 0
    BY <2>1
  <2> QED  BY <2>1, <2>2 DEF StepsApart
<1>2. ChunkInvariant /\ StepsApart /\ [Next]_vars => StepsApart'
  <2>1. ASSUME StepsApart, LoopEnds PROVE StepsApart'
    BY <2>1 DEF LoopEnds, StepsApart, Chunk, End, Step
  <2>2. ASSUME StepsApart, UNCHANGED vars PROVE StepsApart'
    BY <2>2 DEF vars, StepsApart, Chunk, End, Step
  <2> QED  BY <2>1, <2>2, StepsApartStep DEF Next, Stopped
<1> QED  BY <1>1, <1>2, StepsAreTheDefinition, ChunkInvariantHolds, PTL DEF Spec

----------------------------------------------------------------------------
(* The pipeline around the chunker. *)

\* Embeddings are in step with payloads until a batch comes back short.
Matched ==
    /\ asked <= Len(payloads)
    /\ Len(vectors) <= asked
    /\ Len(vectors) = asked => \A i \in 1 .. asked : vectors[i] = payloads[i]
    /\ phase \in {"extract", "build"} => asked = 0
    /\ phase = "save" => Len(vectors) = Len(payloads) /\ asked = Len(payloads)

\* A payload that is not the first of its block follows one of that block.
Numbered ==
    \A i \in 1 .. Len(payloads) :
        i < Len(payloads) /\ payloads[i + 1].chunk_index # 0
            /\ payloads[i + 1].chunk_type # "image_caption"
        => /\ payloads[i].page = payloads[i + 1].page
           /\ payloads[i].nth = payloads[i + 1].nth

\* The chunker works on the first block that is left, or has nothing.
Chunker ==
    /\ phase # "build" => returned /\ chunks = <<>>
    /\ ~ returned \/ chunks # <<>> => blocks # <<>>

PayloadInvariant ==
    /\ PayloadTypeOK /\ ChunkInvariant /\ Chunker /\ Matched /\ Numbered
    /\ EmbeddingsAreTheirOwn

\* A chunker that starts a text, or that has none, satisfies its invariant.
LEMMA ChunkerStarts ==
    ASSUME service \in [max_words : Nat \ {0}, overlap_words : Nat], num_words \in Nat,
           start = 0, chunks = <<>>, returned \in BOOLEAN, returned => num_words = 0
    PROVE  ChunkInvariant
<1>1. TypeOK /\ Len(chunks) = 0
  BY DEF TypeOK
<1> QED  BY <1>1 DEF ChunkInvariant, ChunksStitch, Growing, Finished, TypeOK

LEMMA ChunkerStays ==
    ASSUME ChunkInvariant, UNCHANGED vars
    PROVE  ChunkInvariant'
BY DEF vars, ChunkInvariant, TypeOK, ChunksStitch, Growing, Finished, Covered, Plain

\* The payloads of a block, and of a caption, continue those there are.
LEMMA BlockPayloads ==
    ASSUME NEW b \in Block, NEW cs \in Seq(WordChunk)
    PROVE  /\ PayloadsOf(b, cs) \in Seq(Payload)
           /\ Len(PayloadsOf(b, cs)) = Len(cs)
           /\ \A i \in 1 .. Len(cs) :
                /\ PayloadsOf(b, cs)[i].chunk_index = i - 1
                /\ PayloadsOf(b, cs)[i].page = b.page
                /\ PayloadsOf(b, cs)[i].nth = b.nth
                /\ PayloadsOf(b, cs)[i].chunk_type = b.chunk_type
                /\ PayloadsOf(b, cs)[i].word_start = cs[i].word_start
                /\ PayloadsOf(b, cs)[i].word_end = cs[i].word_end
<1>1. \A i \in 1 .. Len(cs) : cs[i].word_start \in Nat /\ cs[i].word_end \in Nat
  <2>1. \A i \in 1 .. Len(cs) : cs[i] \in WordChunk
    OBVIOUS
  <2> QED  BY <2>1 DEF WordChunk
<1>2. \A i \in 1 .. Len(cs) :
        [chunk_type |-> b.chunk_type, page |-> b.page, nth |-> b.nth, chunk_index |-> i - 1,
         word_start |-> cs[i].word_start, word_end |-> cs[i].word_end] \in Payload
  BY <1>1 DEF Block, Payload
<1> QED  BY <1>2 DEF PayloadsOf

LEMMA PayloadsContinue ==
    ASSUME PayloadInvariant, phase = "build", NEW more \in Seq(Payload),
           payloads' = payloads \o more, UNCHANGED <<asked, vectors, saved, phase>>,
           \A i \in 1 .. Len(more) :
                more[i].chunk_type # "image_caption" =>
                    /\ i = 1 => more[i].chunk_index = 0
                    /\ i > 1 => more[i - 1].page = more[i].page /\ more[i - 1].nth = more[i].nth
    PROVE  payloads' \in Seq(Payload) /\ Matched' /\ Numbered' /\ EmbeddingsAreTheirOwn'
<1>1. /\ payloads \in Seq(Payload) /\ payloads' \in Seq(Payload)
      /\ Len(payloads') = Len(payloads) + Len(more)
      /\ \A i \in 1 .. Len(payloads') :
            payloads'[i] = IF i <= Len(payloads) THEN payloads[i] ELSE more[i - Len(payloads)]
  BY DEF PayloadInvariant, PayloadTypeOK
<1>2. Matched'
  <2>1. asked = 0 /\ Len(vectors) \in Nat
    BY DEF PayloadInvariant, PayloadTypeOK, Matched
  <2> QED  BY <1>1, <2>1 DEF PayloadInvariant, Matched
<1>3. Numbered'
  <2> SUFFICES ASSUME NEW i \in 1 .. Len(payloads'), i < Len(payloads'),
                      payloads'[i + 1].chunk_index # 0,
                      payloads'[i + 1].chunk_type # "image_caption"
               PROVE  /\ payloads'[i].page = payloads'[i + 1].page
                      /\ payloads'[i].nth = payloads'[i + 1].nth
    BY DEF Numbered
  <2>1. CASE i < Len(payloads)
    <3>1. payloads'[i] = payloads[i] /\ payloads'[i + 1] = payloads[i + 1]
      BY <1>1, <2>1
    <3> QED  BY <1>1, <2>1, <3>1 DEF PayloadInvariant, Numbered
  <2>2. CASE i >= Len(payloads)
    <3> DEFINE k == i + 1 - Len(payloads)
    <3>1. k \in 1 .. Len(more) /\ payloads'[i + 1] = more[k]
      BY <1>1, <2>2
    <3>2. k > 1
      BY <3>1
    <3>3. payloads'[i] = more[k - 1]
      BY <1>1, <2>2, <3>2
    <3> QED  BY <3>1, <3>2, <3>3
  <2> QED  BY <1>1, <2>1, <2>2
<1> QED  BY <1>1, <1>2, <1>3 DEF PayloadInvariant, EmbeddingsAreTheirOwn

\* A batch that comes back whole keeps vectors and payloads in step; after one that is
\* short there are fewer vectors than were asked for, for good.
LEMMA EmbedBatchStep ==
    ASSUME PayloadInvariant, EmbedBatch
    PROVE  PayloadInvariant'
<1> USE DEF PayloadInvariant
<1>1. /\ payloads \in Seq(Payload) /\ vectors \in Seq(Payload) /\ asked \in Nat
      /\ Len(payloads) \in Nat /\ Len(vectors) \in Nat /\ BatchSize \in Nat /\ BatchSize > 0
  BY BatchAssumption DEF PayloadTypeOK
<1>2. /\ asked' = BatchEnd /\ asked' \in Nat /\ asked < asked' /\ asked' <= Len(payloads)
  BY <1>1 DEF EmbedBatch, BatchEnd
<1>3. PICK n \in asked + 1 .. BatchEnd : vectors' = vectors \o SubSeq(payloads, asked + 1, n)
  BY DEF EmbedBatch
<1> DEFINE batch == SubSeq(payloads, asked + 1, n)
<1>4. /\ batch \in Seq(Payload) /\ Len(batch) = n - asked
      /\ \A i \in 1 .. n - asked : batch[i] = payloads[asked + i]
  BY <1>1, <1>2, <1>3
<1> HIDE DEF batch
<1>5. /\ vectors' \in Seq(Payload) /\ Len(vectors') = Len(vectors) + (n - asked)
      /\ \A i \in 1 .. Len(vectors') :
            vectors'[i] = IF i <= Len(vectors) THEN vectors[i] ELSE batch[i - Len(vectors)]
  BY <1>1, <1>3, <1>4 DEF batch
<1>6. Matched'
  <2>1. Len(vectors') <= asked'
    BY <1>1, <1>2, <1>3, <1>5 DEF Matched
  <2>2. ASSUME Len(vectors') = asked', NEW i \in 1 .. asked'
        PROVE  vectors'[i] = payloads[i]
    <3>1. Len(vectors) = asked
      BY <1>1, <1>2, <1>3, <1>5, <2>2 DEF Matched
    <3>2. CASE i <= asked
      BY <1>1, <1>5, <2>2, <3>1, <3>2 DEF Matched
    <3>3. CASE i > asked
      <4>1. vectors'[i] = batch[i - asked] /\ i - asked \in 1 .. n - asked
        BY <1>1, <1>2, <1>3, <1>5, <2>2, <3>1, <3>3
      <4>2. batch[i - asked] = payloads[asked + (i - asked)]
        BY <1>4, <4>1
      <4>3. asked + (i - asked) = i
        BY <1>1, <1>2
      <4> QED  BY <4>1, <4>2, <4>3
    <3> QED  BY <1>1, <1>2, <3>2, <3>3
  <2> QED  BY <1>2, <2>1, <2>2 DEF EmbedBatch, Matched
<1>7. ChunkInvariant'
  BY ChunkerStays DEF EmbedBatch
<1> QED
  BY <1>2, <1>5, <1>6, <1>7
  DEF EmbedBatch, PayloadTypeOK, Chunker, Numbered, EmbeddingsAreTheirOwn, vars

\* Steps that end or fail something.
LEMMA PhaseStep ==
    ASSUME PayloadInvariant, Extract \/ Raise \/ Build \/ Embed \/ Finish \/ UNCHANGED allVars
    PROVE  PayloadInvariant'
<1> USE DEF PayloadInvariant
<1>1. UNCHANGED <<vars, document, blocks, payloads, asked, vectors, saved>>
  BY DEF Extract, Raise, Build, Embed, Finish, allVars, payloadVars
<1>2. ChunkInvariant'
  BY <1>1, ChunkerStays
<1>3. Chunker'
  BY <1>1 DEF Extract, Raise, Build, Idle, Embed, Finish, allVars, payloadVars, Chunker, vars
<1>4. PayloadTypeOK'
  BY <1>1 DEF Extract, Raise, Build, Embed, Finish, allVars, payloadVars, PayloadTypeOK
<1>5. Matched'
  BY <1>1 DEF Extract, Raise, Build, Embed, Finish, allVars, payloadVars, Matched
<1> QED  BY <1>1, <1>2, <1>3, <1>4, <1>5 DEF Numbered, EmbeddingsAreTheirOwn

\* Steps from block to block.
LEMMA BlockStep ==
    ASSUME PayloadInvariant, SkipBlank \/ TakeBlock \/ CutBlock \/ Collect \/ Caption
    PROVE  PayloadInvariant'
<1> USE DEF PayloadInvariant
<1>0. blocks \in Seq(Block) /\ chunks \in Seq(WordChunk)
      /\ service \in [max_words : Nat \ {0}, overlap_words : Nat]
  BY DEF PayloadTypeOK, ChunkInvariant, TypeOK
<1>1. CASE SkipBlank
  <2>1. ChunkInvariant'
    BY <1>1, ChunkerStays DEF SkipBlank
  <2>2. Tail(blocks) \in Seq(Block)
    BY <1>0, <1>1 DEF SkipBlank
  <2> QED
    BY <1>1, <2>1, <2>2
    DEF SkipBlank, Idle, PayloadTypeOK, Chunker, Matched, Numbered, EmbeddingsAreTheirOwn, vars
<1>2. CASE TakeBlock
  <2>1. Head(blocks) \in Block /\ blocks # <<>>
    BY <1>0, <1>2 DEF TakeBlock
  <2>2. /\ num_words' \in Nat /\ start' = 0 /\ chunks' = <<>> /\ returned' = FALSE
        /\ service' \in [max_words : Nat \ {0}, overlap_words : Nat]
    BY <1>0, <1>2, <2>1 DEF TakeBlock, Block
  <2>3. ChunkInvariant'
    <3>1. chunks' \in Seq(WordChunk) /\ Len(chunks') = 0
      BY <2>2
    <3>2. TypeOK'
      BY <2>2, <3>1 DEF TypeOK
    <3> QED
      BY <2>2, <3>1, <3>2 DEF ChunkInvariant, ChunksStitch, Growing, Finished
  <2> QED
    BY <1>2, <2>1, <2>2, <2>3
    DEF TakeBlock, Idle, payloadVars, PayloadTypeOK, Chunker, Matched, Numbered,
        EmbeddingsAreTheirOwn
<1>3. CASE CutBlock
  <2>1. ChunkInvariant' /\ blocks # <<>>
    BY <1>3, AppendChunkStep DEF CutBlock, AppendChunk, Chunker
  <2> QED
    BY <1>3, <2>1
    DEF CutBlock, payloadVars, PayloadTypeOK, Chunker, Matched, Numbered,
        EmbeddingsAreTheirOwn
<1>4. CASE Collect
  <2>1. blocks # <<>> /\ Head(blocks) \in Block /\ Tail(blocks) \in Seq(Block)
    BY <1>0, <1>4 DEF Collect, Chunker
  <2> DEFINE more == PayloadsOf(Head(blocks), chunks)
  <2>2. /\ more \in Seq(Payload) /\ Len(more) = Len(chunks)
        /\ \A i \in 1 .. Len(chunks) :
             /\ more[i].chunk_index = i - 1
             /\ more[i].page = Head(blocks).page /\ more[i].nth = Head(blocks).nth
    BY <1>0, <2>1, BlockPayloads
  <2>3. payloads' = payloads \o more /\ phase = "build" /\ UNCHANGED <<asked, vectors, saved, phase>>
    BY <1>4 DEF Collect
  <2> HIDE DEF more
  <2>4. \A i \in 1 .. Len(more) :
          /\ i = 1 => more[i].chunk_index = 0
          /\ i > 1 => more[i - 1].page = more[i].page /\ more[i - 1].nth = more[i].nth
    BY <1>0, <2>2
  <2>5. payloads' \in Seq(Payload) /\ Matched' /\ Numbered' /\ EmbeddingsAreTheirOwn'
    BY <2>2, <2>3, <2>4, PayloadsContinue
  <2>6. ChunkInvariant'
    <3>1. /\ num_words' = 0 /\ start' = 0 /\ chunks' = <<>> /\ returned' = TRUE
          /\ service' = service /\ TypeOK' /\ Len(chunks') = 0
      BY <1>0, <1>4 DEF Collect, TypeOK
    <3> QED
      BY <3>1 DEF ChunkInvariant, ChunksStitch, Growing, Finished
  <2> QED
    BY <1>4, <2>1, <2>5, <2>6 DEF Collect, PayloadTypeOK, Chunker
<1>5. CASE Caption
  <2>1. Head(blocks) \in Block /\ Tail(blocks) \in Seq(Block)
    BY <1>0, <1>5 DEF Caption
  <2>2. Cardinality(Captions) \in Nat
    <3>1. IsFiniteSet(1 .. Len(payloads)) /\ Captions \subseteq 1 .. Len(payloads)
      BY FS_Interval DEF Captions, PayloadTypeOK
    <3> QED  BY <3>1, FS_Subset, FS_CardinalityType
  <2> DEFINE caption == [chunk_type |-> "image_caption", page |-> Head(blocks).page,
                         nth |-> Head(blocks).nth, chunk_index |-> Cardinality(Captions),
                         word_start |-> 0, word_end |-> 0]
             more == <<caption>>
  <2>3. caption \in Payload /\ caption.chunk_type = "image_caption"
    BY <2>1, <2>2 DEF Payload, Block, ChunkType
  <2>4. payloads' = Append(payloads, caption) /\ phase = "build"
        /\ UNCHANGED <<asked, vectors, saved, phase>>
    BY <1>5 DEF Caption, Idle
  <2> HIDE DEF caption
  <2>5. /\ more \in Seq(Payload) /\ payloads' = payloads \o more
        /\ \A i \in 1 .. Len(more) : more[i].chunk_type = "image_caption"
    BY <2>3, <2>4 DEF PayloadTypeOK
  <2> HIDE DEF more
  <2>6. payloads' \in Seq(Payload) /\ Matched' /\ Numbered' /\ EmbeddingsAreTheirOwn'
    BY <2>4, <2>5, PayloadsContinue
  <2>7. ChunkInvariant'
    BY <1>5, ChunkerStays DEF Caption
  <2> QED
    BY <1>5, <2>1, <2>6, <2>7 DEF Caption, Idle, PayloadTypeOK, Chunker, vars
<1> QED  BY <1>1, <1>2, <1>3, <1>4, <1>5

\* The chunks are saved with the embeddings in step with them.
LEMMA SaveStep ==
    ASSUME PayloadInvariant, SaveChunks
    PROVE  PayloadInvariant'
<1> USE DEF PayloadInvariant
<1>1. /\ payloads \in Seq(Payload) /\ vectors \in Seq(Payload)
      /\ Len(vectors) = Len(payloads)
      /\ \A i \in 1 .. Len(payloads) : vectors[i] = payloads[i]
  BY DEF SaveChunks, PayloadTypeOK, Matched
<1>2. saved' = [i \in 1 .. Len(payloads) |->
                    [payload |-> payloads[i], embedding |-> vectors[i]]]
  BY DEF SaveChunks
<1>3. /\ saved' \in Seq([payload : Payload, embedding : Payload])
      /\ Len(saved') = Len(payloads)
  BY <1>1, <1>2
<1>4. EmbeddingsAreTheirOwn'
  BY <1>1, <1>2, <1>3 DEF EmbeddingsAreTheirOwn
<1>5. ChunkInvariant'
  BY ChunkerStays DEF SaveChunks
<1> QED
  BY <1>3, <1>4, <1>5 DEF SaveChunks, PayloadTypeOK, Chunker, Matched, Numbered, vars

\* The invariant of the pipeline.
THEOREM PayloadInvariantHolds == PayloadSpec => []PayloadInvariant
<1>1. PayloadInit => PayloadInvariant
  <2> SUFFICES ASSUME PayloadInit PROVE PayloadInvariant  OBVIOUS
  <2>1. service \in [max_words : Nat \ {0}, overlap_words : Nat]
    BY ServicesAssumption DEF PayloadInit
  <2>2. ChunkInvariant
    BY <2>1, ChunkerStarts DEF PayloadInit
  <2>3. document \in Seq(Block) /\ Len(payloads) = 0 /\ Len(vectors) = 0 /\ Len(saved) = 0
    BY DocumentAssumption DEF PayloadInit
  <2>4. /\ payloads \in Seq(Payload) /\ vectors \in Seq(Payload)
        /\ saved \in Seq([payload : Payload, embedding : Payload])
    BY DEF PayloadInit
  <2> QED
    BY <2>2, <2>3, <2>4
    DEF PayloadInit, PayloadInvariant, PayloadTypeOK, Chunker, Matched, Numbered,
        EmbeddingsAreTheirOwn
<1>2. PayloadInvariant /\ [PayloadNext]_allVars => PayloadInvariant'
  BY EmbedBatchStep, PhaseStep, BlockStep, SaveStep DEF PayloadNext, Ended
<1> QED  BY <1>1, <1>2, PTL DEF PayloadSpec

\* Every chunk is saved with its own embedding, for every PDF, batch size and model.
THEOREM ChunksKeepTheirEmbeddings == PayloadSpec => []EmbeddingsAreTheirOwn
<1>1. PayloadInvariant => EmbeddingsAreTheirOwn
  BY DEF PayloadInvariant
<1> QED  BY <1>1, PayloadInvariantHolds, PTL

\* Payloads that look like neighbours are of one page or table.
THEOREM NeighborsAreOfOneBlock == PayloadSpec => []IndexesTellBlocks
<1>1. PayloadInvariant => IndexesTellBlocks
  <2> SUFFICES ASSUME PayloadInvariant, NEW i \in 1 .. Len(payloads), i < Len(payloads),
                      payloads[i].chunk_type = payloads[i + 1].chunk_type,
                      payloads[i].chunk_type # "image_caption",
                      payloads[i + 1].chunk_index = payloads[i].chunk_index + 1
               PROVE  /\ payloads[i].page = payloads[i + 1].page
                      /\ payloads[i].nth = payloads[i + 1].nth
    BY DEF IndexesTellBlocks
  <2>1. payloads[i].chunk_index \in Nat
    <3>1. payloads \in Seq(Payload)
      BY DEF PayloadInvariant, PayloadTypeOK
    <3>2. payloads[i] \in Payload
      BY <3>1
    <3> QED  BY <3>2 DEF Payload
  <2> QED  BY <2>1 DEF PayloadInvariant, Numbered
<1> QED  BY <1>1, PayloadInvariantHolds, PTL

\* Within the pipeline too, no word of a block is lost by the chunker.
THEOREM EveryBlockIsChunked == PayloadSpec => []EveryWordChunked
<1>1. ChunkInvariant => EveryWordChunked
  BY DEF ChunkInvariant, TypeOK, Finished, Covered, EveryWordChunked
<1>2. PayloadInvariant => ChunkInvariant
  BY DEF PayloadInvariant
<1> QED  BY <1>1, <1>2, PayloadInvariantHolds, PTL
----------------------------------------------------------------------------
(* From the blocks of a PDF to the table of its chunks. *)

\* The blocks still to go are the last of the document.
Remaining ==
    /\ Len(blocks) <= Len(document)
    /\ \A i \in 1 .. Len(blocks) :
          blocks[i] = document[Len(document) - Len(blocks) + i]
    /\ phase \in {"embed", "save", "finish", "processed"} => blocks = <<>>

BlocksDone == 1 .. Len(document) - Len(blocks)

\* The chunker works on the words of the first block that is left.
Busy ==
    ~ returned \/ chunks # <<>> =>
        num_words = Head(blocks).words /\ Head(blocks).chunk_type # "image_caption"

\* Chunks are saved in one transaction, as the payloads are.
Copied ==
    \/ saved = <<>> /\ phase \notin {"finish", "processed"}
    \/ /\ phase \in {"finish", "processed", "failed"}
       /\ Len(saved) = Len(payloads)
       /\ \A i \in 1 .. Len(payloads) : saved[i].payload = payloads[i]

\* A payload holds word w of block b.
Holds(p, b, w) ==
    /\ Place(p) = Place(b)
    /\ p.chunk_type = "image_caption" \/ (p.word_start <= w /\ w < p.word_end)

BlocksHeld ==
    \A k \in BlocksDone : \A w \in Nat :
        w < document[k].words => \E i \in 1 .. Len(payloads) : Holds(payloads[i], document[k], w)

\* The payloads so far are of blocks that are done.
OfBlocksDone ==
    \A i \in 1 .. Len(payloads) : \E k \in BlocksDone : Place(payloads[i]) = Place(document[k])

\* The payloads of a block follow each other, numbered from 0, the later within or at the
\* end of the earlier: over all blocks, as no two have one place.
CutMarks ==
    \A i \in 1 .. Len(payloads) :
        /\ payloads[i].chunk_type = "image_caption" => payloads[i].word_start = 0
        /\ payloads[i].chunk_type # "image_caption" =>
            /\ payloads[i].word_start < payloads[i].word_end
            /\ \A j \in 1 .. Len(payloads) : i <= j /\ Place(payloads[i]) = Place(payloads[j]) =>
                  payloads[j].chunk_index = payloads[i].chunk_index + (j - i)
            /\ i < Len(payloads) /\ Place(payloads[i]) = Place(payloads[i + 1]) =>
                  /\ payloads[i].word_start <= payloads[i + 1].word_start
                  /\ payloads[i + 1].word_start <= payloads[i].word_end
                  /\ payloads[i].word_end <= payloads[i + 1].word_end
            /\ i > 1 /\ payloads[i].chunk_index # 0 =>
                  Place(payloads[i - 1]) = Place(payloads[i])

TableInvariant ==
    /\ Remaining /\ Busy /\ Copied /\ BlocksHeld /\ OfBlocksDone /\ CutMarks

\* In a document the place of a block is its own.
LEMMA BlocksHavePlaces ==
    ASSUME PayloadInvariant, NEW j \in 1 .. Len(document), NEW k \in 1 .. Len(document),
           Place(document[j]) = Place(document[k])
    PROVE  j = k
BY PlaceAssumption DEF PayloadInvariant, PayloadTypeOK

\* A block is done when its payloads have followed those there are: more is what was made
\* of it, nothing if it has no words.
LEMMA BlockDone ==
    ASSUME PayloadInvariant, TableInvariant, phase = "build", blocks # <<>>,
           NEW more \in Seq(Payload), payloads' = payloads \o more,
           blocks' = Tail(blocks), UNCHANGED <<document, phase, saved>>,
           \A i \in 1 .. Len(more) : Place(more[i]) = Place(Head(blocks)),
           \A w \in Nat : w < Head(blocks).words =>
                \E i \in 1 .. Len(more) : Holds(more[i], Head(blocks), w),
           \A i \in 1 .. Len(more) :
                more[i].chunk_type = "image_caption" => more[i].word_start = 0,
           \A i \in 1 .. Len(more) : more[i].chunk_type # "image_caption" =>
                /\ more[i].word_start < more[i].word_end
                /\ more[i].chunk_index = i - 1
                /\ i < Len(more) =>
                      /\ more[i].word_start <= more[i + 1].word_start
                      /\ more[i + 1].word_start <= more[i].word_end
                      /\ more[i].word_end <= more[i + 1].word_end
    PROVE  Remaining' /\ Copied' /\ BlocksHeld' /\ OfBlocksDone' /\ CutMarks'
<1> DEFINE n == Len(payloads)
           this == Len(document) - Len(blocks) + 1
<1>1. /\ document \in Seq(Block) /\ blocks \in Seq(Block) /\ payloads \in Seq(Payload)
      /\ n \in Nat /\ Len(more) \in Nat
      /\ Len(document) \in Nat /\ Len(blocks) \in Nat
  BY DocumentAssumption DEF PayloadInvariant, PayloadTypeOK
<1>2. /\ Len(blocks) \in 1 .. Len(document) /\ this \in 1 .. Len(document)
      /\ document[this] = Head(blocks)
      /\ Len(blocks') = Len(blocks) - 1
      /\ \A i \in 1 .. Len(blocks') : blocks'[i] = blocks[i + 1]
  BY <1>1 DEF TableInvariant, Remaining
<1>3. /\ BlocksDone = 1 .. this - 1
      /\ BlocksDone' = 1 .. this
      /\ document' = document
  BY <1>1, <1>2 DEF BlocksDone
<1>4. /\ payloads' \in Seq(Payload) /\ Len(payloads') = n + Len(more)
      /\ \A i \in 1 .. n : payloads'[i] = payloads[i]
      /\ \A i \in 1 .. Len(more) : payloads'[n + i] = more[i]
  BY <1>1
<1>5. /\ \A i \in 1 .. n : payloads[i] \in Payload
      /\ \A i \in 1 .. Len(more) : more[i] \in Payload
  BY <1>1
<1>6. Remaining'
  BY <1>1, <1>2, <1>3 DEF TableInvariant, Remaining
<1> HIDE DEF this
<1>7. Copied'
  BY DEF TableInvariant, Copied
<1>8. BlocksHeld'
  <2> SUFFICES ASSUME NEW k \in 1 .. this, NEW w \in Nat, w < document[k].words
               PROVE  \E i \in 1 .. Len(payloads') : Holds(payloads'[i], document[k], w)
    BY <1>3 DEF BlocksHeld
  <2>1. CASE k < this
    <3>1. k \in BlocksDone
      BY <1>2, <1>3, <2>1
    <3>2. PICK i \in 1 .. n : Holds(payloads[i], document[k], w)
      BY <3>1 DEF TableInvariant, BlocksHeld
    <3>3. i \in 1 .. Len(payloads') /\ payloads'[i] = payloads[i]
      BY <1>1, <1>4
    <3> QED  BY <3>2, <3>3
  <2>2. CASE k = this
    <3>1. PICK i \in 1 .. Len(more) : Holds(more[i], document[k], w)
      BY <1>2, <2>2
    <3>2. n + i \in 1 .. Len(payloads') /\ payloads'[n + i] = more[i]
      BY <1>1, <1>4
    <3> QED  BY <3>1, <3>2
  <2> QED  BY <1>2, <2>1, <2>2
<1>9. OfBlocksDone'
  <2> SUFFICES ASSUME NEW i \in 1 .. Len(payloads')
               PROVE  \E k \in 1 .. this : Place(payloads'[i]) = Place(document[k])
    BY <1>3 DEF OfBlocksDone
  <2>1. CASE i \in 1 .. n
    <3>1. PICK k \in BlocksDone : Place(payloads[i]) = Place(document[k])
      BY <2>1 DEF TableInvariant, OfBlocksDone
    <3>2. k \in 1 .. this /\ payloads'[i] = payloads[i]
      BY <1>2, <1>3, <1>4, <2>1
    <3> QED  BY <3>1, <3>2
  <2>2. CASE ~ i \in 1 .. n
    <3>1. i - n \in 1 .. Len(more) /\ n + (i - n) = i
      BY <1>1, <1>4, <2>2
    <3>2. Place(payloads'[i]) = Place(document[this])
      BY <1>2, <1>4, <3>1
    <3> QED  BY <1>2, <3>2
  <2> QED  BY <2>1, <2>2
<1>10. ASSUME NEW i \in 1 .. n, NEW j \in 1 .. Len(more)
       PROVE  Place(payloads[i]) # Place(more[j])
  <2>1. PICK k \in 1 .. this - 1 : Place(payloads[i]) = Place(document[k])
    BY <1>3 DEF TableInvariant, OfBlocksDone
  <2>2. k \in 1 .. Len(document) /\ k # this
    BY <1>1, <1>2
  <2>3. Place(document[k]) # Place(document[this])
    BY <1>2, <2>2, BlocksHavePlaces
  <2> QED  BY <1>2, <2>1, <2>3
<1>11. ASSUME NEW i \in 1 .. Len(payloads'), payloads'[i].chunk_type = "image_caption"
       PROVE  payloads'[i].word_start = 0
  <2>1. CASE i \in 1 .. n
    BY <1>4, <1>11, <2>1 DEF TableInvariant, CutMarks
  <2>2. CASE ~ i \in 1 .. n
    <3>1. i - n \in 1 .. Len(more) /\ n + (i - n) = i
      BY <1>1, <1>4, <2>2
    <3> QED  BY <1>4, <1>11, <3>1
  <2> QED  BY <2>1, <2>2
<1>12. CutMarks'
  <2> SUFFICES ASSUME NEW i \in 1 .. Len(payloads'),
                      payloads'[i].chunk_type # "image_caption"
               PROVE  /\ payloads'[i].word_start < payloads'[i].word_end
                      /\ \A j \in 1 .. Len(payloads') :
                            i <= j /\ Place(payloads'[i]) = Place(payloads'[j]) =>
                              payloads'[j].chunk_index = payloads'[i].chunk_index + (j - i)
                      /\ i < Len(payloads') /\ Place(payloads'[i]) = Place(payloads'[i + 1]) =>
                            /\ payloads'[i].word_start <= payloads'[i + 1].word_start
                            /\ payloads'[i + 1].word_start <= payloads'[i].word_end
                            /\ payloads'[i].word_end <= payloads'[i + 1].word_end
                      /\ i > 1 /\ payloads'[i].chunk_index # 0 =>
                            Place(payloads'[i - 1]) = Place(payloads'[i])
    BY <1>11 DEF CutMarks
  <2>1. CASE i \in 1 .. n
    <3>1. payloads'[i] = payloads[i]
      BY <1>4, <2>1
    <3>2. ASSUME NEW j \in 1 .. Len(payloads'), Place(payloads'[i]) = Place(payloads'[j])
          PROVE  j \in 1 .. n /\ payloads'[j] = payloads[j]
      <4>1. CASE j \in 1 .. n
        BY <1>4, <4>1
      <4>2. CASE ~ j \in 1 .. n
        <5>1. j - n \in 1 .. Len(more) /\ payloads'[j] = more[j - n]
          BY <1>1, <1>4, <4>2
        <5> QED  BY <1>10, <2>1, <3>1, <3>2, <5>1
      <4> QED  BY <4>1, <4>2
    <3>3. ASSUME NEW j \in 1 .. Len(payloads'), i <= j, Place(payloads'[i]) = Place(payloads'[j])
          PROVE  payloads'[j].chunk_index = payloads'[i].chunk_index + (j - i)
      BY <2>1, <3>1, <3>2, <3>3 DEF TableInvariant, CutMarks
    <3>4. ASSUME i < Len(payloads'), Place(payloads'[i]) = Place(payloads'[i + 1])
          PROVE  /\ payloads'[i].word_start <= payloads'[i + 1].word_start
                 /\ payloads'[i + 1].word_start <= payloads'[i].word_end
                 /\ payloads'[i].word_end <= payloads'[i + 1].word_end
      <4>1. i + 1 \in 1 .. n /\ payloads'[i + 1] = payloads[i + 1] /\ i < n
        <5>1. i + 1 \in 1 .. Len(payloads')
          BY <1>1, <1>4, <3>4
        <5>2. i + 1 \in 1 .. n /\ payloads'[i + 1] = payloads[i + 1]
          BY <3>2, <3>4, <5>1
        <5> QED  BY <1>1, <2>1, <5>2
      <4> QED  BY <2>1, <3>1, <3>4, <4>1 DEF TableInvariant, CutMarks
    <3>5. i > 1 => i - 1 \in 1 .. n /\ payloads'[i - 1] = payloads[i - 1]
      BY <1>1, <1>4, <2>1
    <3> QED  BY <2>1, <3>1, <3>3, <3>4, <3>5 DEF TableInvariant, CutMarks
  <2>2. CASE ~ i \in 1 .. n
    <3> DEFINE m == i - n
    <3>1. m \in 1 .. Len(more) /\ payloads'[i] = more[m] /\ i = n + m /\ i \in Nat
      BY <1>1, <1>4, <2>2
    <3> HIDE DEF m
    <3>2. more[m].word_start < more[m].word_end /\ more[m].chunk_index = m - 1
      BY <3>1
    <3>3. ASSUME NEW j \in 1 .. Len(payloads'), i <= j
          PROVE  payloads'[j].chunk_index = payloads'[i].chunk_index + (j - i)
      <4>1. j - n \in 1 .. Len(more) /\ payloads'[j] = more[j - n]
        BY <1>1, <1>4, <3>1, <3>3
      <4>2. more[j - n].chunk_type # "image_caption"
        <5>1. Place(more[m]) = Place(more[j - n])
          BY <3>1, <4>1
        <5> QED  BY <3>1, <5>1 DEF Place
      <4>3. more[j - n].chunk_index = (j - n) - 1
        BY <4>1, <4>2
      <4> QED  BY <1>1, <3>1, <3>2, <4>1, <4>3
    <3>4. ASSUME i < Len(payloads')
          PROVE  /\ payloads'[i].word_start <= payloads'[i + 1].word_start
                 /\ payloads'[i + 1].word_start <= payloads'[i].word_end
                 /\ payloads'[i].word_end <= payloads'[i + 1].word_end
      <4>1. m < Len(more) /\ m + 1 \in 1 .. Len(more) /\ n + (m + 1) = i + 1
        BY <1>1, <1>4, <3>1, <3>4
      <4>2. payloads'[i + 1] = more[m + 1]
        BY <1>4, <4>1
      <4> QED  BY <3>1, <4>1, <4>2
    <3>5. ASSUME payloads'[i].chunk_index # 0
          PROVE  Place(payloads'[i - 1]) = Place(payloads'[i])
      <4>1. m - 1 \in 1 .. Len(more) /\ n + (m - 1) = i - 1
        BY <1>1, <3>1, <3>2, <3>5
      <4>2. payloads'[i - 1] = more[m - 1]
        BY <1>4, <4>1
      <4> QED  BY <3>1, <4>1, <4>2
    <3> QED  BY <3>1, <3>2, <3>3, <3>4, <3>5
  <2> QED  BY <2>1, <2>2
<1> QED  BY <1>6, <1>7, <1>8, <1>9, <1>12
LEMMA TableStays ==
    ASSUME TableInvariant, UNCHANGED <<document, blocks, payloads, saved, phase>>
    PROVE  Remaining' /\ Copied' /\ BlocksHeld' /\ OfBlocksDone' /\ CutMarks'
BY DEF TableInvariant, Remaining, Copied, BlocksHeld, OfBlocksDone, CutMarks, BlocksDone

\* Steps that leave the blocks and their payloads alone.
LEMMA TablePhaseStep ==
    ASSUME PayloadInvariant, TableInvariant,
           Extract \/ Raise \/ Build \/ EmbedBatch \/ Embed \/ SaveChunks \/ Finish
             \/ UNCHANGED allVars
    PROVE  TableInvariant'
<1>1. UNCHANGED <<vars, document, blocks, payloads>>
  BY DEF Extract, Raise, Build, EmbedBatch, Embed, SaveChunks, Finish, allVars, payloadVars
<1>2. Remaining'
  BY <1>1
  DEF Extract, Raise, Build, EmbedBatch, Embed, SaveChunks, Finish, allVars, payloadVars,
      TableInvariant, Remaining
<1>3. Busy'
  BY <1>1 DEF vars, TableInvariant, Busy
<1>4. Copied'
  <2>1. CASE SaveChunks
    <3>1. Len(payloads) \in Nat
      BY DEF PayloadInvariant, PayloadTypeOK
    <3> QED  BY <2>1, <3>1 DEF SaveChunks, Copied
  <2>2. CASE Extract \/ Build \/ EmbedBatch \/ Embed
    <3>1. /\ phase \notin {"finish", "processed", "failed"} /\ saved' = saved
          /\ phase' \notin {"finish", "processed"}
      BY <2>2 DEF Extract, Build, Idle, EmbedBatch, Embed
    <3> QED  BY <3>1 DEF TableInvariant, Copied
  <2>3. CASE Raise \/ Finish
    <3>1. /\ saved' = saved /\ payloads' = payloads
          /\ phase' = "failed" \/ (phase = "finish" /\ phase' = "processed")
      BY <1>1, <2>3 DEF Raise, Finish
    <3> QED  BY <3>1 DEF TableInvariant, Copied
  <2>4. CASE UNCHANGED allVars
    BY <2>4 DEF allVars, payloadVars, TableInvariant, Copied
  <2> QED  BY <2>1, <2>2, <2>3, <2>4
<1>5. BlocksHeld' /\ OfBlocksDone' /\ CutMarks'
  BY <1>1 DEF TableInvariant, BlocksHeld, OfBlocksDone, CutMarks, BlocksDone
<1> QED  BY <1>2, <1>3, <1>4, <1>5 DEF TableInvariant

\* Steps from block to block.
LEMMA TableBlockStep ==
    ASSUME PayloadInvariant, TableInvariant,
           SkipBlank \/ TakeBlock \/ CutBlock \/ Collect \/ Caption
    PROVE  TableInvariant'
<1>0. blocks \in Seq(Block) /\ chunks \in Seq(WordChunk) /\ payloads \in Seq(Payload)
  BY DEF PayloadInvariant, PayloadTypeOK, ChunkInvariant, TypeOK
<1>1. CASE SkipBlank
  <2> DEFINE more == <<>>
  <2>1. /\ more \in Seq(Payload) /\ Len(more) = 0 /\ payloads' = payloads \o more
        /\ Head(blocks).words = 0 /\ blocks # <<>> /\ blocks' = Tail(blocks)
        /\ phase = "build" /\ UNCHANGED <<document, phase, saved>>
    BY <1>0, <1>1 DEF SkipBlank, Idle
  <2> HIDE DEF more
  <2>2. Remaining' /\ Copied' /\ BlocksHeld' /\ OfBlocksDone' /\ CutMarks'
    <3>1. Head(blocks) \in Block
      BY <1>0, <2>1
    <3>2. \A w \in Nat : ~ w < Head(blocks).words
      BY <2>1
    <3>3. \A i \in 1 .. Len(more) : FALSE
      BY <2>1
    <3> QED  BY <2>1, <3>2, <3>3, BlockDone
  <2>3. Busy'
    BY <1>1 DEF SkipBlank, Idle, vars, Busy
  <2> QED  BY <2>2, <2>3 DEF TableInvariant
<1>2. CASE TakeBlock
  <2>1. Busy'
    BY <1>2 DEF TakeBlock, payloadVars, Busy
  <2> QED  BY <1>2, <2>1, TableStays DEF TakeBlock, payloadVars, TableInvariant
<1>3. CASE CutBlock
  <2>1. Busy'
    BY <1>3 DEF CutBlock, AppendChunk, payloadVars, TableInvariant, Busy
  <2> QED  BY <1>3, <2>1, TableStays DEF CutBlock, payloadVars, TableInvariant
<1>4. CASE Collect
  <2>1. /\ blocks # <<>> /\ Head(blocks) \in Block
        /\ num_words = Head(blocks).words /\ num_words \in Nat
        /\ Head(blocks).chunk_type # "image_caption" /\ returned /\ Len(chunks) \in Nat
    BY <1>0, <1>4
    DEF Collect, PayloadInvariant, Chunker, ChunkInvariant, TypeOK, TableInvariant, Busy
  <2> DEFINE more == PayloadsOf(Head(blocks), chunks)
  <2>2. /\ more \in Seq(Payload) /\ Len(more) = Len(chunks)
        /\ \A i \in 1 .. Len(chunks) :
             /\ more[i].chunk_index = i - 1
             /\ Place(more[i]) = Place(Head(blocks))
             /\ more[i].chunk_type # "image_caption"
             /\ more[i].word_start = chunks[i].word_start
             /\ more[i].word_end = chunks[i].word_end
    BY <1>0, <2>1, BlockPayloads DEF Place
  <2>3. /\ payloads' = payloads \o more /\ blocks' = Tail(blocks) /\ phase = "build"
        /\ UNCHANGED <<document, phase, saved>>
    BY <1>4 DEF Collect
  <2> HIDE DEF more
  <2>4. ASSUME NEW w \in Nat, w < Head(blocks).words
        PROVE  \E i \in 1 .. Len(more) : Holds(more[i], Head(blocks), w)
    <3>1. Covered(w)
      BY <2>1, <2>4 DEF PayloadInvariant, ChunkInvariant, Finished
    <3> QED  BY <2>2, <3>1 DEF Covered, Holds
  <2>5. ASSUME NEW i \in 1 .. Len(more)
        PROVE  /\ more[i].word_start < more[i].word_end
               /\ more[i].chunk_index = i - 1
               /\ i < Len(more) =>
                     /\ more[i].word_start <= more[i + 1].word_start
                     /\ more[i + 1].word_start <= more[i].word_end
                     /\ more[i].word_end <= more[i + 1].word_end
    <3>1. chunks[i].word_end > chunks[i].word_start
      BY <2>2, NoStraggle DEF PayloadInvariant, NoStraggler
    <3>2. chunks[i].word_start \in Nat /\ chunks[i].word_end \in Nat
      <4>1. chunks[i] \in WordChunk
        BY <1>0, <2>2
      <4> QED  BY <4>1 DEF WordChunk
    <3>3. i < Len(chunks) => i + 1 \in 1 .. Len(chunks) /\ chunks[i + 1] \in WordChunk
      BY <1>0, <2>1, <2>2
    <3>4. i < Len(chunks) =>
            /\ chunks[i].word_start < chunks[i + 1].word_start
            /\ chunks[i + 1].word_start <= chunks[i].word_end
            /\ chunks[i].word_end <= chunks[i + 1].word_end
      BY <2>2 DEF PayloadInvariant, ChunkInvariant, ChunksStitch
    <3> QED  BY <2>2, <3>1, <3>2, <3>3, <3>4 DEF WordChunk
  <2>6. Remaining' /\ Copied' /\ BlocksHeld' /\ OfBlocksDone' /\ CutMarks'
    BY <2>1, <2>2, <2>3, <2>4, <2>5, BlockDone
  <2>7. Busy'
    BY <1>4 DEF Collect, Busy
  <2> QED  BY <2>6, <2>7 DEF TableInvariant
<1>5. CASE Caption
  <2>1. /\ blocks # <<>> /\ Head(blocks) \in Block
        /\ Head(blocks).chunk_type = "image_caption"
    BY <1>0, <1>5 DEF Caption
  <2> DEFINE caption == payloads'[Len(payloads')]
             more == <<caption>>
  <2>2. /\ caption.chunk_type = "image_caption" /\ caption.page = Head(blocks).page
        /\ caption.nth = Head(blocks).nth /\ caption.word_start = 0
        /\ payloads' = payloads \o more
    <3>1. \A c : payloads' = Append(payloads, c) => caption = c
      BY <1>0
    <3> QED  BY <1>0, <1>5, <3>1 DEF Caption
  <2>3. caption \in Payload
    <3>1. payloads' \in Seq(Payload) /\ Len(payloads') \in 1 .. Len(payloads')
      BY <1>0, <1>5, BlockStep, <2>2 DEF PayloadInvariant, PayloadTypeOK
    <3> QED  BY <3>1
  <2>4. /\ blocks' = Tail(blocks) /\ phase = "build" /\ UNCHANGED <<document, phase, saved>>
    BY <1>5 DEF Caption, Idle
  <2> HIDE DEF caption
  <2>5. /\ more \in Seq(Payload) /\ Len(more) = 1
        /\ \A i \in 1 .. Len(more) : more[i] = caption
    BY <2>3
  <2>6. Place(caption) = Place(Head(blocks))
    BY <2>1, <2>2 DEF Place
  <2>7. \A w \in Nat : Holds(caption, Head(blocks), w)
    BY <2>2, <2>6 DEF Holds
  <2>8. 1 \in 1 .. Len(more)
    BY <2>5
  <2> HIDE DEF more
  <2>9. Remaining' /\ Copied' /\ BlocksHeld' /\ OfBlocksDone' /\ CutMarks'
    BY <2>1, <2>2, <2>4, <2>5, <2>6, <2>7, <2>8, BlockDone
  <2>10. Busy'
    BY <1>5 DEF Caption, Idle, vars, Busy
  <2> QED  BY <2>9, <2>10 DEF TableInvariant
<1> QED  BY <1>1, <1>2, <1>3, <1>4, <1>5

\* What the pipeline keeps of every block, from the first page to the table of chunks.
THEOREM TableInvariantHolds == PayloadSpec => []TableInvariant
<1>1. PayloadInit => TableInvariant
  <2> SUFFICES ASSUME PayloadInit PROVE TableInvariant  OBVIOUS
  <2>1. document \in Seq(Block) /\ blocks = document /\ Len(document) \in Nat
    BY DocumentAssumption DEF PayloadInit
  <2>2. Remaining
    BY <2>1 DEF PayloadInit, Remaining
  <2>3. BlocksDone = {}
    BY <2>1 DEF BlocksDone
  <2>4. Len(payloads) = 0
    BY DEF PayloadInit
  <2> QED
    BY <2>2, <2>3, <2>4
    DEF PayloadInit, TableInvariant, Busy, Copied, BlocksHeld, OfBlocksDone, CutMarks
<1>2. PayloadInvariant /\ TableInvariant /\ [PayloadNext]_allVars => TableInvariant'
  BY TablePhaseStep, TableBlockStep DEF PayloadNext, Ended
<1> QED  BY <1>1, <1>2, PayloadInvariantHolds, PTL DEF PayloadSpec

\* Every word of a document that is processed is in a saved chunk of its own block.
THEOREM EveryBlockIsSaved == PayloadSpec => []EveryBlockSaved
<1>1. PayloadInvariant /\ TableInvariant => EveryBlockSaved
  <2> SUFFICES ASSUME PayloadInvariant, TableInvariant, phase = "processed",
                      NEW k \in 1 .. Len(document), NEW w \in 0 .. document[k].words,
                      w < document[k].words
               PROVE  \E i \in 1 .. Len(saved) : Holds(saved[i].payload, document[k], w)
    BY DEF EveryBlockSaved, Holds
  <2>1. /\ document \in Seq(Block) /\ document[k] \in Block
        /\ Len(document) \in Nat /\ Len(blocks) = 0
    BY DocumentAssumption DEF PayloadInvariant, PayloadTypeOK, TableInvariant, Remaining
  <2>2. k \in BlocksDone /\ w \in Nat
    BY <2>1 DEF BlocksDone, Block
  <2>3. PICK i \in 1 .. Len(payloads) : Holds(payloads[i], document[k], w)
    BY <2>2 DEF TableInvariant, BlocksHeld
  <2>4. i \in 1 .. Len(saved) /\ saved[i].payload = payloads[i]
    BY DEF TableInvariant, Copied
  <2> QED  BY <2>3, <2>4
<1> QED  BY <1>1, PayloadInvariantHolds, TableInvariantHolds, PTL

\* The rows of a document are as stitching needs them: by index and offsets neighbours
\* are told from chunks of different blocks, and from chunks further apart.
THEOREM SavedTableIsWellCut == PayloadSpec => []SavedIsWellCut
<1>1. PayloadInvariant /\ TableInvariant => SavedIsWellCut
  <2> SUFFICES ASSUME PayloadInvariant, TableInvariant PROVE WellCut(SavedTable)
    BY DEF SavedIsWellCut
  <2> DEFINE t == SavedTable
             n == Len(saved)
  <2>1. DOMAIN t = 1 .. n /\ n \in Nat
    BY DEF SavedTable, PayloadInvariant, PayloadTypeOK
  <2>2. ASSUME NEW p \in 1 .. n
        PROVE  /\ p \in 1 .. Len(payloads) /\ n = Len(payloads)
               /\ payloads[p] \in Payload
               /\ t[p].document = 1 /\ t[p].chunk_type = payloads[p].chunk_type
               /\ t[p].block = Place(payloads[p])
               /\ t[p].chunk_index = payloads[p].chunk_index
               /\ t[p].has_offsets <=> payloads[p].chunk_type # "image_caption"
               /\ t[p].word_start = payloads[p].word_start
               /\ t[p].has_offsets => t[p].word_end = payloads[p].word_end
               /\ ~ t[p].has_offsets => t[p].word_end = 1
    <3>1. p \in 1 .. Len(payloads) /\ saved[p].payload = payloads[p] /\ n = Len(payloads)
      BY DEF TableInvariant, Copied
    <3>2. payloads[p] \in Payload
      BY <3>1 DEF PayloadInvariant, PayloadTypeOK
    <3>3. t[p] = RowOf(payloads[p])
      BY <3>1 DEF SavedTable
    <3> DEFINE caption == payloads[p].chunk_type = "image_caption"
    <3>4. t[p] = [document |-> 1, chunk_type |-> payloads[p].chunk_type,
                  block |-> Place(payloads[p]), chunk_index |-> payloads[p].chunk_index,
                  word_start |-> payloads[p].word_start,
                  word_end |-> IF caption THEN 1 ELSE payloads[p].word_end,
                  has_offsets |-> ~ caption]
      BY <3>3 DEF RowOf
    <3> HIDE DEF t, caption
    <3>5. t[p].has_offsets <=> ~ caption
      <4>1. t[p].has_offsets = ~ caption
        BY <3>4
      <4> QED  BY <4>1
    <3>6. t[p].word_end = IF caption THEN 1 ELSE payloads[p].word_end
      BY <3>4
    <3>7. /\ t[p].document = 1 /\ t[p].chunk_type = payloads[p].chunk_type
          /\ t[p].block = Place(payloads[p])
          /\ t[p].chunk_index = payloads[p].chunk_index
          /\ t[p].word_start = payloads[p].word_start
      BY <3>4
    <3> QED  BY <3>1, <3>2, <3>5, <3>6, <3>7 DEF caption
  <2> HIDE DEF t
  <2>3. ASSUME NEW p \in DOMAIN t PROVE t[p].word_start < t[p].word_end
    <3>1. CASE payloads[p].chunk_type = "image_caption"
      <4>1. payloads[p].word_start = 0
        BY <2>1, <2>2, <3>1 DEF TableInvariant, CutMarks
      <4> QED  BY <2>1, <2>2, <3>1, <4>1
    <3>2. CASE payloads[p].chunk_type # "image_caption"
      <4>1. payloads[p].word_start < payloads[p].word_end
        BY <2>1, <2>2, <3>2 DEF TableInvariant, CutMarks
      <4> QED  BY <2>1, <2>2, <3>2, <4>1
    <3> QED  BY <3>1, <3>2
  <2>4. ASSUME NEW p \in DOMAIN t, NEW q \in DOMAIN t, Follows(t, p, q), LooksNext(t, p, q)
        PROVE  t[p].block = t[q].block
    <3>1. /\ p \in 1 .. n /\ q \in 1 .. n /\ p < q /\ SameRun(t, p, q)
          /\ \A r \in 1 .. n : p < r /\ r < q => ~ SameRun(t, p, r)
          /\ t[q].has_offsets /\ t[q].chunk_index = t[p].chunk_index + 1
      BY <2>1, <2>4 DEF Follows, LooksNext
    <3>2. /\ payloads[p] \in Payload /\ payloads[q] \in Payload
          /\ q \in 1 .. Len(payloads) /\ payloads[q].chunk_type # "image_caption"
          /\ payloads[q].chunk_index = payloads[p].chunk_index + 1
      BY <2>2, <3>1
    <3>3. q > 1 /\ payloads[q].chunk_index # 0 /\ q - 1 \in 1 .. n /\ p <= q - 1
      <4>1. payloads[p].chunk_index \in Nat
        BY <3>2 DEF Payload
      <4> QED  BY <2>1, <3>1, <3>2, <4>1
    <3>4. Place(payloads[q - 1]) = Place(payloads[q])
      BY <3>2, <3>3 DEF TableInvariant, CutMarks
    <3>5. t[q - 1].block = t[q].block
      BY <2>2, <3>1, <3>3, <3>4
    <3>6. SameRun(t, p, q - 1)
      <4>1. payloads[q - 1].chunk_type = payloads[q].chunk_type
        BY <3>4 DEF Place
      <4>2. /\ t[q - 1].chunk_type = t[q].chunk_type
            /\ t[q - 1].document = t[q].document
        BY <2>2, <3>1, <3>3, <4>1
      <4> QED  BY <3>1, <4>2 DEF SameRun
    <3>7. q - 1 = p
      BY <2>1, <3>1, <3>3, <3>6
    <3> QED  BY <3>5, <3>7
  <2>5. ASSUME NEW p \in DOMAIN t, NEW q \in DOMAIN t, IsNext(t, p, q)
        PROVE  /\ Follows(t, p, q) /\ LooksNext(t, p, q)
               /\ t[p].word_end <= t[q].word_end
    <3>1. /\ p \in 1 .. n /\ q \in 1 .. n /\ t[p].has_offsets /\ t[q].has_offsets
          /\ t[p].block = t[q].block /\ t[q].chunk_index = t[p].chunk_index + 1
      BY <2>1, <2>5 DEF IsNext
    <3>2. /\ p \in 1 .. Len(payloads) /\ q \in 1 .. Len(payloads) /\ n = Len(payloads)
          /\ payloads[p] \in Payload /\ payloads[q] \in Payload
          /\ payloads[p].chunk_type # "image_caption"
          /\ payloads[q].chunk_type # "image_caption"
          /\ Place(payloads[p]) = Place(payloads[q])
          /\ payloads[q].chunk_index = payloads[p].chunk_index + 1
      BY <2>2, <3>1
    <3>3. /\ payloads[p].chunk_index \in Nat /\ payloads[q].chunk_index \in Nat
      BY <3>2 DEF Payload
    <3>4. /\ p <= q => payloads[q].chunk_index = payloads[p].chunk_index + (q - p)
          /\ q <= p => payloads[p].chunk_index = payloads[q].chunk_index + (p - q)
      BY <3>2 DEF TableInvariant, CutMarks
    <3>5. q = p + 1 /\ p < Len(payloads)
      BY <2>1, <3>1, <3>2, <3>3, <3>4
    <3>6. /\ payloads[p].word_start <= payloads[q].word_start
          /\ payloads[q].word_start <= payloads[p].word_end
          /\ payloads[p].word_end <= payloads[q].word_end
      BY <3>2, <3>5 DEF TableInvariant, CutMarks
    <3>7. LooksNext(t, p, q) /\ t[p].word_end <= t[q].word_end
      BY <2>2, <3>1, <3>6 DEF LooksNext
    <3>8. SameRun(t, p, q)
      <4>1. payloads[p].chunk_type = payloads[q].chunk_type
        BY <3>2 DEF Place
      <4> QED  BY <2>2, <3>1, <4>1 DEF SameRun
    <3>9. Follows(t, p, q)
      BY <2>1, <3>1, <3>5, <3>8 DEF Follows
    <3> QED  BY <3>7, <3>9
  <2> QED  BY <2>3, <2>4, <2>5 DEF WellCut, t
<1> QED  BY <1>1, PayloadInvariantHolds, TableInvariantHolds, PTL

\* Within the pipeline too, the loop computes the chunks of the definition.
THEOREM BlocksAreChunkedAsDefined == PayloadSpec => []ChunksAsDefined
<1>1. PayloadInit => StepsApart
  <2> SUFFICES ASSUME PayloadInit PROVE StepsApart  OBVIOUS
  <2>1. returned /\ Len(chunks) = 0
    BY DEF PayloadInit
  <2> QED  BY <2>1 DEF StepsApart
<1>2. PayloadInvariant /\ StepsApart /\ [PayloadNext]_allVars => StepsApart'
  <2> SUFFICES ASSUME PayloadInvariant, StepsApart, [PayloadNext]_allVars
               PROVE  StepsApart'
    OBVIOUS
  <2>1. CASE UNCHANGED vars
    BY <2>1 DEF vars, StepsApart, Chunk, End, Step
  <2>2. CASE TakeBlock
    <3>1. /\ start' = 0 /\ Len(chunks') = 0 /\ Step(service) \in Nat
          /\ Step(service)' = Step(service)
      BY <2>2, StepBounds
      DEF TakeBlock, PayloadInvariant, ChunkInvariant, TypeOK, Step
    <3>2. 0 * Step(service) = 0
      BY <3>1
    <3> QED  BY <3>1, <3>2 DEF StepsApart
  <2>3. CASE CutBlock
    BY <2>3, StepsApartStep DEF CutBlock, PayloadInvariant
  <2>4. CASE Collect
    <3>1. returned' = TRUE /\ Len(chunks') = 0
      BY <2>4 DEF Collect, PayloadInvariant, ChunkInvariant, TypeOK
    <3> QED  BY <3>1 DEF StepsApart
  <2> QED
    BY <2>1, <2>2, <2>3, <2>4
    DEF PayloadNext, Extract, Raise, SkipBlank, Caption, Build, EmbedBatch, Embed,
        SaveChunks, Finish, Ended, allVars
<1>3. PayloadInvariant => ChunkInvariant
  BY DEF PayloadInvariant
<1> QED
  BY <1>1, <1>2, <1>3, StepsAreTheDefinition, PayloadInvariantHolds, PTL DEF PayloadSpec

\* And its chunks stitch, and none of them straggles, in every block of every PDF.
THEOREM BlocksStitch == PayloadSpec => [](ChunksStitch /\ NoStraggler)
<1>1. PayloadInvariant => ChunksStitch /\ NoStraggler
  BY NoStraggle DEF PayloadInvariant, ChunkInvariant
<1> QED  BY <1>1, PayloadInvariantHolds, PTL
----------------------------------------------------------------------------
\* What holds for the chunks of each document holds for the table that has them all,
\* however the documents were processed in turn or at once: by expansion.py:18, which
\* compares rows of one document and type only.
THEOREM MergedTableIsWellCut ==
    ASSUME NEW t, NEW tables, NEW at,
           DOMAIN t \subseteq Nat,
           Interleaves(t, tables, at),
           \A p \in DOMAIN t : LET mine == tables[t[p].document]
                               IN  /\ DOMAIN mine \subseteq Nat
                                   /\ \A i, j \in DOMAIN mine :
                                        mine[i].document = mine[j].document
                                   /\ WellCut(mine)
    PROVE  WellCut(t)
<1>1. ASSUME NEW p \in DOMAIN t
      PROVE  t[p].word_start < t[p].word_end
  BY <1>1 DEF Interleaves, WellCut
<1>2. ASSUME NEW p \in DOMAIN t, NEW q \in DOMAIN t,
             t[p].document = t[q].document
      PROVE  LET mine == tables[t[p].document]
             IN  /\ Follows(t, p, q) <=> Follows(mine, at[p], at[q])
                 /\ LooksNext(t, p, q) <=> LooksNext(mine, at[p], at[q])
                 /\ IsNext(t, p, q) <=> IsNext(mine, at[p], at[q])
  <2> DEFINE mine == tables[t[p].document]
  <2>1. /\ at[p] \in DOMAIN mine /\ at[q] \in DOMAIN mine
        /\ \A i, j \in DOMAIN mine : mine[i].document = mine[j].document
        /\ p \in Nat /\ q \in Nat /\ DOMAIN mine \subseteq Nat
    BY <1>2 DEF Interleaves
  <2>2. p < q <=> at[p] < at[q]
    <3>1. (p < q => at[p] < at[q]) /\ (q < p => at[q] < at[p])
      BY <1>2 DEF Interleaves
    <3> QED  BY <2>1, <3>1
  <2>3. SameRun(t, p, q) <=> SameRun(mine, at[p], at[q])
    BY <1>2, <2>1 DEF Interleaves, SameRun
  <2>4. ASSUME NEW r \in DOMAIN t, t[r].document = t[p].document
        PROVE  /\ at[r] \in DOMAIN mine
               /\ p < r /\ r < q <=> at[p] < at[r] /\ at[r] < at[q]
               /\ SameRun(t, p, r) <=> SameRun(mine, at[p], at[r])
    <3>1. at[r] \in DOMAIN mine /\ r \in Nat
      BY <2>4 DEF Interleaves
    <3>2. /\ p < r => at[p] < at[r]
          /\ r < p => at[r] < at[p]
          /\ r < q => at[r] < at[q]
          /\ q < r => at[q] < at[r]
      BY <1>2, <2>4 DEF Interleaves
    <3>3. p < r /\ r < q <=> at[p] < at[r] /\ at[r] < at[q]
      BY <2>1, <3>1, <3>2
    <3>4. SameRun(t, p, r) <=> SameRun(mine, at[p], at[r])
      BY <2>1, <2>4, <3>1 DEF Interleaves, SameRun
    <3> QED  BY <3>1, <3>3, <3>4
  <2>5. Follows(t, p, q) <=> Follows(mine, at[p], at[q])
    <3>1. ASSUME Follows(t, p, q), NEW i \in DOMAIN mine,
                 at[p] < i, i < at[q], SameRun(mine, at[p], i)
          PROVE  FALSE
      <4>1. PICK r \in DOMAIN t : t[r].document = t[p].document /\ at[r] = i
        BY DEF Interleaves
      <4> QED  BY <2>4, <3>1, <4>1 DEF Follows
    <3>2. ASSUME Follows(mine, at[p], at[q]), NEW r \in DOMAIN t,
                 p < r, r < q, SameRun(t, p, r)
          PROVE  FALSE
      BY <2>4, <3>2 DEF Follows, SameRun
    <3> QED  BY <2>2, <2>3, <3>1, <3>2 DEF Follows
  <2>6. LooksNext(t, p, q) <=> LooksNext(mine, at[p], at[q])
    BY <1>2 DEF Interleaves, LooksNext
  <2>7. IsNext(t, p, q) <=> IsNext(mine, at[p], at[q])
    BY <1>2 DEF Interleaves, IsNext
  <2> QED  BY <2>5, <2>6, <2>7
<1>3. ASSUME NEW p \in DOMAIN t, NEW q \in DOMAIN t,
             Follows(t, p, q), LooksNext(t, p, q)
      PROVE  t[p].block = t[q].block
  <2>1. t[p].document = t[q].document
    BY <1>3 DEF Follows, SameRun
  <2> DEFINE mine == tables[t[p].document]
  <2>2. at[p] \in DOMAIN mine /\ at[q] \in DOMAIN mine
    BY <2>1 DEF Interleaves
  <2>3. mine[at[p]].block = mine[at[q]].block
    BY <1>2, <1>3, <2>1, <2>2 DEF WellCut
  <2> QED  BY <2>1, <2>3 DEF Interleaves
<1>4. ASSUME NEW p \in DOMAIN t, NEW q \in DOMAIN t, IsNext(t, p, q)
      PROVE  /\ Follows(t, p, q) /\ LooksNext(t, p, q)
             /\ t[p].word_end <= t[q].word_end
  <2>1. t[p].document = t[q].document
    BY <1>4 DEF IsNext, Interleaves
  <2> DEFINE mine == tables[t[p].document]
  <2>2. at[p] \in DOMAIN mine /\ at[q] \in DOMAIN mine
    BY <2>1 DEF Interleaves
  <2>3. /\ Follows(mine, at[p], at[q]) /\ LooksNext(mine, at[p], at[q])
        /\ mine[at[p]].word_end <= mine[at[q]].word_end
    BY <1>2, <1>4, <2>1, <2>2 DEF WellCut
  <2>4. t[p].word_end = mine[at[p]].word_end /\ t[q].word_end = mine[at[q]].word_end
    BY <2>1 DEF Interleaves
  <2> QED  BY <1>2, <2>1, <2>3, <2>4
<1> QED
  BY <1>1, <1>3, <1>4 DEF WellCut
=============================================================================
