------------------------- MODULE CompanyDataProofs -------------------------
(* What the transactions on the rows of two companies keep, for any number of *)
(* deleting requests and processing runs.                                     *)
EXTENDS CompanyData, TLAPS

Removers == Companies \cup Deleters

\* What the open transactions are about: a request or a pipeline that removes a source
\* removes what it belongs to as well, or puts it back without its chunk.
TransactionsHold ==
    /\ \A w \in Removers : \A x \in txn[w].adds : x.table \in {"chunk", "source"}
    /\ \A w \in Removers : \A r \in txn[w].removes :
         r.table = "source" =>
            Cascades(r) \cap txn[w].removes # {} \/ Source(r.of, 0) \in txn[w].adds
    /\ txn["save"].phase # "none" => \E x \in txn["save"].adds : x.table = "source"

\* No committed row refers to a row that is gone: PostgreSQL's own promise, which the
\* theorems below build on.
ReferencesHold == \A r \in rows : References(r) \subseteq rows

DataInvariant == TypeOK /\ ReferencesHold

RowsInvariant == DataInvariant /\ TransactionsHold /\ CompletedIsSourced

\* The rows a handler may name.
LEMMA RowTypes ==
    /\ \A c \in Companies : Company(c) \in Rows /\ Document(c) \in Rows
    /\ \A c \in Companies, n \in 1 .. MaxRuns : Chunk(c, n) \in Rows
    /\ Material \in Rows
    /\ \A c \in Companies, n \in 0 .. MaxRuns : Source(c, n) \in Rows
BY DEF Rows

LEMMA SourceRows ==
    ASSUME NEW r \in Rows, r.table = "source"
    PROVE  /\ r.of \in Companies
           /\ Cascades(r) = {Material, Company(r.of), Document(r.of)}
           /\ Cascades(r) \subseteq References(r)
<1>1. r.of \in Companies
  BY DEF Rows, Row, Company, Document, Chunk, Material, Source
<1> QED  BY <1>1 DEF Cascades, References

LEMMA WriterTypes ==
    /\ "create" \in Writers /\ "save" \in Writers
    /\ Removers \subseteq Writers
    /\ "create" \notin Removers /\ "save" \notin Removers
BY WriterAssumption DEF Writers, Removers, Companies

\* A handler that opens or advances transaction w, and nothing else of the data.
LEMMA OpenStep ==
    ASSUME RowsInvariant, NEW w \in Writers, NEW t \in Transaction,
           txn' = [txn EXCEPT ![w] = t],
           UNCHANGED <<rows, materials, documents>>,
           w \in Removers => /\ \A x \in t.adds : x.table \in {"chunk", "source"}
                             /\ \A r \in t.removes : r.table = "source" =>
                                  \/ Cascades(r) \cap t.removes # {}
                                  \/ Source(r.of, 0) \in t.adds,
           w = "save" /\ t.phase # "none" => \E x \in t.adds : x.table = "source"
    PROVE  RowsInvariant'
<1> USE DEF RowsInvariant, DataInvariant
<1>1. txn \in [Writers -> Transaction] /\ txn' \in [Writers -> Transaction]
  BY DEF TypeOK
<1>2. TypeOK'
  BY <1>1 DEF TypeOK, materials, documents
<1>3. \A v \in Writers : txn'[v] = IF v = w THEN t ELSE txn[v]
  BY <1>1
<1>4. TransactionsHold'
  <2>1. \A v \in Removers : v # w => txn'[v] = txn[v]
    BY <1>3, WriterTypes
  <2>2. w \in Removers => txn'[w] = t
    BY <1>3
  <2>3. \A v \in Removers : \A x \in txn'[v].adds : x.table \in {"chunk", "source"}
    BY <2>1, <2>2 DEF TransactionsHold
  <2>4. \A v \in Removers : \A r \in txn'[v].removes :
          r.table = "source" =>
             Cascades(r) \cap txn'[v].removes # {} \/ Source(r.of, 0) \in txn'[v].adds
    BY <2>1, <2>2 DEF TransactionsHold
  <2>5. txn'["save"].phase # "none" => \E x \in txn'["save"].adds : x.table = "source"
    BY <1>3, WriterTypes DEF TransactionsHold
  <2> QED  BY <2>3, <2>4, <2>5 DEF TransactionsHold
<1>5. ReferencesHold' /\ CompletedIsSourced'
  BY DEF ReferencesHold, CompletedIsSourced, Sources, materials, documents
<1> QED  BY <1>2, <1>4, <1>5

\* The end of transaction w, one way or the other.
LEMMA EndsClean ==
    ASSUME RowsInvariant, NEW w \in Writers, txn' = [txn EXCEPT ![w] = NoTransaction]
    PROVE  txn' \in [Writers -> Transaction] /\ TransactionsHold'
<1> USE DEF RowsInvariant, DataInvariant
<1>1. txn \in [Writers -> Transaction] /\ NoTransaction \in Transaction
  BY DEF TypeOK, NoTransaction, Transaction
<1>2. \A v \in Writers : txn'[v] = IF v = w THEN NoTransaction ELSE txn[v]
  BY <1>1
<1>3. \A v \in Removers : txn'[v] = NoTransaction \/ txn'[v] = txn[v]
  BY <1>2, WriterTypes
<1>4. txn'["save"] = NoTransaction \/ txn'["save"] = txn["save"]
  BY <1>2, WriterTypes
<1>5. /\ \A v \in Removers : \A x \in txn'[v].adds : x.table \in {"chunk", "source"}
      /\ \A v \in Removers : \A r \in txn'[v].removes :
           r.table = "source" =>
              Cascades(r) \cap txn'[v].removes # {} \/ Source(r.of, 0) \in txn'[v].adds
  BY <1>3 DEF TransactionsHold, NoTransaction
<1>6. txn'["save"].phase # "none" => \E x \in txn'["save"].adds : x.table = "source"
  BY <1>4 DEF TransactionsHold, NoTransaction
<1> QED  BY <1>1, <1>5, <1>6 DEF TransactionsHold

\* A commit keeps the foreign keys: it is rolled back otherwise.
LEMMA CommitKeeps ==
    ASSUME RowsInvariant, NEW w \in Writers, Commits(w)
    PROVE  rows' \subseteq Rows /\ ReferencesHold'
<1>1. txn[w] \in Transaction /\ rows \subseteq Rows
  BY DEF RowsInvariant, DataInvariant, TypeOK
<1>2. rows' = After(w) /\ \A r \in After(w) : References(r) \subseteq After(w)
  BY DEF Commits, Sound
<1> QED  BY <1>1, <1>2 DEF ReferencesHold, After, Transaction

\* A pipeline or a deletion leaves a source of a company if the material and the company's
\* document stay.
LEMMA SourceOfCompanyStays ==
    ASSUME RowsInvariant, NEW w \in Removers, Commits(w), NEW c \in Companies,
           SourcesOf(c) # {}, Material \in rows', Document(c) \in rows'
    PROVE  SourcesOf(c)' # {}
<1>1. rows' = (rows \ txn[w].removes) \cup txn[w].adds /\ ReferencesHold' /\ w \in Writers
  BY CommitKeeps, WriterTypes DEF Commits, After
<1>2. PICK r \in rows : r.table = "source" /\ r.of = c
  BY DEF SourcesOf
<1>3. Cascades(r) = {Material, Company(c), Document(c)}
  BY <1>2, SourceRows DEF RowsInvariant, DataInvariant, TypeOK
<1>4. CASE r \notin txn[w].removes
  BY <1>1, <1>2, <1>4 DEF SourcesOf
<1>5. CASE Source(c, 0) \in txn[w].adds
  <2>1. Source(c, 0).table = "source" /\ Source(c, 0).of = c
    BY DEF Source, Row
  <2> QED  BY <1>1, <1>5, <2>1 DEF SourcesOf
<1>6. CASE Cascades(r) \cap txn[w].removes # {}
  <2>1. PICK x \in {Material, Company(c), Document(c)} : x \in txn[w].removes
    BY <1>3, <1>6
  <2>2. x.table \notin {"chunk", "source"}
    BY DEF Material, Company, Document, Row
  <2>3. x \notin rows'
    BY <1>1, <2>1, <2>2 DEF RowsInvariant, TransactionsHold
  <2>4. Company(c) \in rows'
    <3>1. Company(c) \in References(Document(c))
      BY DEF References, Document, Row
    <3> QED  BY <1>1, <3>1 DEF ReferencesHold
  <2> QED  BY <2>1, <2>3, <2>4
<1> QED
  BY <1>2, <1>4, <1>5, <1>6 DEF RowsInvariant, TransactionsHold

LEMMA SourceStays ==
    ASSUME RowsInvariant, NEW w \in Removers, Commits(w), Sources # {},
           Material \in rows', \A c \in Companies : Document(c) \in rows'
    PROVE  Sources' # {}
<1>1. PICK r \in rows : r.table = "source"
  BY DEF Sources
<1>2. r.of \in Companies /\ SourcesOf(r.of) # {}
  BY <1>1, SourceRows DEF RowsInvariant, DataInvariant, TypeOK, SourcesOf
<1>3. SourcesOf(r.of)' # {}
  BY <1>2, SourceOfCompanyStays
<1> QED  BY <1>3 DEF SourcesOf, Sources

\* A handler that neither opens nor ends a transaction and completes nothing.
LEMMA QuietStep ==
    ASSUME RowsInvariant, TypeOK', txn' = txn, rows' = rows,
           status' = "completed" => status = "completed"
    PROVE  RowsInvariant'
BY DEF RowsInvariant, DataInvariant, ReferencesHold, TransactionsHold, CompletedIsSourced,
       Sources

\* A transaction that is rolled back.
LEMMA RollbackStep ==
    ASSUME RowsInvariant, NEW w \in Writers, RollsBack(w),
           status' \in {status, "failed"}, worker' \in {worker, "idle"},
           retrieved' = retrieved, runs' = runs,
           document' \in [Companies -> {"processing", "processed", "failed"}],
           pipeline' \in [Companies -> {"idle", "running", "saved"}]
    PROVE  RowsInvariant'
<1>1. txn' \in [Writers -> Transaction] /\ TransactionsHold' /\ rows' = rows
  BY EndsClean DEF RollsBack
<1> QED
  BY <1>1
  DEF RowsInvariant, DataInvariant, TypeOK, ReferencesHold, CompletedIsSourced, Sources

\* The material's handlers.
LEMMA CreateStep ==
    ASSUME RowsInvariant, Create
    PROVE  RowsInvariant'
<1>1. CASE BeginCreate
  <2> DEFINE t == [phase |-> "written", adds |-> {Material}, removes |-> {}]
  <2>1. t \in Transaction
    BY RowTypes DEF Transaction
  <2>2. txn' = [txn EXCEPT !["create"] = t] /\ UNCHANGED <<rows, materials, documents>>
    BY <1>1 DEF BeginCreate, Begins
  <2> HIDE DEF t
  <2> QED  BY <2>1, <2>2, OpenStep, WriterTypes
<1>2. CASE CommitCreate
  <2>1. /\ rows' \subseteq Rows /\ ReferencesHold'
        /\ txn' \in [Writers -> Transaction] /\ TransactionsHold'
    BY <1>2, CommitKeeps, EndsClean, WriterTypes DEF CommitCreate, Commits
  <2> QED
    BY <1>2, <2>1
    DEF CommitCreate, documents, RowsInvariant, DataInvariant, TypeOK, CompletedIsSourced
<1>3. CASE RollbackCreate
  BY <1>3, RollbackStep, WriterTypes
  DEF RollbackCreate, materials, documents, RowsInvariant, DataInvariant, TypeOK
<1> QED  BY <1>1, <1>2, <1>3 DEF Create

LEMMA BeginSaveStep ==
    ASSUME RowsInvariant, BeginSave
    PROVE  RowsInvariant'
<1>1. PICK adds \in CitedSources : Begins("save", "written", adds, Sources)
  BY DEF BeginSave
<1>2. PICK cited \in (SUBSET Companies) \ {{}} : adds = {Source(c, retrieved[c]) : c \in cited}
  BY DEF CitedSources
<1> DEFINE t == [phase |-> "written", adds |-> adds, removes |-> Sources]
<1>3. \A c \in Companies : retrieved[c] \in 0 .. MaxRuns
  BY DEF RowsInvariant, DataInvariant, TypeOK
<1>4. adds \subseteq Rows /\ Sources \subseteq Rows
  BY <1>2, <1>3, RowTypes DEF RowsInvariant, DataInvariant, TypeOK, Sources
<1>5. t \in Transaction
  BY <1>4 DEF Transaction
<1>6. \E x \in adds : x.table = "source"
  <2>1. PICK c \in cited : TRUE
    BY <1>2
  <2>2. Source(c, retrieved[c]) \in adds /\ Source(c, retrieved[c]).table = "source"
    BY <1>2, <2>1 DEF Source, Row
  <2> QED  BY <2>2
<1>7. txn' = [txn EXCEPT !["save"] = t] /\ UNCHANGED <<rows, materials, documents>>
  BY <1>1 DEF BeginSave, Begins
<1>8. \E x \in t.adds : x.table = "source"
  BY <1>6
<1> HIDE DEF t
<1> QED  BY <1>5, <1>7, <1>8, OpenStep, WriterTypes

LEMMA GenerateStep ==
    ASSUME RowsInvariant, Generate \/ Regenerate
    PROVE  RowsInvariant'
<1>1. CASE Claim \/ GenerationFails
  BY <1>1, QuietStep
  DEF Claim, GenerationFails, SetStatus, documents, RowsInvariant, DataInvariant, TypeOK
<1>2. ASSUME NEW c \in Companies, NEW from, NEW to \in {"receiver", "generate"},
             Retrieve(c, from, to)
      PROVE  RowsInvariant'
  <2>1. TypeOK'
    BY <1>2 DEF Retrieve, documents, RowsInvariant, DataInvariant, TypeOK
  <2> QED  BY <1>2, <2>1, QuietStep DEF Retrieve
<1>3. CASE CommitSave
  <2>1. /\ rows' \subseteq Rows /\ ReferencesHold'
        /\ txn' \in [Writers -> Transaction] /\ TransactionsHold'
    BY <1>3, CommitKeeps, EndsClean, WriterTypes DEF CommitSave, Commits
  <2>2. PICK x \in txn["save"].adds : x.table = "source"
    BY <1>3 DEF CommitSave, Commits, Ready, RowsInvariant, TransactionsHold
  <2>3. x \in Sources'
    BY <1>3, <2>2 DEF CommitSave, Commits, After, Sources
  <2> QED
    BY <1>3, <2>1, <2>3
    DEF CommitSave, documents, RowsInvariant, DataInvariant, TypeOK, CompletedIsSourced
<1>4. CASE RollbackSave
  BY <1>4, RollbackStep, WriterTypes
  DEF RollbackSave, SetStatus, documents, RowsInvariant, DataInvariant, TypeOK
<1>5. CASE Regenerate
  <2>1. TypeOK' /\ txn' = txn /\ rows' = rows \ Sources /\ status' = "queued"
    BY <1>5 DEF Regenerate, SetStatus, documents, RowsInvariant, DataInvariant, TypeOK
  <2>2. ReferencesHold'
    <3>1. ASSUME NEW r \in rows', NEW x \in References(r) PROVE x.table # "source"
      <4>1. r \in Rows
        BY <2>1 DEF TypeOK
      <4>2. r.table \in {"company", "document", "chunk", "material", "source"}
        BY <4>1 DEF Rows, Company, Document, Chunk, Material, Source, Row
      <4>3. CASE r.table = "company"
        BY <4>3 DEF References
      <4>4. CASE r.table # "company"
        <5>1. \/ \E c : x = Company(c)
              \/ \E c : x = Document(c)
              \/ \E c, n : x = Chunk(c, n)
              \/ x = Material
          BY <4>2, <4>4 DEF References
        <5> QED  BY <5>1 DEF Company, Document, Chunk, Material, Row
      <4> QED  BY <4>3, <4>4
    <3>2. ASSUME NEW r \in rows' PROVE References(r) \subseteq rows'
      BY <2>1, <3>1 DEF RowsInvariant, DataInvariant, ReferencesHold, Sources
    <3> QED  BY <3>2 DEF ReferencesHold
  <2> QED
    BY <2>1, <2>2 DEF RowsInvariant, DataInvariant, TransactionsHold, CompletedIsSourced
<1> QED  BY <1>1, <1>2, <1>3, <1>4, <1>5, BeginSaveStep DEF Generate, Companies

\* The statements of Model.delete(): sources are swept with what they belong to, or
\* put back without their chunk.
LEMMA SweepStep ==
    ASSUME RowsInvariant, NEW w \in Removers, Sweeps(w)
    PROVE  RowsInvariant'
<1> DEFINE doomed == {r \in Sources : Cascades(r) \cap txn[w].removes # {}}
           citing == {r \in Sources \ doomed : References(r) \cap txn[w].removes # {}}
           t == [phase |-> "swept",
                 adds |-> txn[w].adds \cup {Source(r.of, 0) : r \in citing},
                 removes |-> txn[w].removes \cup doomed \cup citing]
<1>1. txn[w] \in Transaction /\ rows \subseteq Rows /\ w \in Writers
  BY WriterTypes DEF RowsInvariant, DataInvariant, TypeOK
<1>2. \A r \in Sources : r \in Rows /\ r.table = "source" /\ r.of \in Companies
  BY <1>1, SourceRows DEF Sources
<1>3. txn' = [txn EXCEPT ![w] = t] /\ UNCHANGED <<rows, materials, documents>>
  BY <1>1 DEF Sweeps, RowsInvariant, DataInvariant, TypeOK
<1>4. t \in Transaction
  <2>1. {Source(r.of, 0) : r \in citing} \subseteq Rows
    <3>1. 0 \in 0 .. MaxRuns
      BY RunAssumption
    <3> QED  BY <1>2, <3>1, RowTypes
  <2>2. doomed \subseteq Rows /\ citing \subseteq Rows
    BY <1>2
  <2> QED  BY <1>1, <2>1, <2>2 DEF Transaction
<1>5. \A x \in t.adds : x.table \in {"chunk", "source"}
  <2>1. \A r \in citing : Source(r.of, 0).table = "source"
    BY DEF Source, Row
  <2>2. \A x \in txn[w].adds : x.table \in {"chunk", "source"}
    BY DEF RowsInvariant, TransactionsHold
  <2> QED  BY <2>1, <2>2
<1>6. \A r \in t.removes : r.table = "source" =>
         Cascades(r) \cap t.removes # {} \/ Source(r.of, 0) \in t.adds
  <2> SUFFICES ASSUME NEW r \in t.removes, r.table = "source"
               PROVE  Cascades(r) \cap t.removes # {} \/ Source(r.of, 0) \in t.adds
    OBVIOUS
  <2>1. CASE r \in txn[w].removes
    BY <2>1 DEF RowsInvariant, TransactionsHold
  <2>2. CASE r \in doomed
    BY <2>2
  <2>3. CASE r \in citing
    BY <2>3
  <2> QED  BY <2>1, <2>2, <2>3
<1> HIDE DEF t
<1> QED  BY <1>1, <1>3, <1>4, <1>5, <1>6, OpenStep, WriterTypes

LEMMA WriteStep ==
    ASSUME RowsInvariant, NEW w \in Removers, Writes(w)
    PROVE  RowsInvariant'
<1> DEFINE t == [txn[w] EXCEPT !.phase = "written"]
<1>1. txn[w] \in Transaction /\ w \in Writers
  BY WriterTypes DEF RowsInvariant, DataInvariant, TypeOK
<1>2. t \in Transaction /\ t.adds = txn[w].adds /\ t.removes = txn[w].removes
  BY <1>1 DEF Transaction
<1>3. txn' = [txn EXCEPT ![w] = t] /\ UNCHANGED <<rows, materials, documents>>
  BY <1>1 DEF Writes, RowsInvariant, DataInvariant, TypeOK
<1>4. /\ \A x \in t.adds : x.table \in {"chunk", "source"}
      /\ \A r \in t.removes : r.table = "source" =>
           Cascades(r) \cap t.removes # {} \/ Source(r.of, 0) \in t.adds
  BY <1>2 DEF RowsInvariant, TransactionsHold
<1> HIDE DEF t
<1> QED  BY <1>1, <1>2, <1>3, <1>4, OpenStep, WriterTypes

\* A removing transaction that commits.
LEMMA RemoverCommits ==
    ASSUME RowsInvariant, NEW w \in Removers, Commits(w), UNCHANGED <<materials, document, runs>>,
           pipeline' \in [Companies -> {"idle", "running", "saved"}]
    PROVE  RowsInvariant'
<1>1. /\ rows' \subseteq Rows /\ ReferencesHold' /\ w \in Writers
      /\ txn' \in [Writers -> Transaction] /\ TransactionsHold'
  BY CommitKeeps, EndsClean, WriterTypes DEF Commits
<1>2. TypeOK'
  BY <1>1 DEF materials, RowsInvariant, DataInvariant, TypeOK
<1>3. CompletedIsSourced'
  <2> SUFFICES ASSUME status' = "completed", Material \in rows',
                      \A c \in Companies : Document(c) \in rows'
               PROVE  Sources' # {}
    BY DEF CompletedIsSourced
  <2>1. /\ Material \in rows /\ \A c \in Companies : Document(c) \in rows
    <3>1. \A x \in txn[w].adds : x.table \in {"chunk", "source"}
      BY DEF RowsInvariant, TransactionsHold
    <3>2. Material.table = "material" /\ \A c \in Companies : Document(c).table = "document"
      BY DEF Material, Document, Row
    <3> QED  BY <3>1, <3>2 DEF Commits, After
  <2>2. Sources # {}
    BY <2>1 DEF materials, RowsInvariant, CompletedIsSourced
  <2> QED  BY <2>2, SourceStays
<1> QED  BY <1>1, <1>2, <1>3 DEF RowsInvariant, DataInvariant

\* The pipelines' handlers.
LEMMA ProcessStep ==
    ASSUME RowsInvariant, NEW c \in Companies, StartProcessing(c) \/ Process(c)
    PROVE  RowsInvariant'
<1> USE DEF RowsInvariant, DataInvariant
<1>1. c \in Removers /\ c \in Writers
  BY WriterTypes DEF Removers
<1>2. CASE StartProcessing(c)
  <2>1. runs[c] \in 1 .. MaxRuns /\ runs[c] + 1 \in 1 .. MaxRuns
    BY <1>2, RunAssumption DEF StartProcessing, TypeOK
  <2>2. TypeOK'
    BY <1>2, <2>1 DEF StartProcessing, materials, TypeOK
  <2> QED  BY <1>2, <2>2, QuietStep DEF StartProcessing, materials
<1>3. CASE BeginReplace(c)
  <2> DEFINE old == {r \in rows : r.table = "chunk" /\ r.of = c}
             t == [phase |-> "collected", adds |-> {Chunk(c, runs[c])}, removes |-> old]
  <2>1. Chunk(c, runs[c]) \in Rows /\ old \subseteq Rows
    BY RowTypes DEF TypeOK
  <2>2. t \in Transaction
    BY <2>1 DEF Transaction
  <2>3. txn' = [txn EXCEPT ![c] = t] /\ UNCHANGED <<rows, materials, documents>>
    BY <1>3 DEF BeginReplace, Begins
  <2>4. /\ \A x \in t.adds : x.table \in {"chunk", "source"}
        /\ \A r \in t.removes : r.table # "source"
    BY DEF Chunk, Row
  <2> HIDE DEF t
  <2> QED  BY <1>1, <2>2, <2>3, <2>4, OpenStep, WriterTypes
<1>4. CASE CommitReplace(c)
  BY <1>1, <1>4, RemoverCommits DEF CommitReplace, TypeOK
<1>5. ASSUME NEW s \in {"processed", "failed"}, Ends(c, s)
      PROVE  /\ document' \in [Companies -> {"processing", "processed", "failed"}]
             /\ pipeline' \in [Companies -> {"idle", "running", "saved"}]
             /\ UNCHANGED <<status, worker, retrieved, runs>>
  BY <1>5 DEF Ends, materials, TypeOK
<1>6. CASE RollbackReplace(c)
  BY <1>1, <1>5, <1>6, RollbackStep DEF RollbackReplace
<1>7. CASE Finish(c) \/ Fail(c)
  <2>1. /\ TypeOK' /\ status' = status /\ rows' = rows /\ txn' = txn
    BY <1>5, <1>7 DEF Finish, Fail, TypeOK
  <2> QED  BY <2>1, QuietStep
<1> QED
  BY <1>1, <1>2, <1>3, <1>4, <1>6, <1>7, SweepStep, WriteStep DEF Process

\* The deleting requests' handlers.
LEMMA DeleteStep ==
    ASSUME RowsInvariant, NEW w \in Deleters, BeginDelete(w) \/ Delete(w)
    PROVE  RowsInvariant'
<1> USE DEF RowsInvariant, DataInvariant
<1>1. w \in Removers /\ w \in Writers
  BY WriterTypes DEF Removers
<1>2. CASE BeginDelete(w)
  <2>1. PICK r \in rows : /\ r.table \in {"company", "document", "material"}
                          /\ Begins(w, "collected", {}, Collected({r}))
    BY <1>2 DEF BeginDelete
  <2> DEFINE t == [phase |-> "collected", adds |-> {}, removes |-> Collected({r})]
  <2>2. Collected({r}) \subseteq rows /\ \A x \in Collected({r}) : x.table # "source"
    BY <2>1 DEF Collected, WithChildren, Sources
  <2>3. t \in Transaction
    BY <2>2 DEF Transaction, TypeOK
  <2>4. txn' = [txn EXCEPT ![w] = t] /\ UNCHANGED <<rows, materials, documents>>
    BY <1>2, <2>1 DEF BeginDelete, Begins
  <2>5. t.adds = {} /\ \A x \in t.removes : x.table # "source"
    BY <2>2
  <2> HIDE DEF t
  <2> QED  BY <1>1, <2>3, <2>4, <2>5, OpenStep, WriterTypes
<1>3. CASE CommitDelete(w)
  BY <1>1, <1>3, RemoverCommits DEF CommitDelete, documents, TypeOK
<1>4. CASE RollbackDelete(w)
  BY <1>1, <1>4, RollbackStep DEF RollbackDelete, materials, documents, TypeOK
<1> QED  BY <1>1, <1>2, <1>3, <1>4, SweepStep, WriteStep DEF Delete

\* The invariant of the committed rows and the transactions on them.
THEOREM RowsInvariantHolds == Spec => []RowsInvariant
<1>1. Init => RowsInvariant
  <2> SUFFICES ASSUME Init PROVE RowsInvariant  OBVIOUS
  <2>1. rows \subseteq Rows
    BY RowTypes, RunAssumption DEF Init
  <2>2. txn \in [Writers -> Transaction] /\ \A w \in Writers : txn[w] = NoTransaction
    BY DEF Init, NoTransaction, Transaction
  <2>3. TypeOK
    BY <2>1, <2>2, RunAssumption DEF Init, TypeOK
  <2>4. ReferencesHold
    <3> SUFFICES ASSUME NEW r \in rows PROVE References(r) \subseteq rows
      BY DEF ReferencesHold
    <3>1. CASE \E c \in Companies : r = Company(c)
      BY <3>1 DEF References, Company, Row
    <3>2. ASSUME NEW c \in Companies, r = Document(c) PROVE References(r) \subseteq rows
      BY <3>2 DEF Init, References, Document, Row
    <3>3. ASSUME NEW c \in Companies, r = Chunk(c, 1) PROVE References(r) \subseteq rows
      BY <3>3 DEF Init, References, Chunk, Row
    <3> QED  BY <3>1, <3>2, <3>3 DEF Init
  <2>5. TransactionsHold
    BY <2>2, WriterTypes DEF TransactionsHold, NoTransaction
  <2> QED
    BY <2>3, <2>4, <2>5 DEF Init, RowsInvariant, DataInvariant, CompletedIsSourced
<1>2. RowsInvariant /\ [Next]_vars => RowsInvariant'
  <2>1. ASSUME RowsInvariant, UNCHANGED vars PROVE RowsInvariant'
    BY <2>1, QuietStep
    DEF vars, materials, documents, RowsInvariant, DataInvariant, TypeOK
  <2> QED
    BY <2>1, CreateStep, GenerateStep, ProcessStep, DeleteStep DEF Next
<1> QED  BY <1>1, <1>2, PTL DEF Spec

\* A completed material shows its sources as long as its documents are there, however
\* often these are processed again and whatever deletions fail.
THEOREM CompletedMaterialsShowSources == Spec => []CompletedIsSourced
<1>1. RowsInvariant => CompletedIsSourced
  BY DEF RowsInvariant
<1> QED  BY <1>1, RowsInvariantHolds, PTL
----------------------------------------------------------------------------
(* Sources come with the completion of a run and go one by one. *)

\* Only a completed material has sources, and no worker is at it; a run that is saved
\* finds no sources to replace, and a material that is created has none.
SourcesSettled ==
    /\ Sources # {} => status = "completed" /\ worker = "idle"
    /\ status = "none" => worker = "idle" /\ Material \notin rows
    /\ txn["create"].phase # "none" =>
         status = "none" /\ txn["create"].adds = {Material} /\ txn["create"].removes = {}
    /\ txn["save"].phase # "none" =>
         /\ worker = "generate" /\ txn["save"].removes = {}
         /\ \A x \in txn["save"].adds : x.table = "source"

\* A source that a transaction has deleted or put back is locked, so that it is still
\* there when the transaction commits and no other has touched it.
SourcesLocked ==
    \A w \in Removers :
        /\ \A r \in txn[w].removes : r.table = "source" =>
             /\ r \in rows /\ txn[w].phase \in {"swept", "written"}
             /\ \A v \in Removers \ {w} : r \notin txn[v].removes
        /\ (\E x \in txn[w].adds : x.table = "source") =>
             \E r \in txn[w].removes : r.table = "source"

SourceInvariant == SourcesSettled /\ SourcesLocked

\* As long as the removers' transactions are what they were and the sources are there.
LEMMA LocksStay ==
    ASSUME SourcesLocked, \A w \in Removers : txn'[w] = txn[w], Sources \subseteq rows'
    PROVE  SourcesLocked'
BY DEF SourcesLocked, Sources

\* A request or a pipeline that opens, advances or ends its transaction.
LEMMA RemoverAdvances ==
    ASSUME RowsInvariant, SourceInvariant, NEW w \in Removers, NEW t,
           txn' = [txn EXCEPT ![w] = t], UNCHANGED <<rows, materials>>,
           \A r \in t.removes : r.table = "source" =>
              /\ r \in rows /\ t.phase \in {"swept", "written"}
              /\ \A v \in Removers \ {w} : r \notin txn[v].removes,
           (\E x \in t.adds : x.table = "source") => \E r \in t.removes : r.table = "source"
    PROVE  SourceInvariant'
<1>1. /\ txn'[w] = t
      /\ \A v \in Writers : v # w => txn'[v] = txn[v]
      /\ "create" # w /\ "save" # w /\ "create" \in Writers /\ "save" \in Writers
      /\ Removers \subseteq Writers
  BY WriterTypes DEF RowsInvariant, DataInvariant, TypeOK
<1>2. SourcesSettled'
  BY <1>1 DEF SourceInvariant, SourcesSettled, Sources, materials
<1>3. ASSUME NEW u \in Removers, NEW r \in txn'[u].removes, r.table = "source"
      PROVE  /\ r \in rows' /\ txn'[u].phase \in {"swept", "written"}
             /\ \A v \in Removers \ {u} : r \notin txn'[v].removes
  BY <1>1, <1>3 DEF SourceInvariant, SourcesLocked
<1>4. ASSUME NEW u \in Removers, \E x \in txn'[u].adds : x.table = "source"
      PROVE  \E r \in txn'[u].removes : r.table = "source"
  BY <1>1, <1>4 DEF SourceInvariant, SourcesLocked
<1>5. SourcesLocked'
  BY <1>3, <1>4 DEF SourcesLocked
<1> QED  BY <1>2, <1>5 DEF SourceInvariant

LEMMA SweptAreLocked ==
    ASSUME RowsInvariant, SourceInvariant, NEW w \in Removers, Sweeps(w)
    PROVE  SourceInvariant'
<1> DEFINE doomed == {r \in Sources : Cascades(r) \cap txn[w].removes # {}}
           citing == {r \in Sources \ doomed : References(r) \cap txn[w].removes # {}}
           t == [phase |-> "swept",
                 adds |-> txn[w].adds \cup {Source(r.of, 0) : r \in citing},
                 removes |-> txn[w].removes \cup doomed \cup citing]
<1>1. /\ txn' = [txn EXCEPT ![w] = t] /\ UNCHANGED <<rows, materials, documents>>
      /\ txn[w].phase = "collected" /\ ~ Locked(doomed \cup citing) /\ w \in Writers
  BY WriterTypes DEF Sweeps, RowsInvariant, DataInvariant, TypeOK
<1>2. \A r \in doomed \cup citing : r \in rows /\ r.table = "source"
  BY DEF Sources
<1>3. \A r \in txn[w].removes : r.table # "source"
  BY <1>1 DEF SourceInvariant, SourcesLocked
<1>4. \A x \in txn[w].adds : x.table # "source"
  BY <1>3 DEF SourceInvariant, SourcesLocked
<1>5. ASSUME NEW r \in doomed \cup citing, NEW v \in Removers, r \in txn[v].removes
      PROVE  FALSE
  <2>1. txn[v].phase \in {"swept", "written"}
    BY <1>2, <1>5 DEF SourceInvariant, SourcesLocked
  <2>2. r \in Holds(v) /\ v \in Writers
    BY <1>2, <1>5, <2>1, WriterTypes DEF Holds
  <2> QED  BY <1>1, <2>2 DEF Locked
<1>6. \A r \in t.removes : r.table = "source" => r \in doomed \cup citing
  BY <1>3
<1>7. \A r \in t.removes : r.table = "source" =>
         /\ r \in rows /\ t.phase \in {"swept", "written"}
         /\ \A v \in Removers \ {w} : r \notin txn[v].removes
  BY <1>2, <1>5, <1>6
<1>8. (\E x \in t.adds : x.table = "source") => \E r \in t.removes : r.table = "source"
  <2> SUFFICES ASSUME NEW x \in t.adds, x.table = "source"
               PROVE  \E r \in t.removes : r.table = "source"
    OBVIOUS
  <2>1. PICK r \in citing : TRUE
    BY <1>4
  <2> QED  BY <1>2, <2>1
<1> HIDE DEF t
<1> QED  BY <1>1, <1>7, <1>8, RemoverAdvances

LEMMA WrittenStaysLocked ==
    ASSUME RowsInvariant, SourceInvariant, NEW w \in Removers, Writes(w)
    PROVE  SourceInvariant'
<1> DEFINE t == [txn[w] EXCEPT !.phase = "written"]
<1>1. t.adds = txn[w].adds /\ t.removes = txn[w].removes /\ t.phase = "written"
  BY WriterTypes DEF RowsInvariant, DataInvariant, TypeOK, Transaction
<1>2. txn' = [txn EXCEPT ![w] = t] /\ UNCHANGED <<rows, materials>>
  BY WriterTypes DEF Writes, RowsInvariant, DataInvariant, TypeOK
<1> HIDE DEF t
<1>3. \A r \in t.removes : r.table = "source" =>
         /\ r \in rows /\ t.phase \in {"swept", "written"}
         /\ \A v \in Removers \ {w} : r \notin txn[v].removes
  BY <1>1 DEF SourceInvariant, SourcesLocked
<1>4. (\E x \in t.adds : x.table = "source") => \E r \in t.removes : r.table = "source"
  BY <1>1 DEF SourceInvariant, SourcesLocked
<1> QED  BY <1>2, <1>3, <1>4, RemoverAdvances

LEMMA RemoverSources ==
    ASSUME RowsInvariant, SourceInvariant, NEW w \in Removers, Commits(w), UNCHANGED materials
    PROVE  SourceInvariant'
<1>1. /\ rows' = (rows \ txn[w].removes) \cup txn[w].adds
      /\ txn'[w] = NoTransaction /\ Removers \subseteq Writers
      /\ \A v \in Writers : v # w => txn'[v] = txn[v]
      /\ "create" # w /\ "save" # w /\ "create" \in Writers /\ "save" \in Writers
  BY WriterTypes DEF Commits, After, RowsInvariant, DataInvariant, TypeOK
<1>2. \A x \in txn[w].adds : x.table \in {"chunk", "source"}
  BY DEF RowsInvariant, TransactionsHold
<1>3. Sources' # {} => Sources # {}
  <2> SUFFICES ASSUME NEW x \in Sources' PROVE Sources # {}  OBVIOUS
  <2>1. CASE x \in rows
    BY <2>1 DEF Sources
  <2>2. CASE x \notin rows
    <3>1. x \in txn[w].adds /\ x.table = "source"
      BY <1>1, <2>2 DEF Sources
    <3>2. PICK r \in txn[w].removes : r.table = "source"
      BY <3>1 DEF SourceInvariant, SourcesLocked
    <3>3. r \in rows
      BY <3>2 DEF SourceInvariant, SourcesLocked
    <3> QED  BY <3>2, <3>3 DEF Sources
  <2> QED  BY <2>1, <2>2
<1>4. Material \in rows' => Material \in rows
  <2>1. Material.table = "material"
    BY DEF Material, Row
  <2> QED  BY <1>1, <1>2, <2>1
<1>5. SourcesSettled'
  BY <1>1, <1>3, <1>4 DEF SourceInvariant, SourcesSettled, materials
<1>6. ASSUME NEW u \in Removers
      PROVE  /\ \A r \in txn'[u].removes : r.table = "source" =>
                  /\ r \in rows' /\ txn'[u].phase \in {"swept", "written"}
                  /\ \A v \in Removers \ {u} : r \notin txn'[v].removes
             /\ (\E x \in txn'[u].adds : x.table = "source") =>
                  \E r \in txn'[u].removes : r.table = "source"
  <2>1. CASE u = w
    BY <1>1, <2>1 DEF NoTransaction
  <2>2. CASE u # w
    <3>1. txn'[u] = txn[u]
      BY <1>1, <2>2
    <3>2. \A r \in txn[u].removes : r.table = "source" =>
            /\ r \in rows /\ r \notin txn[w].removes /\ txn[u].phase \in {"swept", "written"}
            /\ \A v \in Removers \ {u} : r \notin txn[v].removes
      BY <2>2 DEF SourceInvariant, SourcesLocked
    <3>3. \A v \in Removers : txn'[v] = txn[v] \/ txn'[v].removes = {}
      BY <1>1 DEF NoTransaction
    <3> QED  BY <1>1, <3>1, <3>2, <3>3 DEF SourceInvariant, SourcesLocked
  <2> QED  BY <2>1, <2>2
<1>7. SourcesLocked'
  BY <1>6 DEF SourcesLocked
<1> QED  BY <1>5, <1>7 DEF SourceInvariant

\* The handlers of pipelines and deleting requests.
LEMMA RemoverSourcesStep ==
    ASSUME RowsInvariant, SourceInvariant,
           \/ \E c \in Companies : StartProcessing(c) \/ Process(c)
           \/ \E w \in Deleters : BeginDelete(w) \/ Delete(w)
    PROVE  SourceInvariant'
<1> USE DEF RowsInvariant, DataInvariant
<1>1. ASSUME NEW c \in Companies, StartProcessing(c) \/ Finish(c) \/ Fail(c)
      PROVE  SourceInvariant'
  <2>1. UNCHANGED <<rows, txn, materials>>
    BY <1>1 DEF StartProcessing, Finish, Fail, Ends
  <2> QED
    BY <2>1 DEF materials, SourceInvariant, SourcesSettled, SourcesLocked, Sources
<1>2. ASSUME NEW w \in Removers, NEW t, txn' = [txn EXCEPT ![w] = t],
             UNCHANGED <<rows, materials>>,
             \A r \in t.removes : r.table # "source", \A x \in t.adds : x.table # "source"
      PROVE  SourceInvariant'
  BY <1>2, RemoverAdvances
<1>3. ASSUME NEW c \in Companies, BeginReplace(c) PROVE SourceInvariant'
  <2> DEFINE t == [phase |-> "collected", adds |-> {Chunk(c, runs[c])},
                   removes |-> {r \in rows : r.table = "chunk" /\ r.of = c}]
  <2>1. c \in Removers /\ txn' = [txn EXCEPT ![c] = t] /\ UNCHANGED <<rows, materials>>
    BY <1>3 DEF BeginReplace, Begins, Removers
  <2>2. (\A r \in t.removes : r.table # "source") /\ \A x \in t.adds : x.table # "source"
    BY DEF Chunk, Row
  <2> HIDE DEF t
  <2> QED  BY <1>2, <2>1, <2>2
<1>4. ASSUME NEW w \in Deleters, BeginDelete(w) PROVE SourceInvariant'
  <2>1. PICK r \in rows : /\ r.table \in {"company", "document", "material"}
                          /\ Begins(w, "collected", {}, Collected({r}))
    BY <1>4 DEF BeginDelete
  <2> DEFINE t == [phase |-> "collected", adds |-> {}, removes |-> Collected({r})]
  <2>2. w \in Removers /\ txn' = [txn EXCEPT ![w] = t] /\ UNCHANGED <<rows, materials>>
    BY <1>4, <2>1 DEF BeginDelete, Begins, Removers
  <2>3. (\A x \in t.removes : x.table # "source") /\ \A x \in t.adds : x.table # "source"
    BY <2>1 DEF Collected, WithChildren, Sources
  <2> HIDE DEF t
  <2> QED  BY <1>2, <2>2, <2>3
<1>5. ASSUME NEW w \in Removers, Writes(w) PROVE SourceInvariant'
  BY <1>5, WrittenStaysLocked
<1>6. ASSUME NEW w \in Removers, RollsBack(w), UNCHANGED materials PROVE SourceInvariant'
  <2>1. NoTransaction.removes = {} /\ NoTransaction.adds = {}
    BY DEF NoTransaction
  <2>2. txn' = [txn EXCEPT ![w] = NoTransaction] /\ UNCHANGED <<rows, materials>>
    BY <1>6 DEF RollsBack
  <2> QED  BY <1>2, <2>1, <2>2
<1>7. Companies \subseteq Removers /\ Deleters \subseteq Removers
  BY DEF Removers
<1>8. ASSUME NEW c \in Companies, Process(c) PROVE SourceInvariant'
  BY <1>1, <1>3, <1>5, <1>6, <1>7, <1>8, SweptAreLocked, RemoverSources
  DEF Process, CommitReplace, RollbackReplace, Ends
<1>9. ASSUME NEW w \in Deleters, Delete(w) PROVE SourceInvariant'
  BY <1>5, <1>6, <1>7, <1>9, SweptAreLocked, RemoverSources
  DEF Delete, CommitDelete, RollbackDelete
<1> QED  BY <1>1, <1>4, <1>8, <1>9

\* The handlers of the material.
LEMMA MaterialSourcesStep ==
    ASSUME RowsInvariant, SourceInvariant, Create \/ Generate \/ Regenerate
    PROVE  SourceInvariant'
<1> USE DEF RowsInvariant, DataInvariant
<1>0. /\ "create" \in Writers /\ "save" \in Writers
      /\ \A w \in Removers : w \in Writers /\ w # "create" /\ w # "save"
      /\ txn \in [Writers -> Transaction]
  BY WriterTypes DEF TypeOK
<1>1. CASE BeginCreate
  <2>1. /\ txn'["create"].adds = {Material} /\ txn'["create"].removes = {}
        /\ txn'["save"] = txn["save"] /\ \A w \in Removers : txn'[w] = txn[w]
        /\ UNCHANGED <<rows, materials>> /\ status = "none"
    BY <1>0, <1>1 DEF BeginCreate, Begins
  <2>2. SourcesLocked'
    BY <2>1, LocksStay DEF SourceInvariant, Sources
  <2> QED  BY <2>1, <2>2 DEF materials, SourceInvariant, SourcesSettled, Sources
<1>2. CASE CommitCreate \/ RollbackCreate
  <2>1. /\ txn["create"].phase # "none" /\ txn'["create"].phase = "none"
        /\ txn'["save"] = txn["save"] /\ \A w \in Removers : txn'[w] = txn[w]
    BY <1>0, <1>2
    DEF CommitCreate, RollbackCreate, Commits, RollsBack, Ready, NoTransaction
  <2>2. /\ status = "none" /\ txn["create"].adds = {Material} /\ txn["create"].removes = {}
    BY <2>1 DEF SourceInvariant, SourcesSettled
  <2>3. /\ worker' = worker /\ Sources' = Sources /\ Sources \subseteq rows'
        /\ \/ status' = "queued"
           \/ status' = status /\ rows' = rows
    <3>1. Material.table = "material"
      BY DEF Material, Row
    <3> QED
      BY <1>2, <2>2, <3>1
      DEF CommitCreate, RollbackCreate, Commits, RollsBack, After, materials, Sources
  <2>4. SourcesLocked'
    BY <2>1, <2>3, LocksStay DEF SourceInvariant
  <2> QED  BY <2>1, <2>2, <2>3, <2>4 DEF SourceInvariant, SourcesSettled
<1>3. ASSUME UNCHANGED <<rows, txn>>, txn["save"].phase = "none", worker # "idle" \/ status # "none",
             worker # "idle" \/ status # "completed", status' # "none"
      PROVE  SourceInvariant'
  <2>1. SourcesLocked'
    BY <1>3, LocksStay DEF SourceInvariant, Sources
  <2> QED  BY <1>3, <2>1 DEF SourceInvariant, SourcesSettled, Sources
<1>4. CASE Claim
  <2>1. txn["save"].phase = "none"
    BY <1>4 DEF Claim, SourceInvariant, SourcesSettled
  <2> QED  BY <1>3, <1>4, <2>1 DEF Claim, SetStatus
<1>5. CASE GenerationFails
  <2>1. status # "none"
    BY <1>5 DEF GenerationFails, SourceInvariant, SourcesSettled
  <2> QED  BY <1>3, <1>5, <2>1 DEF GenerationFails, SetStatus
<1>6. ASSUME NEW c, NEW from \in {"sender", "receiver"}, NEW to, Retrieve(c, from, to)
      PROVE  SourceInvariant'
  <2>1. txn["save"].phase = "none" /\ status # "none"
    BY <1>6 DEF Retrieve, SourceInvariant, SourcesSettled
  <2> QED  BY <1>3, <1>6, <2>1 DEF Retrieve
<1>7. CASE BeginSave
  <2>1. PICK adds \in CitedSources : Begins("save", "written", adds, Sources)
    BY <1>7 DEF BeginSave
  <2>2. worker = "generate" /\ Sources = {} /\ UNCHANGED <<rows, materials>>
    BY <1>7 DEF BeginSave, SourceInvariant, SourcesSettled
  <2>3. /\ txn'["save"].removes = {} /\ txn'["save"].adds = adds
        /\ txn'["create"] = txn["create"] /\ \A w \in Removers : txn'[w] = txn[w]
    BY <1>0, <2>1, <2>2 DEF Begins
  <2>4. \A x \in adds : x.table = "source"
    BY <2>1 DEF CitedSources, Source, Row
  <2>5. SourcesLocked'
    BY <2>2, <2>3, LocksStay DEF SourceInvariant, Sources
  <2> QED  BY <2>2, <2>3, <2>4, <2>5 DEF materials, SourceInvariant, SourcesSettled, Sources
<1>8. CASE CommitSave \/ RollbackSave
  <2>1. /\ txn["save"].phase # "none" /\ txn'["save"].phase = "none"
        /\ txn'["create"] = txn["create"] /\ \A w \in Removers : txn'[w] = txn[w]
        /\ worker' = "idle"
    BY <1>0, <1>8 DEF CommitSave, RollbackSave, Commits, RollsBack, Ready, NoTransaction
  <2>2. /\ worker = "generate" /\ txn["save"].removes = {}
        /\ \A x \in txn["save"].adds : x.table = "source"
        /\ status # "none" /\ Sources = {}
    BY <2>1 DEF SourceInvariant, SourcesSettled
  <2>3. txn["create"].phase = "none"
    BY <2>2 DEF SourceInvariant, SourcesSettled
  <2>4. Sources' # {} => status' = "completed"
    <3> SUFFICES ASSUME NEW r \in Sources' PROVE status' = "completed"  OBVIOUS
    <3>1. CASE RollbackSave
      BY <2>2, <3>1 DEF RollbackSave, RollsBack, Sources
    <3>2. CASE CommitSave
      <4>1. rows' = rows \cup txn["save"].adds /\ rows' \subseteq Rows /\ ReferencesHold'
        BY <1>0, <2>2, <3>2, CommitKeeps DEF CommitSave, Commits, After
      <4>2. Material \in rows'
        <5>1. r \in Rows /\ r.table = "source" /\ r \in rows'
          BY <4>1 DEF Sources
        <5>2. Material \in References(r)
          BY <5>1, SourceRows
        <5> QED  BY <4>1, <5>1, <5>2 DEF ReferencesHold
      <4>3. Material.table = "material"
        BY DEF Material, Row
      <4> QED  BY <2>2, <3>2, <4>1, <4>2, <4>3 DEF CommitSave
    <3> QED  BY <1>8, <3>1, <3>2
  <2>5. status' # "none"
    BY <1>8, <2>2 DEF CommitSave, RollbackSave, SetStatus
  <2>6. SourcesLocked'
    BY <2>1, <2>2, LocksStay DEF SourceInvariant
  <2> QED  BY <2>1, <2>3, <2>4, <2>5, <2>6 DEF SourceInvariant, SourcesSettled
<1>9. CASE Regenerate
  <2>1. /\ txn' = txn /\ Sources' = {} /\ worker = "idle" /\ status \in {"completed", "failed"}
        /\ status' = "queued" /\ worker' = worker /\ ~ Locked(Sources)
    BY <1>9 DEF Regenerate, SetStatus, Sources
  <2>2. txn["create"].phase = "none" /\ txn["save"].phase = "none"
    BY <2>1 DEF SourceInvariant, SourcesSettled
  <2>3. ASSUME NEW w \in Removers, NEW r \in txn[w].removes, r.table = "source" PROVE FALSE
    <3>1. r \in Sources /\ txn[w].phase \in {"swept", "written"}
      BY <2>3 DEF SourceInvariant, SourcesLocked, Sources
    <3>2. r \in Holds(w)
      BY <2>3, <3>1 DEF Holds
    <3> QED  BY <1>0, <2>1, <3>1, <3>2 DEF Locked
  <2>4. SourcesLocked'
    BY <2>1, <2>3 DEF SourceInvariant, SourcesLocked
  <2> QED  BY <2>1, <2>2, <2>4 DEF SourceInvariant, SourcesSettled
<1> QED
  BY <1>1, <1>2, <1>4, <1>5, <1>6, <1>7, <1>8, <1>9 DEF Create, Generate

\* Only a completed material that no worker is at has sources, and those that a
\* transaction is about to remove are there and nobody else's until it commits.
THEOREM SourceInvariantHolds == Spec => []SourceInvariant
<1>1. Init => SourceInvariant
  <2> SUFFICES ASSUME Init PROVE SourceInvariant  OBVIOUS
  <2>1. \A w \in Writers : txn[w] = NoTransaction
    BY DEF Init
  <2>2. \A r \in rows : r.table \in {"company", "document", "chunk"}
    BY DEF Init, Company, Document, Chunk, Row
  <2>3. Sources = {} /\ Material \notin rows
    BY <2>2 DEF Sources, Material, Row
  <2>4. SourcesSettled
    BY <2>1, <2>3, WriterTypes DEF Init, SourcesSettled, NoTransaction
  <2>5. SourcesLocked
    BY <2>1, WriterTypes DEF SourcesLocked, NoTransaction
  <2> QED  BY <2>4, <2>5 DEF SourceInvariant
<1>2. RowsInvariant /\ SourceInvariant /\ [Next]_vars => SourceInvariant'
  <2>1. ASSUME SourceInvariant, UNCHANGED vars PROVE SourceInvariant'
    BY <2>1 DEF vars, materials, SourceInvariant, SourcesSettled, SourcesLocked, Sources
  <2> QED  BY <2>1, MaterialSourcesStep, RemoverSourcesStep DEF Next
<1> QED  BY <1>1, <1>2, RowsInvariantHolds, PTL DEF Spec

\* Processing its document again, or deleting other things, leaves a company's sources:
\* they go with their material or document, or for a new run.
THEOREM SourcesOutliveTheirChunks == Spec => SourcesOutliveChunks
<1> DEFINE Goes(c) == SourcesOf(c) # {} /\ SourcesOf(c)' = {}
           Reason(c) == Material \notin rows' \/ Document(c) \notin rows' \/ status' = "queued"
<1>1. ASSUME RowsInvariant, SourceInvariant, Next, NEW c \in Companies, Goes(c)
      PROVE  Reason(c)
  <2> SUFFICES ASSUME Material \in rows', Document(c) \in rows' PROVE status' = "queued"
    OBVIOUS
  <2>1. ~ SourcesOf(c) \subseteq rows'
    BY <1>1 DEF SourcesOf
  <2>2. ASSUME NEW w \in Removers, Commits(w) PROVE FALSE
    BY <1>1, <2>2, SourceOfCompanyStays
  <2>3. CASE Create \/ Generate
    <3>1. rows \subseteq rows'
      <4>1. CASE CommitCreate
        <5>1. txn["create"].phase # "none"
          BY <4>1 DEF CommitCreate, Commits, Ready
        <5>2. txn["create"].removes = {}
          BY <1>1, <5>1 DEF SourceInvariant, SourcesSettled
        <5> QED  BY <4>1, <5>2 DEF CommitCreate, Commits, After
      <4>2. CASE CommitSave
        <5>1. txn["save"].phase # "none"
          BY <4>2 DEF CommitSave, Commits, Ready
        <5>2. txn["save"].removes = {}
          BY <1>1, <5>1 DEF SourceInvariant, SourcesSettled
        <5> QED  BY <4>2, <5>2 DEF CommitSave, Commits, After
      <4>3. CASE rows' = rows
        BY <4>3
      <4> QED
        BY <2>3, <4>1, <4>2, <4>3
        DEF Create, Generate, BeginCreate, RollbackCreate, Claim, GenerationFails, Retrieve,
            BeginSave, RollbackSave, RollsBack
    <3> QED  BY <2>1, <3>1 DEF SourcesOf
  <2>4. CASE Regenerate
    <3>1. Material \in rows
      BY <2>4 DEF Regenerate
    <3> QED  BY <2>4, <3>1 DEF Regenerate, SetStatus
  <2>5. ASSUME NEW d \in Companies, StartProcessing(d) \/ Process(d) PROVE FALSE
    <3>1. CASE CommitReplace(d)
      BY <2>2, <2>5, <3>1 DEF CommitReplace, Removers
    <3>2. CASE rows' = rows
      BY <2>1, <3>2 DEF SourcesOf
    <3> QED
      BY <2>5, <3>1, <3>2
      DEF StartProcessing, Process, BeginReplace, Sweeps, Writes, RollbackReplace, RollsBack,
          Finish, Fail
  <2>6. ASSUME NEW w \in Deleters, BeginDelete(w) \/ Delete(w) PROVE FALSE
    <3>1. CASE CommitDelete(w)
      BY <2>2, <2>6, <3>1 DEF CommitDelete, Removers
    <3>2. CASE rows' = rows
      BY <2>1, <3>2 DEF SourcesOf
    <3> QED
      BY <2>6, <3>1, <3>2
      DEF Delete, BeginDelete, Sweeps, Writes, RollbackDelete, RollsBack
  <2> QED  BY <1>1, <2>3, <2>4, <2>5, <2>6 DEF Next
<1>2. RowsInvariant /\ SourceInvariant /\ [Next]_vars
        => [\A c \in Companies :
                SourcesOf(c) # {} /\ SourcesOf(c)' = {} =>
                    \/ Material \notin rows' \/ Document(c) \notin rows'
                    \/ status' = "queued"]_vars
  BY <1>1
<1> QED  BY <1>2, RowsInvariantHolds, SourceInvariantHolds, PTL DEF Spec, SourcesOutliveChunks
----------------------------------------------------------------------------
(* What is being processed has its worker. *)

\* Materials and documents come back to no transaction: what it adds is the material it
\* creates, chunks or sources.
LEMMA NothingComesBack ==
    ASSUME RowsInvariant, SourceInvariant, NEW w \in Writers, Commits(w), status = "processing"
    PROVE  /\ Material \in rows' => Material \in rows
           /\ \A c \in Companies : Document(c) \in rows' => Document(c) \in rows
<1>1. Material.table = "material" /\ \A c \in Companies : Document(c).table = "document"
  BY DEF Material, Document, Row
<1>2. txn[w].phase # "none" /\ rows' = (rows \ txn[w].removes) \cup txn[w].adds
  BY DEF Commits, Ready, After
<1>3. w \in Removers => \A x \in txn[w].adds : x.table \in {"chunk", "source"}
  BY DEF RowsInvariant, TransactionsHold
<1>4. w = "save" => \A x \in txn[w].adds : x.table = "source"
  BY <1>2 DEF SourceInvariant, SourcesSettled
<1>5. w # "create"
  BY <1>2 DEF SourceInvariant, SourcesSettled
<1>6. w \in Removers \/ w = "save"
  BY <1>5 DEF Writers, Removers
<1> QED  BY <1>1, <1>2, <1>3, <1>4, <1>6

\* A document's row is only ever deleted.
LEMMA DocumentsStayGone ==
    ASSUME RowsInvariant, SourceInvariant, NEW w \in Writers, Commits(w), NEW c \in Companies,
           Document(c) \in rows'
    PROVE  Document(c) \in rows
<1>1. Document(c).table = "document" /\ Material.table = "material"
  BY DEF Document, Material, Row
<1>2. txn[w].phase # "none" /\ rows' = (rows \ txn[w].removes) \cup txn[w].adds
  BY DEF Commits, Ready, After
<1>3. w \in Removers => \A x \in txn[w].adds : x.table \in {"chunk", "source"}
  BY DEF RowsInvariant, TransactionsHold
<1>4. w = "save" => \A x \in txn[w].adds : x.table = "source"
  BY <1>2 DEF SourceInvariant, SourcesSettled
<1>5. w = "create" => txn[w].adds = {Material}
  BY <1>2 DEF SourceInvariant, SourcesSettled
<1>6. w \in Removers \/ w \in {"save", "create"}
  BY DEF Writers, Removers
<1> QED  BY <1>1, <1>2, <1>3, <1>4, <1>5, <1>6

\* A step of the rows that leaves the workers and what they are at.
LEMMA WorkersStay ==
    ASSUME RowsInvariant, SourceInvariant, ProcessingHasWorker,
           status' = status, worker' = worker \/ worker' # "idle", document' = document,
           \A c \in Companies : pipeline'[c] = pipeline[c] \/ pipeline'[c] # "idle",
           rows' \subseteq rows \/ \E w \in Writers : Commits(w)
    PROVE  ProcessingHasWorker'
<1>1. Material' = Material /\ \A c : Document(c)' = Document(c)
  BY DEF Material, Document, Row
<1>2. status = "processing" /\ Material \in rows' => Material \in rows
  BY NothingComesBack
<1>3. \A c \in Companies : Document(c) \in rows' => Document(c) \in rows
  BY DocumentsStayGone
<1> QED  BY <1>1, <1>2, <1>3 DEF ProcessingHasWorker

LEMMA GenerateHasWorker ==
    ASSUME RowsInvariant, SourceInvariant, ProcessingHasWorker, Create \/ Generate \/ Regenerate
    PROVE  ProcessingHasWorker'
<1>0. Material' = Material /\ \A c : Document(c)' = Document(c)
  BY DEF Material, Document, Row
<1>1. document' = document /\ pipeline' = pipeline
  BY DEF Create, BeginCreate, CommitCreate, RollbackCreate, Generate, Claim, GenerationFails,
         Retrieve, BeginSave, CommitSave, RollbackSave, Regenerate, documents
<1>2. rows' \subseteq rows \/ \E w \in Writers : Commits(w)
  BY WriterTypes
  DEF Create, BeginCreate, CommitCreate, RollbackCreate, Generate, Claim, GenerationFails,
      Retrieve, BeginSave, CommitSave, RollbackSave, Regenerate, RollsBack
<1>3. \A c \in Companies :
        document'[c] = "processing" /\ Document(c)' \in rows' => pipeline'[c] # "idle"
  BY <1>0, <1>1, <1>2, DocumentsStayGone DEF ProcessingHasWorker
<1>4. ASSUME status' = "processing", Material \in rows' PROVE worker' # "idle"
  <2>1. CASE Create
    <3>1. status = "processing" /\ worker' = worker
      BY <1>4, <2>1 DEF Create, BeginCreate, CommitCreate, RollbackCreate, materials
    <3> QED  BY <3>1, <1>2, <1>4, NothingComesBack DEF ProcessingHasWorker
  <2>2. CASE Claim
    BY <2>2 DEF Claim
  <2>3. CASE GenerationFails \/ RollbackSave \/ Regenerate
    <3>1. rows' \subseteq rows /\ (Material \in rows => status' # "processing")
      BY <2>3 DEF GenerationFails, RollbackSave, Regenerate, RollsBack, SetStatus
    <3> QED  BY <1>4, <3>1
  <2>4. CASE BeginSave \/ Retrieve(Sender, "sender", "receiver")
                \/ Retrieve(Receiver, "receiver", "generate")
    <3>1. status' = status /\ rows' = rows /\ (worker' = worker \/ worker' # "idle")
      BY <2>4 DEF BeginSave, Retrieve, materials
    <3> QED  BY <3>1, <1>4 DEF ProcessingHasWorker
  <2>5. CASE CommitSave
    <3>1. status' = IF Material \in rows THEN "completed" ELSE status
      BY <2>5 DEF CommitSave
    <3>2. status = "processing" => Material \in rows
      BY <1>4, <2>5, NothingComesBack, WriterTypes DEF CommitSave
    <3> QED  BY <1>4, <3>1, <3>2
  <2> QED  BY <2>1, <2>2, <2>3, <2>4, <2>5 DEF Generate
<1> QED  BY <1>0, <1>3, <1>4 DEF ProcessingHasWorker

LEMMA PipelineHasWorker ==
    ASSUME RowsInvariant, SourceInvariant, ProcessingHasWorker, NEW c \in Companies,
           StartProcessing(c) \/ Process(c)
    PROVE  ProcessingHasWorker'
<1>0. Material' = Material /\ \A d : Document(d)' = Document(d)
  BY DEF Material, Document, Row
<1>1. /\ c \in Writers /\ document \in [Companies -> {"processing", "processed", "failed"}]
      /\ pipeline \in [Companies -> {"idle", "running", "saved"}]
  BY DEF Writers, RowsInvariant, DataInvariant, TypeOK
<1>2. CASE StartProcessing(c)
  <2>1. /\ UNCHANGED <<rows, materials>> /\ document' = [document EXCEPT ![c] = "processing"]
        /\ pipeline' = [pipeline EXCEPT ![c] = "running"]
    BY <1>2 DEF StartProcessing
  <2> QED  BY <1>0, <1>1, <2>1 DEF ProcessingHasWorker, materials
<1>3. CASE BeginReplace(c) \/ Sweeps(c) \/ Writes(c)
  <2>1. UNCHANGED <<rows, materials, documents>>
    BY <1>3 DEF BeginReplace, Sweeps, Writes
  <2> QED  BY <2>1, WorkersStay DEF materials, documents
<1>4. CASE CommitReplace(c)
  <2>1. pipeline' = [pipeline EXCEPT ![c] = "saved"] /\ UNCHANGED <<materials, document>> /\ Commits(c)
    BY <1>4 DEF CommitReplace
  <2>2. \A d \in Companies : pipeline'[d] = pipeline[d] \/ pipeline'[d] # "idle"
    BY <1>1, <2>1
  <2> QED  BY <1>1, <2>1, <2>2, WorkersStay DEF materials
<1>5. ASSUME NEW s \in {"processed", "failed"}, Ends(c, s), rows' = rows
      PROVE  ProcessingHasWorker'
  <2>1. /\ document' = [document EXCEPT ![c] = IF Document(c) \in rows THEN s ELSE @]
        /\ pipeline' = [pipeline EXCEPT ![c] = "idle"] /\ UNCHANGED materials
    BY <1>5 DEF Ends
  <2>2. Document(c) \in rows => document'[c] # "processing"
    BY <1>1, <2>1
  <2>3. \A d \in Companies \ {c} : document'[d] = document[d] /\ pipeline'[d] = pipeline[d]
    BY <1>1, <2>1
  <2> QED  BY <1>0, <1>5, <2>1, <2>2, <2>3 DEF ProcessingHasWorker, materials
<1>6. CASE RollbackReplace(c) \/ Finish(c) \/ Fail(c)
  BY <1>5, <1>6 DEF RollbackReplace, RollsBack, Finish, Fail
<1> QED  BY <1>2, <1>3, <1>4, <1>6 DEF Process

\* A material, and a document, that is being processed has its worker as long as its row
\* is there, for any number of deleting requests and processing runs and whichever of
\* their commits are refused: what MaterialSettles asks of the data.
THEOREM ProcessingRowsHaveWorkers == Spec => []ProcessingHasWorker
<1>1. Init => ProcessingHasWorker
  BY DEF Init, ProcessingHasWorker
<1>2. RowsInvariant /\ SourceInvariant /\ ProcessingHasWorker /\ [Next]_vars
        => ProcessingHasWorker'
  <2> SUFFICES ASSUME RowsInvariant, SourceInvariant, ProcessingHasWorker, [Next]_vars
               PROVE  ProcessingHasWorker'
    OBVIOUS
  <2>1. ASSUME NEW w \in Deleters, BeginDelete(w) \/ Delete(w) PROVE ProcessingHasWorker'
    <3>1. w \in Writers /\ UNCHANGED <<materials, documents>>
      BY <2>1 DEF Writers, BeginDelete, Delete, Sweeps, Writes, CommitDelete, RollbackDelete
    <3>2. rows' \subseteq rows \/ Commits(w)
      BY <2>1 DEF BeginDelete, Delete, Sweeps, Writes, CommitDelete, RollbackDelete, RollsBack
    <3> QED  BY <3>1, <3>2, WorkersStay DEF materials, documents
  <2>2. CASE UNCHANGED vars
    BY <2>2, WorkersStay DEF vars, materials, documents
  <2> QED  BY <2>1, <2>2, GenerateHasWorker, PipelineHasWorker DEF Next
<1> QED  BY <1>1, <1>2, RowsInvariantHolds, SourceInvariantHolds, PTL DEF Spec
=============================================================================
