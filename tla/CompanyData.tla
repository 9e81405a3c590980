---------------------------- MODULE CompanyData ----------------------------
(***************************************************************************)
(* The rows that belong to two companies and the transactions that write    *)
(* them: a material between the companies, generated from their documents,  *)
(* while documents are processed again and documents, companies and the     *)
(* material are deleted.  MaterialLifecycle and DocumentIngestion look at   *)
(* one row each; here the foreign keys between them matter.                 *)
(*                                                                         *)
(* The database is PostgreSQL at READ COMMITTED.  Django declares foreign   *)
(* keys DEFERRABLE INITIALLY DEFERRED: a transaction finds out at its       *)
(* commit that a row it refers to is gone, or that a row it deleted is      *)
(* referred to, and is rolled back (IntegrityError).  Model.delete() first  *)
(* collects by queries the rows that on_delete deletes, then deletes the    *)
(* sources of these rows (nothing refers to a source, so that they need not *)
(* be collected) and sets the chunk of other sources to NULL, and at last   *)
(* deletes the rows collected.                                              *)
(*                                                                         *)
(* Each company has one document, whose chunks are those of one processing  *)
(* run; a source row cites the chunks of a run, or none (0) any more.       *)
(***************************************************************************)
EXTENDS Naturals

CONSTANTS
    Sender, Receiver,  \* the two companies
    Deleters,          \* requests that may delete something
    MaxRuns            \* processing runs of a document

ASSUME CompanyAssumption == Sender # Receiver

ASSUME RunAssumption == MaxRuns \in Nat /\ MaxRuns >= 1

ASSUME WriterAssumption ==
    /\ {Sender, Receiver} \cap {"create", "save"} = {}
    /\ Deleters \cap {Sender, Receiver, "create", "save"} = {}

VARIABLES
    rows,       \* the committed rows
    txn,        \* the open transaction of each writer
    status,     \* generation_status of the material
    worker,     \* where the material's worker is
    retrieved,  \* the chunks it retrieved: the run that made them
    document,   \* the documents' status
    pipeline,   \* where each document's worker is
    runs        \* processing runs so far

materials == <<status, worker, retrieved>>
documents == <<document, pipeline, runs>>
vars == <<rows, txn, materials, documents>>
----------------------------------------------------------------------------
(* Rows, references and transactions. *)

Companies == {Sender, Receiver}

Row(table, of, n) == [table |-> table, of |-> of, n |-> n]

Company(c) == Row("company", c, 0)
Document(c) == Row("document", c, 0)
Chunk(c, n) == Row("chunk", c, n)
Material == Row("material", Sender, 0)
Source(c, n) == Row("source", c, n)

Rows ==
    {Company(c) : c \in Companies} \cup {Document(c) : c \in Companies}
    \cup {Chunk(c, n) : c \in Companies, n \in 1 .. MaxRuns}
    \cup {Material} \cup {Source(c, n) : c \in Companies, n \in 0 .. MaxRuns}

\* The foreign keys with on_delete=CASCADE.
CascadesIncludingChunk(r) ==   \* mutant: a source goes with its chunk
    CASE r.table = "company" -> {}
      [] r.table = "document" -> {Company(r.of)}
      [] r.table = "chunk" -> {Company(r.of), Document(r.of)}
      [] r.table = "material" -> {Company(Sender), Company(Receiver)}
      [] r.table = "source" ->
            {Material, Company(r.of), Document(r.of)} \cup {Chunk(r.of, n) : n \in {r.n}}

Cascades(r) ==
    CASE r.table = "company" -> {}
      [] r.table = "document" -> {Company(r.of)}
      [] r.table = "chunk" -> {Company(r.of), Document(r.of)}
      [] r.table = "material" -> {Company(Sender), Company(Receiver)}
      [] r.table = "source" -> {Material, Company(r.of), Document(r.of)}

\* All of them: the chunk of a source is on_delete=SET_NULL.
References(r) ==
    CASE r.table = "company" -> {}
      [] r.table = "document" -> {Company(r.of)}
      [] r.table = "chunk" -> {Company(r.of), Document(r.of)}
      [] r.table = "material" -> {Company(Sender), Company(Receiver)}
      [] r.table = "source" ->
            {Material, Company(r.of), Document(r.of)}
                \cup (IF r.n = 0 THEN {} ELSE {Chunk(r.of, r.n)})

Sources == {r \in rows : r.table = "source"}

\* What is collected when these rows are deleted: a chunk is two below a company.
WithChildren(S) == S \cup {r \in rows \ Sources : Cascades(r) \cap S # {}}

Collected(S) == WithChildren(WithChildren(S))

Writers == Companies \cup Deleters \cup {"create", "save"}

NoTransaction == [phase |-> "none", adds |-> {}, removes |-> {}]

\* "collected": the rows to delete are known; "swept": their sources are deleted or
\* set to NULL; "written": all is deleted.
Transaction ==
    [phase : {"none", "collected", "swept", "written"},
     adds : SUBSET Rows, removes : SUBSET Rows]

\* The committed rows a transaction has deleted or updated stay locked until it ends;
\* the save has updated the material.
Holds(w) ==
    {r \in txn[w].removes :
        \/ txn[w].phase = "written"
        \/ txn[w].phase = "swept" /\ r.table = "source"}
    \cup {r \in {Material} : w = "save" /\ txn[w].phase = "written"}

Locked(S) == \E w \in Writers : Holds(w) \cap S # {}

Begins(w, phase, adds, removes) ==
    /\ txn[w].phase = "none"
    /\ txn' = [txn EXCEPT ![w] = [phase |-> phase, adds |-> adds, removes |-> removes]]

\* The statements on sources, then those on the rows collected: each waits for the
\* transaction that holds one of its rows.
Sweeps(w) ==
    LET doomed == {r \in Sources : Cascades(r) \cap txn[w].removes # {}}
        citing == {r \in Sources \ doomed : References(r) \cap txn[w].removes # {}}
    IN  /\ txn[w].phase = "collected"
        /\ ~ Locked(doomed \cup citing)
        /\ txn' = [txn EXCEPT ![w] =
                [phase |-> "swept",
                 adds |-> @.adds \cup {Source(r.of, 0) : r \in citing},
                 removes |-> @.removes \cup doomed \cup citing]]
        /\ UNCHANGED <<rows, materials, documents>>

Writes(w) ==
    /\ txn[w].phase = "swept"
    /\ \A v \in Writers \ {w} : Holds(v) \cap txn[w].removes = {}
    /\ txn' = [txn EXCEPT ![w].phase = "written"]
    /\ UNCHANGED <<rows, materials, documents>>

After(w) == (rows \ txn[w].removes) \cup txn[w].adds

\* What it added refers to rows there are, and nothing refers to what it removed.
Sound(w) == \A r \in After(w) : References(r) \subseteq After(w)

\* The check of what it added waits for a transaction that deletes what that refers to.
Ready(w) ==
    /\ txn[w].phase = "written"
    /\ \A r \in txn[w].adds : \A v \in Writers \ {w} :
            txn[v].phase = "written" => txn[v].removes \cap References(r) = {}

Commits(w) ==
    /\ Ready(w) /\ Sound(w)
    /\ rows' = After(w)
    /\ txn' = [txn EXCEPT ![w] = NoTransaction]

RollsBack(w) ==
    /\ Ready(w) /\ ~ Sound(w)
    /\ txn' = [txn EXCEPT ![w] = NoTransaction]
    /\ UNCHANGED rows
----------------------------------------------------------------------------
TypeOK ==
    /\ rows \subseteq Rows
    /\ txn \in [Writers -> Transaction]
    /\ status \in {"none", "queued", "processing", "completed", "failed"}
    /\ worker \in {"idle", "sender", "receiver", "generate"}
    /\ retrieved \in [Companies -> 0 .. MaxRuns]
    /\ document \in [Companies -> {"processing", "processed", "failed"}]
    /\ pipeline \in [Companies -> {"idle", "running", "saved"}]
    /\ runs \in [Companies -> 1 .. MaxRuns]

\* Both documents have been processed once.
Init ==
    /\ rows = {Company(c) : c \in Companies} \cup {Document(c) : c \in Companies}
                \cup {Chunk(c, 1) : c \in Companies}
    /\ txn = [w \in Writers |-> NoTransaction]
    /\ status = "none"
    /\ worker = "idle"
    /\ retrieved = [c \in Companies |-> 0]
    /\ document = [c \in Companies |-> "processed"]
    /\ pipeline = [c \in Companies |-> "idle"]
    /\ runs = [c \in Companies |-> 1]
----------------------------------------------------------------------------
(* The material: create, generate, regenerate. *)

\* MaterialCreateSerializer.validate, then the insert.
BeginCreate ==
    /\ status = "none"
    /\ \A c \in Companies : Document(c) \in rows /\ document[c] = "processed"
    /\ Begins("create", "written", {Material}, {})
    /\ UNCHANGED <<rows, materials, documents>>

CommitCreate ==
    /\ Commits("create")
    /\ status' = "queued"
    /\ UNCHANGED <<worker, retrieved, documents>>

RollbackCreate == RollsBack("create") /\ UNCHANGED <<materials, documents>>

\* An UPDATE of the material, which waits for its deletion and then finds no row.
SetStatus(s) ==
    /\ \A w \in Deleters : Material \notin Holds(w)
    /\ status' = IF Material \in rows THEN s ELSE status

Claim ==
    /\ worker = "idle" /\ status \in {"queued", "failed"} /\ Material \in rows
    /\ SetStatus("processing")
    /\ worker' = "sender"
    /\ UNCHANGED <<rows, txn, retrieved, documents>>

GenerationFails ==
    /\ worker # "idle" /\ txn["save"].phase = "none"
    /\ SetStatus("failed")
    /\ worker' = "idle"
    /\ UNCHANGED <<rows, txn, retrieved, documents>>

\* The queries of one company's chunks; without any, the run fails.
Retrieve(c, from, to) ==
    /\ worker = from
    /\ \E n \in 1 .. MaxRuns :
        /\ Chunk(c, n) \in rows
        /\ retrieved' = [retrieved EXCEPT ![c] = n]
    /\ worker' = to
    /\ UNCHANGED <<rows, txn, status, documents>>

\* A valid output cites chunks that were retrieved, at least one, of either company.
CitedSources == {{Source(c, retrieved[c]) : c \in cited} : cited \in (SUBSET Companies) \ {{}}}

BeginSaveStatusFirst ==   \* mutant: the status is written before the transaction
    /\ worker = "generate"
    /\ ~ Locked(Sources \cup {Material})
    /\ \E cited \in CitedSources : Begins("save", "written", cited, Sources)
    /\ status' = IF Material \in rows THEN "completed" ELSE status
    /\ UNCHANGED <<rows, worker, retrieved, documents>>

\* _save_completed.
BeginSave ==
    /\ worker = "generate"
    /\ ~ Locked(Sources \cup {Material})
    /\ \E cited \in CitedSources : Begins("save", "written", cited, Sources)
    /\ UNCHANGED <<rows, materials, documents>>

CommitSave ==
    /\ Commits("save")
    /\ status' = IF Material \in rows THEN "completed" ELSE status
    /\ worker' = "idle"
    /\ UNCHANGED <<retrieved, documents>>

\* The exception of the commit is caught in generate.
RollbackSaveSilently ==   \* mutant: the exception is not caught
    /\ RollsBack("save")
    /\ worker' = "idle"
    /\ UNCHANGED <<status, retrieved, documents>>

RollbackSave ==
    /\ RollsBack("save")
    /\ SetStatus("failed")
    /\ worker' = "idle"
    /\ UNCHANGED <<retrieved, documents>>

\* regenerate_material, a short request: the sources go, the row is queued.
Regenerate ==
    /\ Material \in rows /\ status \in {"completed", "failed"} /\ worker = "idle"
    /\ ~ Locked(Sources)
    /\ SetStatus("queued")
    /\ rows' = rows \ Sources
    /\ UNCHANGED <<txn, worker, retrieved, documents>>
----------------------------------------------------------------------------
(* The documents: process again. *)

StartProcessing(c) ==
    /\ pipeline[c] = "idle" /\ Document(c) \in rows /\ runs[c] < MaxRuns
    /\ runs' = [runs EXCEPT ![c] = @ + 1]
    /\ document' = [document EXCEPT ![c] = "processing"]
    /\ pipeline' = [pipeline EXCEPT ![c] = "running"]
    /\ UNCHANGED <<rows, txn, materials>>

\* _save_chunks: the old chunks are deleted and the new ones inserted.
BeginReplace(c) ==
    /\ pipeline[c] = "running"
    /\ Begins(c, "collected", {Chunk(c, runs[c])}, {r \in rows : r.table = "chunk" /\ r.of = c})
    /\ UNCHANGED <<rows, materials, documents>>

CommitReplace(c) ==
    /\ Commits(c)
    /\ pipeline' = [pipeline EXCEPT ![c] = "saved"]
    /\ UNCHANGED <<materials, document, runs>>

\* _finish and _fail: an UPDATE of the document.
Ends(c, s) ==
    /\ ~ Locked({Document(c)})
    /\ document' = [document EXCEPT ![c] = IF Document(c) \in rows THEN s ELSE @]
    /\ pipeline' = [pipeline EXCEPT ![c] = "idle"]
    /\ UNCHANGED <<materials, runs>>

Finish(c) == pipeline[c] = "saved" /\ Ends(c, "processed") /\ UNCHANGED <<rows, txn>>

Fail(c) ==
    /\ pipeline[c] = "running" /\ txn[c].phase = "none"
    /\ Ends(c, "failed")
    /\ UNCHANGED <<rows, txn>>

RollbackReplaceSilently(c) ==   \* mutant: an error of the commit is not caught
    /\ RollsBack(c)
    /\ ~ Locked({Document(c)})
    /\ pipeline' = [pipeline EXCEPT ![c] = "idle"]
    /\ UNCHANGED <<materials, document, runs>>

RollbackReplace(c) == RollsBack(c) /\ Ends(c, "failed")
----------------------------------------------------------------------------
(* Deletions of a company, a document or the material. *)

BeginDelete(w) ==
    /\ \E r \in rows :
        /\ r.table \in {"company", "document", "material"}
        /\ Begins(w, "collected", {}, Collected({r}))
    /\ UNCHANGED <<rows, materials, documents>>

CommitDelete(w) == Commits(w) /\ UNCHANGED <<materials, documents>>

RollbackDelete(w) == RollsBack(w) /\ UNCHANGED <<materials, documents>>
----------------------------------------------------------------------------
Create == BeginCreate \/ CommitCreate \/ RollbackCreate

Generate ==
    \/ Claim \/ GenerationFails \/ BeginSave \/ CommitSave \/ RollbackSave
    \/ Retrieve(Sender, "sender", "receiver")
    \/ Retrieve(Receiver, "receiver", "generate")

Process(c) ==
    \/ BeginReplace(c) \/ Sweeps(c) \/ Writes(c) \/ CommitReplace(c) \/ RollbackReplace(c)
    \/ Finish(c) \/ Fail(c)

Delete(w) == Sweeps(w) \/ Writes(w) \/ CommitDelete(w) \/ RollbackDelete(w)

Next ==
    \/ Create \/ Generate \/ Regenerate
    \/ \E c \in Companies : StartProcessing(c) \/ Process(c)
    \/ \E w \in Deleters : BeginDelete(w) \/ Delete(w)

Spec == Init /\ [][Next]_vars

\* Workers that are not lost and requests that have begun go on.
FairSpec ==
    /\ Spec
    /\ WF_vars(Create /\ txn["create"].phase # "none") /\ WF_vars(Generate)
    /\ \A c \in Companies : WF_vars(Process(c))
    /\ \A w \in Deleters : WF_vars(Delete(w))
----------------------------------------------------------------------------
(* Properties. *)

SourcesOf(c) == {r \in rows : r.table = "source" /\ r.of = c}

\* service.py:130: a completed material shows a source, unless a document was deleted:
\* the status and the sources are committed together, and processing the documents
\* again takes no source away.
CompletedIsSourced ==
    status = "completed" /\ Material \in rows /\ (\A c \in Companies : Document(c) \in rows)
        => Sources # {}

\* models.py:133: sources outlive the chunks they cite.  They go with their material
\* or document, or when the material is generated again.
SourcesOutliveChunks ==
    [][\A c \in Companies :
        SourcesOf(c) # {} /\ SourcesOf(c)' = {} =>
            \/ Material \notin rows' \/ Document(c) \notin rows'
            \/ status' = "queued"]_vars

\* A material whose run was started settles or is deleted: a foreign key that fails is
\* an outcome, not a loss.
MaterialSettles ==
    status = "processing" ~> (status \in {"completed", "failed"} \/ Material \notin rows)

\* pipeline.py:76 and service.py:59: neither a material nor a document whose row is there
\* is left "processing" without its worker.  Either commit may be refused for what the
\* other did: a save that cites chunks being replaced, a replacement of chunks that a
\* save has come to cite since their sources were swept; and rows vanish under both.
ProcessingHasWorker ==
    /\ status = "processing" /\ Material \in rows => worker # "idle"
    /\ \A c \in Companies :
        document[c] = "processing" /\ Document(c) \in rows => pipeline[c] # "idle"

\* materials/models.py:133 "Worker 1 deletes + recreates chunks on document reprocess,
\* so this may dangle; page_number/snippet are denormalized for exactly that reason":
\* a run whose material and documents are there when it is saved is saved.
ReprocessingIsHarmless ==
    [][worker = "generate" /\ worker' = "idle" /\ txn["save"].phase = "written"
        /\ Material \in rows /\ (\A c \in Companies : Document(c) \in rows)
            => status' = "completed"]_vars
=============================================================================
