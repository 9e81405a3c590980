# Collateral AI: a verification model

Collateral AI is a Django service that writes marketing material for a *sender*
company aimed at a *receiver* company, out of the PDF documents of both. The web
application runs on Cloud Run, its slow work in Kubernetes jobs, its state in
PostgreSQL (with pgvector) and its files in a bucket. This directory holds TLA+
modules of the parts of it in which something can go wrong between two steps,
TLC configurations that check them on small instances, and TLAPS proofs of the
results that matter most, for every value of the constants.

`PROJECT.json` says which lines of the source each definition stands for, which
properties each run checks, which hazards of the code they are aimed at and which
theorems are proved. Paths below are relative to `src/backend/collateral_ai/`
unless they start with `src/`.

## Inventory

**Material lifecycle** (`materials/services.py`, `materials/worker_trigger.py`,
`materials/generation/service.py`, the command `generate_material`).
*State*: one `MarketingMaterial` row (generation status, review status, prompt,
output, validation result, error, job name, `updated_at`) and its
`GenerationSource` rows. *Operations*: POST creates the row and submits a job;
`regenerate` locks the row, refuses with 409 while a fresh run is active, resets
the row and submits another job; DELETE; the worker claims the row in a short
transaction, runs the pipeline for minutes without a lock, and writes the result
unconditionally. *Hard*: the job is submitted before the request's transaction
commits; a submission may be accepted and its reply lost; requests and workers die;
a row that looks stranded for 15 minutes may be taken over; Kubernetes kills a job
after 600 seconds, never restarts it, and may still run it twice. *Correct when*:
one worker at a time, no worker writes over a later run, what is shown is one run's
work, nothing published is lost, nothing stays wedged.

**Material editing and review** (`materials/api/serializers.py`, `MaterialViewSet`).
PATCH reads the row without a lock and saves every column of its copy. *Hard*: it
overlaps all of the above. *Correct when*: an edit touches what it edits only, and
a verdict is given to a completed material.

**Document ingestion** (`documents/services.py`, `documents/worker_trigger.py`,
`documents/processing/pipeline.py`, the command `process_document`).
*State*: a `Document` row (status, counts, error), its `DocumentChunk` rows, the PDF
in the bucket. *Operations*: create reserves the row and signs an upload URL, the
browser uploads, `complete` flips the row to processing and submits a job, the job
downloads, extracts, chunks, embeds, replaces the chunks and finishes or fails,
DELETE removes object and row. *Hard*: there is no claim, every job writes
unconditionally, a failed job is restarted once, a delete may meet a save.
*Correct when*: a processed document has chunks, of one run; a deleted one has none.

**Generation graph** (`materials/generation/graph.py`, `validation.py`,
`retrieval.py`, `schema.py`): retrieve, generate, then validate and repair until
valid or out of attempts. *State*: the graph's own (output, validation, attempts).
*Correct when*: the loop ends within its bound, what is returned as valid cites only
retrieved chunks, a deterministic trim makes progress.

**Chunking and neighbour expansion** (`documents/processing/chunking.py`,
`materials/generation/expansion.py`): a loop over the words of a text; two queries and a loop over a search
result. *Hard*: tails and overlaps at the boundaries, seeds that compete for
neighbours, documents replaced between the queries. *Correct when*: chunks cover the
text and overlap as configured, no chunk is given twice, stitching gives back the words.

**Document payloads** (`documents/processing/pipeline.py`, `extraction.py`,
`embeddings.py`, `summarization.py`, `storage.py`): pages, tables and images of a PDF
become payloads, payloads are embedded batch by batch, both are saved in pairs.
*Hard*: blocks without content between others, indexes that start again with every
block, batches that come back short. *Correct when*: every word is saved in its place,
with the embedding of its own chunk.

**Companies and their data** (`companies/services.py`, the foreign keys of
`documents/models.py` and `materials/models.py`): a material refers to two companies,
its sources refer to a company, a document and a chunk; deletes cascade. *Hard*: the
keys are checked at the commit, a save and a reprocessing or a cascade overlap.
*Correct when*: no row outlives what it refers to, a completed material keeps its
sources, and a failed key is an outcome of a run and not its loss.

**Evaluation harness** (the commands `seed_eval_dataset` and `run_eval`,
`materials/generation/eval/`): seeds a golden dataset, generates its materials with
`force`, again after transient failures, and scores what their rows hold. *Hard*: rows
that outlive the run, judges that fail or write nonsense, claims cut off from their
qualifiers. *Correct when*: a score is about the run it is given to, the evaluators
agree with the validator, every example gets its scores.

**Upload tray and document list** (`src/frontend/src/components/uploads`,
`lib/api/documents.ts`): files go through create, PUT and complete, concurrently; a
tray shows them and closes itself five seconds after a success; a cached list polls
while it shows a document being processed. *Hard*: updates that wait for a render, a
timer against new uploads, answers that overtake each other. *Correct when*: only what
succeeded disappears by itself, done means handed over, the list catches up.

**Job submission** (`worker_jobs.py`): one Kubernetes job per dispatch, with a retry
limit and a deadline. **Model client and prompts**: an external call and its text.
**Templates, dashboard, users, errors**: rows with ordinary create, read, update and
delete; the unique slug of a template is the only step that meets another actor.
**Frontend pages**, **deployment** (`src/deploy`) and CI: rendering, or declarative.

Interactions: requests start workers through Kubernetes and never hear from them
again; the two sides meet only in the rows. A material's worker reads the chunks
that document workers replace, and its sources refer to them by foreign keys.

## Modules

| module | what it is |
| --- | --- |
| `MaterialLifecycle` | requests, cluster and workers around one material's row |
| `GenerationSlot` | what that promises, abstractly: a slot one worker holds at a time |
| `MaterialRefinement` | the refinement mapping from the first to the second |
| `MaterialEditing` | `MaterialLifecycle` composed with PATCH |
| `DocumentIngestion` | one document: requests, bucket, jobs and pipeline |
| `GenerationGraph` | one run of the graph a worker runs: ask, validate, repair, save |
| `Evaluation` | one example of an experiment: `GenerationGraph` run and run again, then scored |
| `WordChunks`, `Chunking` | the arithmetic of chunks, and the loop that cuts a text |
| `DocumentPayloads` | the pipeline around that loop, from blocks to saved chunks; extends `Chunking` |
| `ChunkTable` | the marks chunking leaves in the rows, which expansion relies on |
| `NeighborExpansion` | the chunks around those a search found, and their stitching |
| `GoldenDataset` | the documents of the golden dataset as tables for `NeighborExpansion` |
| `CompanyData` | the rows of two companies, their foreign keys and transactions |
| `UploadsTray` | uploads, tray and document list in one browser |
| `MC*` | the instances TLC checks |
| `*Proofs` | the theorems; those of `Evaluation`, `DocumentPayloads` and `GoldenDataset` are in `GenerationGraphProofs`, `ChunkingProofs` and `NeighborExpansionProofs` |

### MaterialLifecycle

`row` and `sources` are what is committed; `txn` is the open request transaction
(every request is one, because of `ATOMIC_REQUESTS`) with its uncommitted image of
the row; `jobs` are the executions of the worker command. One row is enough, since
transactions on different rows do not meet. PostgreSQL runs at READ COMMITTED: a
step sees committed rows only, and a step that writes or locks the row waits
(`~ RowLocked`) while a request has it written.

A request is split where another actor can act: `CreateMaterial` or
`RegenerateMaterial` writes the image, a `Dispatch...` step talks to Kubernetes,
`Commit` publishes, `Rollback` is the death of the request at any point. The
submission has three outcomes: accepted, refused, and accepted with the reply lost
(the code then marks the row failed while the job runs). In mode `"inline"` the command
runs inside the request, in a savepoint: success is one step of the transaction, failure
leaves only the error.

A worker is split the way its transactions are: `Claim`, `ClaimSkips` or
`ClaimFindsNoRow`; then `SaveCompleted`, or `SaveInvalid` (which is followed by
`MarkFailed` in a statement of its own), or `MarkFailed`. All final writes are
`UPDATE ... WHERE id = pk`: unconditional, without effect on a deleted row.

Time is what the staleness rule compares: the age of `updated_at` and the age of a
job, both advanced by `TickTime`, which no pod outlives its deadline under. The age
of a job counts from the start of its pod; in Kubernetes it counts from the start of
the job, so that the model gives workers more time than they have. A tick includes
the grace period of the kill: 600 seconds and 30 of grace against 15 minutes.

Left out: columns no property is about (title, tone, language, ...), and
`retrieved_context` and `completed_at`, which are written together with the columns
that are kept. `--force` is an option no request passes; the evaluation, which does, is
a module of its own.

### MaterialEditing

Adds `edit`, the copy a PATCH request holds between its read and its save. `PatchSaves`
writes every column of it back, and inserts the row again when it was deleted. The
invariants of `MaterialLifecycle` do **not** hold of this module: that is what its
counterexample shows. What does hold, and is proved, is `ReviewedHasOutput`.

### GenerationSlot and MaterialRefinement

`GenerationSlot` knows no transactions, clocks or jobs: a request fills the slot when
nobody holds it, a worker acquires it, publishes or fails it once, or abandons it.
`MaterialRefinement` maps the row's status, the running worker and the published
output onto it. That every step is a slot step or a stutter includes what
makes the unconditional writes safe: only the holder writes.

### DocumentIngestion

Status and counts are the row, a set of chunks is named by the run (job and
attempt) that computed it. The delete inside `_save_chunks` removes what was
committed when it looked (`BeginSave` takes that set), its insert fails when the
document is gone. A delete request collects the chunks it will cascade to, and its
commit fails on chunks inserted since. `CompleteWhen` is the set of statuses in which
a client calls `complete`: the API has no guard, the browser calls it after an
upload and offers a retry on failed documents. `MaxCrashes` bounds the pods lost.
What is only true of a document with one job (`ProcessedIsWhole` of the run,
`SerialInvariant` of the proofs) says so in its premise (`Alone`), so that one instance
checks overlapping jobs and a single one.

### GenerationGraph

`node` is the node the graph runs next; `output`, `validation`, `attempts` and
`source_map` are the graph's state (`GenerationState`), `answer` is the model's last
stamped answer before any trim and `calls` counts the calls of the model, both for the
properties only. The model may answer *anything* in `Answers`, whatever schema it was
given: another shape, texts too long, no references or unknown ones, source tokens in
the text. A text is the set of positions at which its sentences end, since counting
its words and dropping trailing sentences look at nothing else. `Stamp` writes the
template's fields over the answer, and raises on one that is no object, so that the
validator's own error for that shape is never seen. `Raises` is a call that raises, at
any node that makes one. `Save` is what `MaterialLifecycle` shows as `SaveCompleted`
(`completed`), `SaveInvalid` (`invalid`) or `MarkFailed` (`raised`).

### Chunking and NeighborExpansion

`Chunking` runs the loop of `chunk_text` an iteration at a time, for any setting of
chunk length and overlap; a chunk is its two offsets. `Chunked` in `WordChunks` says
the same without a loop. `NeighborExpansion` takes such chunks as the table of chunks
(`chunk`, by primary key), a search result (`seeds`, best first), and goes through
`expand`: `OrderedIds` (first query), `Assign` for one seed after the other,
`StitchAll` (second query and stitching). `DocumentVanishes` is a document processed
again or deleted at any moment: its old keys go, all at once, because chunks are
replaced in one transaction. `Corpora` is any table whose rows are cut the way chunking
cuts them (`CutAssumption`, `WellCut` in `ChunkTable`): expansion promises nothing about
other rows, and `DocumentPayloads` shows that the pipeline writes no others. `Read` is
what the model sees for a seed, its passage or its own content. A chunk's `block` is what the program does *not* know; the
properties use it to say whether words that were joined belonged together.

### DocumentPayloads

A document is given by its blocks in the order in which extraction lists them (pages,
then tables, then images), each with its number of words; none stands for a blank page,
an empty table, an image that cannot be read. `TakeBlock` starts `chunk_text` on the
next block, `CutBlock` is an iteration of `Chunking` within it, `Collect` makes the
payloads of what it returned, `Caption` that of an image. The model may return fewer
embeddings than it was given texts (`EmbedBatch`): the code compares totals only, which
`EmbeddingsAreTheirOwn` shows to be enough, because no batch can return more. An
embedding *is* the payload it was made from, so that a shift would show. `SavedTable` is
what `NeighborExpansion` finds in the table afterwards; a caption, whose words have no
offsets, has one word there. `PlaceAssumption`: no two blocks of a document have the
same kind, page and number, since extraction numbers them with `enumerate`.

### Evaluation

Extends the graph with what the command does around it: `Step` is a step of the run
that `generate(force=True)` makes, `Retry` starts it again on a failure whose message
looks transient (any may), `GiveUp` and `Return` end the target. `row` says whether the
row holds this run's output. `Check` is the four deterministic evaluators, one after
the other without anything in between; each judge may fail, be asked again, or write
anything (`Raw`). `SchemaValid` allows whatever ids the output refers to, as the code
does. LangSmith, external, records an exception of the target and calls the evaluators
all the same.

### GoldenDataset

The golden documents by the word counts of their blocks, cut by `Chunked` with the
default settings, and the places of the sentences that make up `expected_facts`. They are
further tables for `NeighborExpansion`. Two things the numbers show: no receiver's
block is longer than 301 words, so that each is one chunk, and the third Merex block has
326, whose tail is absorbed by the chunk, so that its claim and its qualifier are not
in different chunks, unlike what the comment in `seed.py:193` says of the hard cases.
`QualifierFollowsClaim` is about claims that the *search* finds; a claim that only comes
along as a neighbour may come without its qualifier. What expansion needs of the
numbers is `FactsAssumption`: a chunk with a claim expands, and it or one next to it has
the qualifier. It is about no constant, so that TLC computes its truth in both
`expansion` runs.

### CompanyData

`rows` are the committed rows of two companies with a document each, one material
between them and its sources; a chunk row stands for the chunks of one processing run.
`txn` is the open transaction of each writer: the create request, the worker's save, each
document's replacement of its chunks, and the requests that delete. `Sound` is the check
of the deferred foreign keys at the commit, which rolls back what does not pass;
`Holds` are the row locks others wait for. A deletion has the collector's phases:
`BeginDelete` collects the rows by the queries of that moment, `Sweeps` deletes or
empties sources as they are when the statement runs, `Writes` deletes what was
collected. A row inserted in between makes the commit fail. The workers' other steps
are those of `MaterialLifecycle` and `DocumentIngestion`, without their jobs, retries
and clocks: one worker at a time, as is proved there. Left out: deadlocks, which
PostgreSQL ends by aborting a transaction (a further way to `RollsBack`), PATCH (which
inserts a deleted material again, without sources, see `MaterialEditing`), and the
objects in the bucket, which no cascade removes.

### UploadsTray

`items` are the statuses of the tray's files as rendered; `queue` holds the updaters
that `setItems` was given and no render has applied yet; `batches` and `call` say where
`enqueue`, `runOne` and `uploadDocument` are. Every request has a step at the server
and one at its answer, and may fail before or after the first. `document` is the status
at the server, `shown` the one in the cached list, `fetch` the request for the list
with what it will bring. `Invalidate` replaces a fetch under way, which React Query
cancels: the answers that arrive are those of fetches sent after the mutation.

With `EventsBeforeRender = FALSE` every event finds the updaters of the one before
applied, as React guarantees of clicks and as holds of timers and answers unless the
page is busy. With `TRUE` an event may come first: then a timer that fires before the
render of a new upload's `append` clears the tray after it, with the file in flight. The
run and the proofs about the tray are for `FALSE`; the upload itself goes on either way,
and what is proved of the list holds for both.

## Runs

| run | instance | shows |
| --- | --- | --- |
| `lifecycle` | 3 executions, 2 prompts, `Stale = Deadline = 1`, both ways to dispatch, with fairness | all safety properties, the refinement, and that nothing stays queued or processing out of the user's reach |
| `edit_shape` | 2 executions, one PATCH at a time | what lost updates cannot break |
| `edit_review` | the same | a counterexample, below |
| `documents_overlap` | 2 jobs, a restart each, 1 lost pod, with fairness | chunks of overlapping runs and deletes; a serial ingestion is whole; who is processed has a job, and processing ends |
| `documents_replace` | 2 jobs | a counterexample, below |
| `generation_graph` | 2 fields, 3 texts each, 2 repairs, 2 attempts, 3 calls of the judge, with fairness | every answer of the model to each of 3 calls, what the evaluators make of the outcome, and that every step counts down to an end |
| `chunking` | texts of 0 to 16 words, documents of 9 blocks, 24 settings, batches of 3 | the loop against its definition; words, indexes and embeddings |
| `expansion` | 2 tables of 9 chunks and the 12 of the golden dataset, 3 seeds, window 1 | who gets which neighbours, exact passages, qualifiers |
| `expansion_window` | the 2 tables, 2 seeds, window 2 | a counterexample, below |
| `company_data` | 2 companies, 1 deleting request at a time, 2 processing runs, with fairness | sources, refused commits, outcomes |
| `company_reprocess` | the same | a counterexample, below |
| `uploads` | 2 files, 1 retry or delete, with fairness | tray, timer and list |

Why the bounds are enough to be worth something: three executions are a first run, a
takeover and a late or duplicate one, the most that any of the guarded races
involves; two prompts tell a run's prompt from its successor's; `Stale = Deadline` is
the tightest distance the assumption allows, tighter than the code's. Two document
jobs with a restart each are four runs that can overlap in pairs; the second job
comes from a lost reply and a retry. Two text fields with limits of 2 and 1 words, and
texts that fit, that can be cut at a sentence and that cannot be cut, give every
mixture of errors; 2 repairs is the setting. Texts up to 16 words with chunks up to 4
make up to 13 chunks, and overlaps up to 5 include those as long as a chunk. The tables
of `expansion` have blocks of one, two and three chunks next to each other, tables, a
caption and a document without offsets, cut by `Chunked` itself; those of the golden
dataset are the real ones, and 3 seeds are the `MATERIAL_RETRIEVAL_TOP_K` its
documentation asks for. The documents of `chunking` have blank blocks between others of
each kind, two tables on a page, and more payloads than a batch holds. Two processing runs
are the one a material retrieved from and its successor. A request that deletes may
delete again, so that one of them deletes a document and then its company; two files
come in one batch or in two. The theorems do not depend on these bounds. The
`documents_*`, `generation_graph`, `expansion*`, `company_*` and `uploads` runs do not
check deadlock, because a deleted document with its jobs spent, an example that is
scored, an expansion that returned, a company that is gone and a closed tray have nothing
left to do; the others do check it, since time always passes and an ended
pipeline stutters explicitly.

The properties aim at the hazards listed in `PROJECT.json`. `SingleRunner` and
`RunnerHoldsRow`: claim, skip and staleness rules together exclude a second writer.
`CompletedIsWhole` and `PublishedIsKept`: result, sources and prompt belong together
and are replaced together. `QueuedIsNotSkipped`: the execution of a queued row did
not look at the row and walk away. `VerdictIsCurrent`, `TrimSettles` and
`ValidIsGrounded`: what is stored as valid is what was validated, through repairs that
rewrite it. `ScoresAreOfThisRun` and `EvaluatorsAgree`: scores mean what they are taken
for. `SavedIsWellCut` is why `_same_block` can do without page and table number (at
the default window): over a whole document, rows that follow each other and look like
parts of one block are, and parts of one block follow each other and look like it.
`CompletedIsSourced` and `SourcesOutliveChunks`: what a cascade and a
reprocessing take along. `ProcessingHasWorker`: a commit that is refused for what another
transaction did meanwhile ends in a status and not in silence. `BoundedWork`: repairs
end when they are used up, neither later nor before. `OnlyDoneItemsExpire`,
`SuccessCloses` and `DoneIsHandedOver`: the tray against its timer. `ListCatchesUp`: the
polling stops only on what is final or fetched again, and `ListNeverRests` says who brings the rest.
`ChunksAsDefined` and `EveryBlockSaved`: no word falls between two chunks or blocks;
`SavedIsWellCut` is also what `PassageIsExact` needs of the table. `ProcessingHasJob`: what
shows "processing" has somebody at it. `EveryStepCounts`: repairs within attempts and
judges asked again are three nested retries, and none is without an end. `Recoverable`
and `ProcessingEnds`: the liveness the user interface depends on. Each property of a
passing run has a mutant of the code that breaks it, defined beside the operator it replaces.

### Fairness

`Recoverable` assumes that a request ends (commits or dies), that time passes, and
that Kubernetes enforces deadlines. It assumes neither that a pod ever starts nor
that a pipeline ever ends: the staleness rule is what recovers those.
`ProcessingEnds` assumes that requests end, that pending pods start, that failed
pods are replaced within the retry limit, and that a pipeline's next step happens
(its calls time out or raise); `ExampleIsScored` assumes the same of the graph
and the command, a single process. `MaterialSettles` assumes that a worker that was
not lost goes on, and that open requests commit or roll back. `SuccessCloses` and
`ListCatchesUp` assume that React renders, the timer fires, and requests are answered or
fail; nothing of the user, nor that a document's worker ever ends. A request for the
list that fails is repeated by the query client, and only the one that succeeds is a
step.
`ProcessingEnds` excludes the case in which a job's *last* pod is
lost or timed out: no handler runs then, there is no staleness rule for documents,
and the row stays `processing`, where the page offers no retry. A model of the code
cannot promise more.

### Disagreements between the code and what is said of it

- `edit_review`: the verdict of a PATCH is checked on an unlocked copy. If a
  regenerate commits between the read and the save, an *approved* copy is written
  over a row that was queued again, with the old `generation_status` (`materials/api/serializers.py:231` against its
  own message on line 236).
- `documents_replace`: two jobs of one document (a lost dispatch reply, then a retry)
  leave both sets of chunks; `src/docs/diagram-context.md:107` promises an idempotent
  replacement.
- `company_reprocess`: a document processed again between a material's retrieval and its
  save takes away the chunks whose ids the save inserts; the commit fails, and a valid
  output is lost with the material failed. `materials/models.py:133` means a source to
  survive exactly that, which `SET_NULL` gives only to sources that are saved already.
- `expansion_window`: with `MATERIAL_NEIGHBOR_WINDOW=2`, the single chunk of one block
  and the second chunk of the next are taken for neighbours in one block when the
  chunk between them is a seed of its own; the words of their supposed overlap are
  lost, although `materials/generation/expansion.py:3` promises exact stitching within
  a block and a paragraph break at its end. The default window of 1 is safe: chunks
  that are next to each other cannot look like that.

## Proofs

`tlapm` checks every theorem from the assumptions declared in the modules: `NoJob` is
no job, prompts exist, and `Deadline <= Stale` (600 seconds against 15 minutes in the
code) for materials; the retry and crash bounds are naturals for documents; limits
and chunk lengths are at least one word (`CONSTRAINT_BOUNDS`, the settings); the blocks
of a document have different places, the table of chunks is cut as chunking cuts, and the
sentences of the golden dataset lie where `FactsAssumption` says. TLC evaluates them all
in the runs.

`MaterialLifecycleProofs`. `SingleRunner` is not inductive: nothing in it says why a
regenerate request cannot requeue the row under a living worker. The strengthening
is `RunnerIsFresh`: a running worker's row is `processing`, unlocked, and *no older
than the worker's job*. A claim establishes it (it dates the row when the job's age is
at least zero), a tick ages both alike, a final write ends the worker, and
since a job's age never exceeds `Deadline <= Stale`, the row is never stale while
its worker lives, so that no takeover is allowed. With it a second claim finds the row
`processing` and skips. `LockNeedsRow` and `TypeOK` complete `RunnerInvariant`.

In the same module, `CompletedIsWhole` needs that the image an open request will
commit is sound too (`ImageIsSound`) and that the prompt of a row does not change under its
worker (`RunnerKeepsPrompt`); the action property `PublishedIsKept` follows from the
same invariant. The module ends with the refinement: initial states map to initial
states, and each action maps to the slot's action of that name or to a stutter; the
holder of the abstract slot is unique by `SingleRunner`.

`MaterialEditingProofs` proves `ReviewedHasOutput` in spite of the lost updates: it is said
of the row, of the open edit's copy and of the open request's image at once
(`EditInvariant`), since each of them may be written over another.

`DocumentIngestionProofs` proves for any number of overlapping jobs that processed
documents have chunks and deleted ones have none, through `SavedHasChunks` (a run past
its save left chunks behind), and, as long as one job was submitted, that what is processed
is one run (`OwnChunks`). `ProcessingDocumentsHaveJobs` is the safety under
`ProcessingEnds`: a document that shows "processing" has a job that is pending, running
or to be replaced. Its invariant adds the open request's image (`CommitHasJob`): the job
is submitted before the commit, so that it may run first, but its last write waits for
the row that the request holds, hence it cannot have ended by then.

`GenerationGraphProofs`: `GraphInvariant` adds to the properties where the run stands
(`Schedule`). Its core is the lemma `TrimIsValid`: a trim is tried only when nothing but
texts too long is wrong, so that afterwards nothing is; hence a trimmed output leads
out of the loop, and the verdict saved with an output is about that output. The module
is about `Evaluation`: the invariant holds again after `Retry`, which puts the graph back
to its start, and with it every theorem is one about each run of an experiment.
`EvaluatorsAgree` follows from the validator's verdict, that the evaluators' weaker
conditions are among its own.

What is out of the prover's reach in `ExampleIsScored` is only that a next step is taken.
That there cannot be infinitely many is proved: `WorkLeft` counts the repairs, attempts
and judge calls an example still has, weighed so that whatever one of them resets (a retry
starts the repairs again, a score the tries of a judge) costs less than it does.
Every step lowers it (`ExamplesRunDown`), and it stays a natural number
(`WorkStaysNatural`), for which one has to know that a judge who is being asked has not
scored yet (`TriesAreOfAJudge`).

`ChunkingProofs`, for every text and setting: `ChunkInvariant` says that every chunk
but the last is a plain one that ends far from the end of the text, that the next
chunk starts a step after the last and that everything before it is covered. For the
pipeline the same invariant holds block by block. `ChunksKeepTheirEmbeddings`: as long
as every batch came back whole the embeddings are the payloads' own, and once one came
back short the total stays short. `NeighborsAreOfOneBlock`: payloads are
collected block by block, and an index other than 0 only follows within a block.

The same module compares the loop with its definition. `StepsApart` says that every
chunk starts a step after the one before, so that the definition needs no recursion and
the proof no induction over data: when the loop returns, its last chunk is the first of
the definition's that reaches the end (`LoopComputesDefinition`). `TableInvariant` is
about the pipeline as a whole. `Remaining` says that the blocks to come are the last ones
of the document, `BlocksHeld` that each block before them has its words in the payloads,
`OfBlocksDone` and `CutMarks` what marks these carry: payloads of one block are
consecutive, numbered from 0, and overlap or adjoin. What is saved is the payloads
(`Copied`), whence `EveryBlockIsSaved` and `SavedTableIsWellCut`. `MergedTableIsWellCut`
carries the latter from one document to a table of many whose rows came in any order,
because rows of different documents are never compared.

`NeighborExpansionProofs`, for every table, window and search: what is claimed is what
is assigned (`ClaimedIsAssigned`), and nothing is assigned ahead of `rank`.

`PassagesAreExact` is for every well-cut table and a window of 0 or 1. The hypothesis on
the window is real: with 2 the run `expansion_window` refutes the property. With 1 a seed
gets only chunks next to it (`PiecesFollow`: pieces that are next to each other in a
passage follow each other in the table), so that two pieces which look like one block's
are. The rest is about `Stitch` alone: a paragraph goes from the first word of the piece
that starts it to the last word of the piece that ends it, which the lemmas
`EndsGrow`, `ParagraphIsInterval`, `StitchKeepsWords` and `StitchJoins` establish. Where
one would go back from a piece to the first of its paragraph by induction, they take the
least or greatest element of a set of keys (`LeastElement`, from the well-foundedness of
the naturals).

`FoundChunksBringNeighbors`, for the default window: unless a document goes away, the
chunks before and after every chunk found are read whole, with whatever seed
(`NeighborsAreRead`). It takes all of the above: every neighbour is listed (`AllListed`),
goes to a seed in the end (`AllRanked`, `RankWins`), and its seed's passage holds it
(`PassagesMade`). `FoundClaimsBringQualifiers` is its consequence for the golden dataset:
a claim's chunk expands and has the qualifier in it or next to it (`FactsAssumption`), and
a piece of a passage is never torn apart (`PiecesAreRead`).

`CompanyDataProofs`, for any number of deleting requests and processing runs. That the
foreign keys hold is PostgreSQL's promise and not a result: a commit is guarded by it
(`Sound`), and the proofs use it (`DataInvariant`). `CompletedIsSourced` needs of the open
transactions what they remove: a source only with its material or document, or to put
another in its place with the chunk left out. Who collected a document has collected its chunks, and
the material's row is held by the save, so that no other writes it in between.
`SourcesOutliveTheirChunks` is an action property: a step that takes a company's last
source away also takes the material or the document, or queues the material. The
invariant behind it (`SourceInvariant`) is about the transactions under way: only a
completed material that no worker is at has sources, the save removes none, and a source
that another transaction has deleted or put back is locked by it, hence still there and
untouched by others until it commits. `ProcessingRowsHaveWorkers` is the safety under
`MaterialSettles`: a material or document that is being processed has its worker as
long as its row is there. The save of a material is refused when the chunks it cites were
replaced; a replacement of chunks is refused when a save has come to cite them after their
sources were swept, a moment only the interleaving with the other's commit reaches. Both
must end in a status (`GenerateHasWorker`, `PipelineHasWorker`), and nothing brings back a
row whose status was not written because it was gone (`NothingComesBack`).

`UploadsTrayProofs`, of the tray under `EventsBeforeRender = FALSE`, which its theorems
state: `TrayInvariant` says that at most one update and its settle wait, that a waiting update
agrees with where its file's call is, and that the timer runs only while all items are
done; a new batch turns it off before its items are there. `DoneTraysAreTimed` is the
converse: a tray in which nothing runs and everything succeeded has its timer running.
`BatchesSettle` is why: a file under way has a batch, and when the last one of a batch
ends, its settle is queued behind whatever it ended with. `TheListIsNeverLeftOld` needs no
assumption on renders: a mutation's answer sends a new fetch in the place of one that may
carry the old state, and what a fetch will bring is either what the server has or
something that is polled.

Only model-checked are the liveness properties, since liveness under fairness and ENABLED
are out of the prover's reach, and the counterexamples. Of most of the former the
theorems hold the part that is safety, and what is left to TLC is that steps are taken:

| model-checked | proved |
| --- | --- |
| `ProcessingEnds` | `ProcessingHasJob`: somebody is at the document |
| `ListCatchesUp` | `ListNeverRests`: the list is new, polled or about to be fetched |
| `SuccessCloses` | `DoneTrayIsTimed`: the timer is running |
| `ExampleIsScored` | `EveryStepCounts`, `WorkIsLeft`: the number of steps is bounded |
| `MaterialSettles` | `ProcessingHasWorker`: somebody is at the material |
| `Recoverable` | nothing of its own: a stranded row becomes free to regenerate because time passes |

Proved for every value of the constants, and no property of a run:
`EditInvariant`, `ChunksInvariant`, `SerialInvariant`, `CommitHasJob`, `BatchesSettle` (the
strengthenings behind what the runs check), `TrimKeepsBeginnings`,
`NoMoreChunksThanWords`, `IndexesTellBlocks` (`SavedIsWellCut` says more),
`EveryWordChunked`, `ChunksStitch`, `NoStraggler` (of the loop, which `ChunksAsDefined`
describes exactly), `NeighborsAreRead`, `WorkIsLeft` and
`DoneTrayIsTimed`.

## Not modelled

- The object in the bucket. `delete_document` and `delete_company` remove objects before
  the row's delete commits, and a company's cascade leaves its documents' objects behind;
  nothing reads the bucket again, so there is no promise to check beyond the sentence in
  `src/frontend/src/components/documents-tab.tsx:128`, which a request that dies in
  between falsifies.
- The slug of a template (`materials/models.py:47`): two saves may choose the same one;
  the unique index refuses the second and the code does not retry.
- The inline mode of document processing, in which the pipeline runs inside the request
  and a database error would end the request's transaction; it is for development.
- The cached Kubernetes client of `worker_jobs.py` and the manifest of a job.
- Text: prompts, captions, summaries, labels, the judge's wording. `_parse_score` takes the
  first number in the judge's answer ("3 of 4" is 3, clamped to 1.0), and a judge that
  failed scores 0.0 like one that found nothing supported; both are outcomes of `Judge`
  and `JudgeFails`, and no property says which is meant.
- PDF libraries, embedding and language models, LangSmith: external, their failures
  are modelled.
- Pages, forms, session handling, dashboard queries, users, deployment and CI: rendering,
  single requests or declarations without a protocol of their own.
