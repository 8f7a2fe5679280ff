# A verification project for the compliance agent platform

The platform screens sanctions alerts. An agent, a LangGraph graph whose state is
checkpointed in Postgres, enriches an alert, retrieves guidance, asks a model for an
evaluation and books a disposition or waits for an analyst. Everything it does is
appended to a hash-chained audit table, which a separate job exports to an
object-locked bucket. This directory models these parts, the model path inside
`evaluate` with its guardrails and cost report, and the vector store in TLA+, checks
them with TLC and proves the core of them correct with TLAPS.

Paths below are relative to `src/compliance_agent_platform/`.

## The system

| Component | State | Operations | Works with |
|---|---|---|---|
| Audit chain (`audit/log.py`, `audit/schema.sql`) | the table `screening_audit`, its id sequence, an advisory lock | `write_audit`, `verify_chain`, `ensure_audit_schema` | every node, the middleware, the export |
| Screening graph (`graph/`) | the channels of a thread (`ScreeningState`) | `intake`, `enrich`, `retrieve`, `evaluate`, `escalate`, `dispose`, the route after `evaluate` | audit chain, checkpointer, adapters, models, vector store |
| Middleware (`compliance_mw/`) | none | `wrap_node`, `_audit_node_failure`, `check_dispose_citation` | wraps every node |
| Entry point (`runtime/contract.py`) | none | `invoke` with an alert or with an analyst's decision | opens the checkpointer, runs the graph, reads the latest state |
| Checkpointing (`checkpoint/postgres.py`, LangGraph) | the checkpoints of each thread | put (in the background), get | graph, entry point |
| Audit export (`audit/s3_export.py`) | the objects of the bucket | `export_batch`, `verify_export` | audit table, S3 |
| Guardrails and model routing (`guardrails/`, `llm.py`, `config.py`) | none | PII floor, input and output rail, primary and fallback model | `evaluate` |
| Retrieval (`rag/`, `embeddings.py`) | a FAISS file or a pgvector table | ingest, search, load, save | `retrieve`, `cap rag ingest` |
| Cost report (`cost.py`) | none | `build_cost_report` | the rows of `evaluate` |
| Adapters, command line | none | read only | |

What is hard in it, and what each part must guarantee:

- **Audit chain.** Processes append at the same time, each in a transaction that can be
  rolled back anywhere. There must be one chain, in id order, and a deletion or an
  exchange of rows must show.
- **Graph, entry point, checkpoints.** A process can die between any two statements; the
  audit trail and the checkpoints are two stores with no common transaction; the
  channels of a thread outlive the run that wrote them; a resume value is taken by the
  first node of a call or by none; nothing orders two calls on one thread. What is booked
  must be on record, a match must have been confirmed by a human, an escalation must end
  only by a decision, and must end.
- **Middleware.** A failure must be on record, also when the audit connection has failed;
  the citation check refuses what `dispose` has already audited.
- **Export.** It takes no lock, can die between the data and the manifest, and what it
  has written cannot be removed. The bucket must verify by itself and pass over no row.
- **Start-up.** Every process replaces the table's trigger and takes its table locks beside
  the others' appends. The guard may not be missing, and a deadlock may not last.
- **Guardrails, fallback, cost.** The order of floor, rails, model and fallback, and what a
  failure at each place leads to; the boundaries of what reads as an SSN or a card number;
  which rows are calls that cost something.
- **Retrieval.** One file rewritten in place and read by others; a table upserted row by
  row by transactions that lock each other's rows.

`PROJECT.json` lists every such hazard at its line, with the property that covers it.

## The modules

```
AuditLog            an append-only ledger: what the audit table promises
  ^ implements
AuditChain          write_audit, statement by statement; verify_chain
  ^ extends             ^ proved in AuditChainProofs
AuditExport         export_batch and verify_export beside the writers
                        ^ proved in AuditExportProofs
AuditStartup        open_checkpointer: schema.sql and its locks beside the writers
                        ^ proved in AuditStartupProofs

Screening           invoke, the graph, the middleware, checkpoints, the trail
                        ^ proved in ScreeningProofs, ScreeningOrderProofs

EvaluateCall        one call of a node leaves one row, unless the database refuses it
  ^ implements
Evaluate            the node evaluate inside: floor, rails, model, fallback, row
  ^ extends Patterns (SSNs and card numbers) and CostReport (the report over the rows)
                        ^ proved in EvaluateProofs

ChunkIndex          a store of chunks into which whole ingests are merged
  ^ implements
VectorStore         ingests, FAISS file and pgvector table, search and its evaluation
                        ^ proved in VectorStoreProofs

FoldLemmas          induction, folds and sums, for the proofs
```

`MCScreening`, `MCEvaluate` and `MCVectorStore` give their modules calls, verdicts, texts
and corpora; the other modules are checked as they are, with the constants of their `.cfg`
files. `AuditStartup` adds to the steps of `AuditChain` the table locks that they wait for,
so what holds of the chain holds there too.

### AuditChain

`table`, `seq` and `lock` are the table, its sequence and the advisory lock; `pc[w]` is
the statement of `write_audit` that process `w` executes next, `prev[w]` its local
`prev_hash`, `inserted[w]` its uncommitted row. The actions are the statements: `Call`,
`AcquireLock`, `ReadTail`, `Insert`, `Commit`, and `Rollback` for a process, connection or
statement that fails. An id that `Insert` took is not given back. `Legacy` rows have no
hashes, as rows from before the hash columns.

sha256 is modelled as injective: a hash is the sequence of the records it commits to. So
`ChainHash` is `Append`, the genesis hash is the empty sequence, and a collision is what
the model leaves out. `verify_chain` is written declaratively: row `r` `Links` if its
`prev_hash` and `record_hash` are what the loop recomputes from the row before it, and
the answer's `broken_at_id` is the least row that does not. Retyping of time stamps by
the driver is not modelled (a session whose `TimeZone` is not UTC returns `created_at`
with another offset, and the text that was hashed differs).

### Screening

A call is one execution of `invoke`. `ckpt[t]` is the latest checkpoint of a thread,
`state[c]` the copy the call works on, `unsaved[c]` whether that copy is ahead of what is
stored; `Store` can happen at any moment before the call returns, so a `Crash` loses
everything since. `trail[c]` is the audit trail of the run that call `c` started (the rows
of an alert in the table; the split by run is there for the properties). `token[c]` is the
resume value. Each node is an action that appends its row and writes its channels; a crash
after the row and before the checkpoint is `Crash` before `Store`. `dispose` is two
actions, `Book` and then the hook (`HookPass`, `HookBlock`), because the process can die or
the connection fail between them. `escalate` is split at `interrupt()`.

What LangGraph does is external and was taken from how the code uses it: channels persist
on a thread; input on an existing thread restarts at the entry node and keeps the old
channel values; a resume goes on from the latest checkpoint, its value is consumed by an
`escalate` that is the first node of the call and dropped otherwise; a resume at the end
executes nothing; an interrupt leaves the thread at `escalate` with the interrupt pending.
Resuming a thread that has no checkpoint is left out. The checkpoint of a call is taken to
be the latest when it is stored; calls that overlap only do so in one run.

Data is cut down to what the program decides by: an alert has hits and a date of birth, a
verdict a type, a confidence at or above the threshold, entities and evidence, a decision
a resolution, entities and an analyst's name. `EvaluateByModel` and `NodeFails` stand for
the whole model path of `evaluate` with its guardrails.

The audit rows of a node carry the alert's id as `thread_id` even on a session's thread;
the model has the run instead of both.

### AuditExport

Extends `AuditChain`: the writers' statements interleave with those of the exporters.
`ListManifests`, `Select` (or `NothingNew`, `Refuse`), `PutData`, `PutManifest` are the
steps of `export_batch`, `Die` ends one anywhere, `LoseRows` removes rows out of band.
`VerifyExport` is `verify_export`. A key is its time stamp, unique.

### AuditStartup

Extends `AuditChain`. `start[w]` is how far process `w` is with `schema.sql`: `CreateIndex`
(Share), `AlterAndDrop` (AccessExclusive), `CreateTrigger`, `CommitSchema`; or it is down or
up, and then it appends. A statement that needs a table lock is enabled when nobody holds a
conflicting one; Postgres' queues of waiters become strong fairness. `Blockers` says who
keeps whom waiting, `Abort` is the deadlock detector. Two deadlocks are reachable: two
start-ups that both hold Share, and a start-up that holds Share while an append that has
read the tail wants to insert. The victim loses nothing but uncommitted work: a start-up
that fails raises out of `invoke`, an append that is rolled back is an SQL error of its node
(`SqlFails` in Screening). Both come from a start-up that raises its lock in mid
transaction, and so does every other: `DeadlocksNeedAnUpgrade`. The table is taken to exist; the race of creating it first is
not modelled.

### Evaluate, Patterns, CostReport

`pc` is the next call that `evaluate` makes: `PiiFloor`, `InputRail`, `Invoke`,
`OutputRail`, `AuditRow`, or `AuditFailure` for an exception that leaves the node. `Fall` is
the `except` branch: a call of the `try` block that fails switches `serving` to the
fallback, once, and skips the rail if `checked`. `verdicts` records what models have said
in an evaluation, so that the properties can compare it with the row. Any model may refuse,
fail or answer something that does not parse, except the canned one. A model is taken to
return or to raise; what NeMo makes of its answer is external.

A text is a sequence of digits, blanks, dashes, letters and other marks; a label ("SSN",
"social security number") is one character of its own. `find_pii` says which of the two
categories a text has. `HasSsn` is the two SSN patterns, `Separated` and `Labelled`, with
their excluded areas, groups and serials; `Matches` is what `finditer` finds with
`_CARD_CANDIDATE` (leftmost, longest, not overlapping), and `HasCard` the issuer and Luhn
tests over it. `MCEvaluate` says of each text what there is in it, from how it is built and
by a table-driven Luhn check of its own.

The database may refuse the row that ends an evaluation (`SqlError`), of its result or of
its failure; `unwritten` counts these, so that `OneRowEach` allows an evaluation without a
row for this reason and for no other.

`build_cost_report` works on the rows that the evaluations have left, in whole units of
money that make both ways of pricing exact, and rounds as the code does, to microdollars
(a half up, where the code's binary floats may go down; the properties allow both).

### VectorStore

A process that ingests opens the store (`LoadFile`, `OpenTable`), parses the corpus
(`LoadCorpus`), has it embedded (`Embed`), upserts chunk by chunk (`Upsert`), and commits
(`Commit`) or saves the file (`Truncate`, then `Write`). `Fail` is an exception or a death
anywhere. `mine[p]` is the store that `p` has in memory with FAISS and its uncommitted rows
with pgvector. Processes that have the file open at the same time write over each other
(`"clash"`), and what is left can be a mixture. `content` and `past` say what whole
ingests have left; `ChunkIndex` speaks of them.

With pgvector an ingest is merged into the store as it is; with FAISS, where two ingests
can load, upsert and save beside each other, into the store as it was at some earlier
time, so one loses the other's chunks. Chunks that a corpus no longer names stay. The score
of a chunk is abstracted to whether its vector is the query's. In the instance all corpora
name the ids that they share in one order; two corpora that name them in different orders
can deadlock, and Postgres would abort one ingest.

## The runs

Runs that pass:

| Run | What it shows | Bounds |
|---|---|---|
| `chain` | `ChainIntact`, `TailStaysFresh`, `DeletionDetected`, `ReorderDetected`, `AppendsInIdOrder` (implements `AuditLog`), `EveryAppendEnds` | 3 writers, 2 records, 1 legacy row, ids to 4, any number of rollbacks |
| `one_run` | `EveryStepOnRecord`, `BookedAsAudited`, `TrueMatchConfirmedByHuman`, `DispositionNamesTheModelAudited`, `EscalationLeavesOnlyByDecision`, `DecisionClosesEscalation` | one of 2 alerts, 2 resumes of which one is never acceptable to an evaluation without entities, 5 verdicts, 2 models, 1 crash or SQL error |
| `session` | `AgentBooksOnlyConfidentSafe`, `UncitedNeverBooked`, `FailureOnRecord`, `DispositionIsFinal` | 2 alerts and 2 resumes, one of them refused, on one thread, 1 crash |
| `export` | `ExportVerifies`, `ExportSkipsNothing`, `ExportsWholeHistory`, `RefusedOnlyAfterLoss`, `EveryRowExported` | 2 writers, 1 exporter, ids to 3, 1 death, 1 loss |
| `startup` | `GuardNeverMissing`, `DeadlocksNeedAnUpgrade`, `WaitsEnd` | 3 processes, 1 record, ids to 2, any number of deaths and starts |
| `evaluate` | `PiiReachesNoModel`, `OnlyPiiStopped`, `VerdictIsFinal`, `AnswerPassedRails`, `EvaluationEnds`, `OneRowEach` (implements `EvaluateCall`), `NeverOverbilled`, `ReportAddsUp` | 2 evaluations, every setting, 85 texts, usage known or not, any call failing |
| `store` | `ReadersSeeWholeIngests`, `FoundByOwnText`, `IngestsApplyWhole` (implements `ChunkIndex`), `IngestEnds` | both backends, 2 processes, 3 ingests, 3 corpora of 2 files, deaths anywhere |

Three writers are enough for one to hold the lock, one to wait and one to arrive; the
theorems cover any number. A race of an exporter with a commit needs two writers, a gap
two rows around a lost one, a batch boundary two batches: ids to 3. In Screening a stale
channel needs two runs on a thread; a decision that spoils a later one needs two resumes;
a crash doubles every row it can double, and a second one repeats the first. Threads share
nothing but the audit chain, so one is enough. A cycle of table locks needs two processes
and its detection beside a third that waits needs three. An evaluation keeps nothing but
its rows, so two show that the second is not disturbed and give the report two groups and
a window; the texts stand at each boundary of the patterns: cards with 12, 13, 19 and 20
digits, each issuer range and its neighbours, a wrong last digit, digits, groups of digits
and dashes beside the number; SSNs with the first and last area, group and serial and each
excluded one, with marks that agree or do not, with digits beside them, and with labels at
three and at four characters; and both in one text.
Two processes make every overlap of ingests, a third ingest re-ingests over what they
left; the corpora change a text, name an id twice, hold malformed records, or nothing. `CHECK_DEADLOCK FALSE` is given where all
calls have been made and answered and nothing is left to do; `AuditChain` and `AuditExport`
never stop.

Runs that end in a violation, each a statement of the repository that the code does not
keep (`findings` in `PROJECT.json` quotes it):

| Run | The statement | What happens |
|---|---|---|
| `stale_decision` | a match is confirmed by a human | a session's second alert is booked by the decision on the first |
| `sql_error` | a failing node leaves a `node_failed` row | the row is written on the connection that failed |
| `stuck` | a resume closes an escalated alert | a decision that cannot be booked stays and shuts out later ones |
| `export_overlap` | the export is idempotent | two manifests name one predecessor, for good |
| `torn_store` | re-ingesting is always safe, nothing needs to be deleted first | an ingest that dies while saving leaves a FAISS file that nobody can load |

More limits that the models show with other constants, or that follow from the shape of
their actions, and that have no run of their own.

An alert that is given again on its thread starts again from `intake` (`StartRun`), though
`checkpoint/postgres.py:4-5` says that re-invoking resumes. Two resume calls at the same
time on one thread replace each other's disposition (`DispositionIsFinal` with
`Overlap = TRUE`). A decision sent to a thread at its end is recorded nowhere and answered
"disposed" (`Resume` with `next = END`).

With `guardrail_input_backend = "bedrock"` a failing Bedrock rail makes `evaluate` fall
back although NIM is up; and when NIM fails after its rail has passed, Bedrock answers a
prompt that its own rail never saw (`AnswerPassedRails` asks for some input rail only). The
cost report leaves out answers that a rail refused or that did not parse, the rails' own
calls, and the time of a NIM call that failed.

A card number that a blank or a dash joins to a further group of digits, up to 19 together
(`4111111111111111 12`), or that a dash follows, passes the PII floor: the pattern takes all
the digits for one number (`guardrails/patterns.py:26`), which fails the Luhn check, and the
search goes on behind it. `graph/nodes.py:249-250` says that the floor catches a card
"anywhere". These are the texts `JoinedCards` of `MCEvaluate`; `PiiReachesNoModel` therefore
speaks of numbers that stand apart, and `OnlyPiiStopped` shows that the joined ones go
through.

`build_graph` loads the vector store before any node runs, so a store that cannot be loaded
raises out of `invoke` without an audit row. With pgvector the store shares the audit
connection (`builder.py:79`): a search that fails leaves it in a failed transaction, as in
`sql_error`.

`DispositionNamesTheModelAudited` fails on a reused thread when two models can serve
(the rule overlay leaves an earlier run's `evaluation_model` in the state).
`RefusedOnlyAfterLoss` is checked with `Legacy = 0`; with `Legacy = 1` every export is
refused at the row without a hash. Rows lost from the end of the table before they were
exported leave no trace once the next row is chained to what remains; `ExportsWholeHistory`
says what is caught: a loss with a survivor after it.

`Reuse` and `Overlap` say whether a thread with a checkpoint may be given an alert and
whether calls of a thread may overlap. Nothing in the code forbids either; the passing
runs that exclude them state what holds for a caller who keeps to one run and one call at
a time, and the violations show what does not hold for others.

Fairness. `chain`: a process executes its next statement (weak fairness), and
Postgres serves the waiters of a lock in turn (strong fairness of `AcquireLock`); no
process has to call `write_audit` again. `one_run` and `stuck`: a process that has not
died goes on; no call has to be made. `export`: the job is started again and again, as
a cron job is. `startup`: waiters are served in turn, and one transaction of a deadlock is
aborted; no process has to start or to append. `evaluate`: every call to a model or to the
database returns or raises. `store`: an ingest executes its next step (strong fairness,
for a row lock that is taken and freed); none has to begin, and none has to fail.

## What is proved

**The chain.** For every set of writers and of records and all bounds, from the
assumptions that `Legacy` and `MaxId` are numbers with `Legacy <= MaxId`, that `Nobody`
is no writer and that a NULL hash is no hash (`AuditChain`, `ASSUME`):

- `TypeCorrect`, `ChainAlwaysIntact`, `TailAlwaysFresh` (`AuditChainProofs`);
- `ImplementsLog`: `Spec` implements `AuditLog`;
- `DeletionAlwaysDetected`, `ReorderAlwaysDetected` (`AuditChainProofs`);
- `StartupKeepsChainIntact`, `GuardAlwaysThere`, `OnlyUpgradesDeadlock`
  (`AuditStartupProofs`).

The chain's invariant is not inductive alone. `IInv` adds: who is between `ReadTail` and
`Commit` holds the lock, so there is at most one; its `prev` is the tail's hash; no
committed or inserted id is above `seq`, and an inserted one is above all committed;
legacy rows are the rows up to `Legacy`; and every later row's hash is its record appended
to the hash of the row before it. Each action keeps it; only `Insert` and `Commit` have
work to do. Its part `Steady` is what holds also of a table that has lost rows, and is what
the export relies on. The two deletion theorems are facts about any chain of this shape: hashes grow
by one record from row to row, so a row never fits after any row but its own predecessor.

`AuditStartup`'s invariant for the trigger is `Alone`: while a start-up is past
`AlterAndDrop`, and so holds AccessExclusive, no other process has the table open. The
locks that are granted give it, statement by statement. `OnlyUpgradesDeadlock` adds that
only a process that is up appends (`AppendsWhenUp`) and, from the chain's invariant, that
who is past `AcquireLock` holds the advisory lock. So at most one append has the table open;
once it has inserted it waits for nobody, and before that it waits only for start-ups, as
one that queues for the advisory lock waits only for that append. In a circle each waits
for another of it, so there is a start-up in it that holds a lock and still wants one, and
that is the statement that raises Share to AccessExclusive. That the chain stays intact
needs no more than that table locks only delay its steps.

**The export** (`AuditExportProofs`). For any number of writers and exporters, deaths and
losses of rows, from the assumptions above, that `NoManifest` is no manifest, and that the
exporters are finitely many and the bounds on deaths and losses numbers:

- `ExportTypeCorrect`;
- `SkipsNothing` and `WholeHistoryExported`;
- where no row predates the hash columns (`Legacy = 0`), `RefusalsMeanLoss`;
- where there is one exporter, `BucketVerifies`. `export_overlap` shows that two exporters
  break it.

A table that has lost rows does not verify, so the chain's invariant is of no use for the
first two. `ExportInv` builds on `Steady`: ids are handed out in order, and what is not yet
committed is above all that is. So the rows up to the last id of a batch are all there, or
lost, when the batch is selected (`BucketCovers`). Each batch verifies from the head of the
manifest it names (`BatchesContinue`), and therefore no hash in the bucket commits to a row
that is not in it (`HistoryWhole`): this is where a loss with a survivor after it stops the
export. As long as nothing is lost, the table is a chain that holds all that is in the
bucket, and any selection of it verifies (`HeldUntilLoss`). `BucketInv` says that the
exporter's idea of the last manifest is still right when it puts the next one, so that
batches join one after the other into a chain from genesis.

`ExportTypeCorrect` says among other things that the clock of the keys stays within `Keys`,
one for each death and one for each exporter and row, though no guard holds it there. Its
invariant counts (`SelectionsCounted`): every selection was lost in a death, or is under
way, or is in a manifest, and no exporter begins twice at the same first row without a
death in between.

**Screening.** For every set of calls, whatever they are given and on whatever threads, for
all models, verdicts and numbers of faults. `ScreeningAssumption` says that a call brings
an alert or a decision, that verdicts and decisions have the fields the program reads, that
the primary model is a model, and that `None` is none of these.

- For calls that reuse threads and overlap as they like (`ScreeningProofs`):
  `TypeCorrect`, `StepsOnRecord`, `AgentBooksSafely`, `BookedIsCited`.
- Where a thread is given one alert only (`~ Reuse`): `MatchesConfirmed`.
- Where one call at a time works on a thread (`~ Overlap`; `ScreeningOrderProofs`):
  `BookingOnRecord`, `BookingIsFinal`, `EscalationsAreDecided`; with `~ Reuse` also
  `ModelOnRecord`, and with `MaxSqlErrors = 0` also `FailuresOnRecord`.

Each condition is needed: `stale_decision` refutes the confirmation with `Reuse`,
`sql_error` the record of failures with a failing statement, and the limits below the runs
name what overlapping calls break.

`ScreenInv` says of every state of a thread that anybody knows, stored or in memory, that
it is sound: the channels of the nodes it has passed are filled, their rows are in the
trail, and what is booked follows from what is in the channels. A step makes one new state
out of one sound state and adds at most one row, so soundness moves along, and a crash only
forgets states. What is about the order of rows needs more, because a process that dies
leaves rows of nodes that its checkpoint has not passed, and those nodes write again.
`OrderInv` adds that one call at a time works on a thread (`Alone`), that it is never
behind the thread's checkpoint (`AheadOfStored`) and level with it when nothing is unsaved
(`Level`), and what the last row of a kind says about a state (`TrailInv`). A node writes
rows of a kind only while both the state and the checkpoint are before or at that node, so
a row is last until its own node writes the next one.

**Evaluate** (`EvaluateProofs`). For every choice of settings, texts and rails and any
number of evaluations, from `EvaluateAssumption` (the settings name known backends, `None`
is none of them, usages and pauses are numbers) and `PriceAssumption` (prices are whole
units): `TypeCorrect`, `VerdictsFinal`, `AnswersPassedRails`, `OneRowForEach`, and two
theorems about the texts. `FoundPiiReachesNoModel` assumes that `find_pii` finds something
in each text that has PII, and says that the order of `evaluate` then keeps these texts from
every model. `SsnFoundAnywhere` is about the detector, for texts of any length: an SSN is
found wherever it stands, with anything before and after it but a digit directly beside it.
For this the lemmas of the section "SSNs in a longer text" carry a match from its place in
the shorter text to its place in the longer one. There is no such theorem about cards, and
it would be false (`JoinedCards`). The run `evaluate` checks at the boundaries of the
patterns that the detectors find what `MCEvaluate` says is there.
`EvaluateInv` relates the statement to what has been said by then: a refusal leaves only
the raise, the row is reached with an allowed input, the serving model's answer and its
allowed output, a text with a finding stops before the first model, and the evaluations
begun are those with a row, those whose row was refused, and the one under way.

**The cost report** (`EvaluateProofs`). `BillsWhatWasAnswered`: the report names only
backends of models, and counts no more calls of one than it answered. Its invariant
`BillInv` counts the rows of a backend against its answers and leaves room for the one
whose row is still to be written. `ReportsAddUp` is about the report alone, over whatever
rows `BillInv` allows, for all prices: its parts by backend, disjoint and with the same
costs, add up to the whole (`BackendReport`, `ExactByBackend`); the rounded cost of a group
is within half a microdollar of the sum of what its calls cost one by one (`GroupCost`,
`ReportIsExact`); and the window runs from the earliest row selected to now
(`WindowIsExact`).

**The vector store** (`VectorStoreProofs`). For all corpora, processes and numbers of
ingests: `WholeIngestsSeen`; `TableNeverTorn`, that with pgvector nobody even meets an
error; and `OwnTextFound`. `StoreInv` says that the file is torn or holds what an ingest
has left, that the table is never torn because nobody opens a file with pgvector, and that
each store, on disk or in memory, is finite and gives each chunk the vector of its text.
The last of these theorems then is a count: a search for as many chunks as say what the
query says finds all of them before any other.

`IngestsAreWhole` is the refinement of `ChunkIndex`, from `CorporaAssumption` (a corpus is a
sequence of files, a file one of records). What loading a corpus leaves is compared with
`Given`, which picks of each id the last well-formed record without going through the
files. `ParseLeaves` and `LoadLeaves` show them equal, the first by induction over the
records of a file, the second over the files: what has been read so far leaves the last
record of each id among the places passed (`LeavesAt`), and later places go over earlier
ones. `IngestInv` then carries this through an ingest: what is left to upsert, over what is
upserted, remains the corpus over what the ingest began with (`Ingesting`), since each
`Upsert` moves one chunk from the one to the other. With pgvector an ingest begins with a
transaction of no rows, so its commit is the corpus over the table as it is; with FAISS it
begins with what the file held at some earlier time. `Truncate` needs that all who have the
file open are done with their chunks.

**Folds and induction** (`FoldLemmas`). The prover has no induction theorem it can
instantiate with an operator, so an induction is over a set: `NatByInduction` for a set of
numbers, `SubsetsByInduction` for a family of subsets of a finite set, each from a least
counterexample. A fold of the community modules is a recursive function given by CHOOSE;
`FoldExists` shows that such a function exists, and hence that the fold is one. The lemmas
about sums follow from it: one value taken out (`SumStep`), linear combinations, other
indices, groups, errors that add up.

Only model-checked: the liveness properties `EveryAppendEnds`, `DecisionClosesEscalation`,
`EveryRowExported`, `WaitsEnd`, `EvaluationEnds` and `IngestEnds`, since fairness is out of
the prover's reach; and `OnlyPiiStopped`, since what the card detector does with a text is
a fold over its digits, and a fact about the texts of the instance. The violations are TLC's
traces. Every other property that a passing run checks is a theorem, `PiiReachesNoModel`
for texts in which the detectors find something.

## Not modelled

Prompts, scores, names, formatting, argument parsing and the adapters' data: data or I/O
without a decision that the properties tell apart. The cost projection is one
multiplication. LangGraph, Postgres, S3, NeMo and the models are external.

## Plan

1. Done: `AuditLog`, `AuditChain` and their proofs; `Screening`; `AuditExport`.
2. Done: `Evaluate` with `Patterns` and `CostReport`; `AuditStartup`; `VectorStore`; the
   proofs about `AuditStartup`, `AuditExport`, `Screening`, `Evaluate` and `VectorStore`,
   with the cost report and the refinement of `ChunkIndex`.
3. Left: the first creation of the table by two processes, and the time stamps of a session
   that is not in UTC.
