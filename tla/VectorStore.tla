---------------------------- MODULE VectorStore ----------------------------
(***************************************************************************)
(* rag/: ingests of the regulatory corpus into the vector store, in        *)
(* processes of their own (cap rag ingest), beside those that search it.   *)
(*                                                                         *)
(* The FAISS store is a file that a process loads as a whole, changes in   *)
(* memory and writes back; the pgvector store is a table that it changes   *)
(* row by row in one transaction.  Postgres, its row locks, and the file   *)
(* system are external.  The embedding of a text is the text.              *)
(***************************************************************************)
EXTENDS Naturals, FiniteSets, SequencesExt

CONSTANTS
  Processes,    (* that ingest                                             *)
  Corpora,      (* what the corpus directory can hold: for every file, by  *)
                (* its place in the sorted names, the records of the file, *)
                (* .chunk_id and .text                                     *)
  None,         (* a tag that a record lacks                               *)
  Torn,         (* a file that is not the whole of what was to be written  *)
  MaxIngests    (* bound on ingests                                        *)

VARIABLES
  vector_backend,   (* "faiss" or "pgvector"                               *)
  corpus,           (* what the corpus directory holds                     *)
  disk,             (* the committed rows, or what the file holds          *)
  pc,               (* pc[p]: what p does next                             *)
  chunks,           (* chunks[p]: those that p has still to upsert         *)
  mine,             (* mine[p]: the rows p has upserted and not committed, *)
                    (* or the store it has in memory                       *)
  ingests,          (* ingests begun                                       *)
  content,          (* the chunks of the store, as last saved, and         *)
  past              (* all it has held: what ChunkIndex speaks of          *)

(* What stands in files of any corpus.                                     *)
AnyRecord ==
  UNION {UNION {{files[f][i] : i \in DOMAIN files[f]} : f \in DOMAIN files} : files \in Corpora}

ASSUME CorporaAssumption == Corpora \subseteq Seq(Seq(AnyRecord))

own == <<pc, chunks, mine>>
vars == <<vector_backend, corpus, disk, own, ingests, content, past>>

Empty == <<>>

-----------------------------------------------------------------------------
(* Corpus                                                                  *)

(* _parse_block found both tags, with something behind them.               *)
WellFormed(record) == record.chunk_id # None /\ record.text # None

parse_corpus_file(records) ==
  FoldLeft(LAMBDA found, record : IF WellFormed(record) THEN Append(found, record) ELSE found,
           <<>>, records)

load_corpus(files, order) ==
  FoldLeft(LAMBDA found, f : found \o parse_corpus_file(files[f]), <<>>, order)

Sorted(files) == [i \in DOMAIN files |-> i]

Embedding(text) == text

(* The rows of a store with others over them: ON CONFLICT DO UPDATE in the *)
(* table, an assignment to _chunks and _vectors in memory.                 *)
Over(rows, store) ==
  [id \in (DOMAIN rows) \cup (DOMAIN store) |->
     IF id \in DOMAIN rows THEN rows[id] ELSE store[id]]

(* Mutant: a row that is there keeps its embedding when its text changes. *)
RowTextOnly(store, chunk) ==
  [text |-> chunk.text,
   vector |-> IF chunk.chunk_id \in DOMAIN store THEN store[chunk.chunk_id].vector
              ELSE Embedding(chunk.text)]

(* Mutant: a row that is there is kept as it is. *)
RowUnlessThere(store, chunk) ==
  IF chunk.chunk_id \in DOMAIN store THEN store[chunk.chunk_id]
  ELSE [text |-> chunk.text, vector |-> Embedding(chunk.text)]

(* The row that an upsert leaves for a chunk: its text and its vector.     *)
Row(store, chunk) == [text |-> chunk.text, vector |-> Embedding(chunk.text)]

-----------------------------------------------------------------------------
(* An ingest                                                               *)

Init ==
  /\ vector_backend \in {"faiss", "pgvector"}
  /\ corpus \in Corpora
  /\ disk = Empty
  /\ pc = [p \in Processes |-> "idle"]
  /\ chunks = [p \in Processes |-> <<>>]
  /\ mine = [p \in Processes |-> Empty]
  /\ ingests = 0
  /\ content = Empty
  /\ past = {Empty}

Goto(p, from, to) == pc[p] = from /\ pc' = [pc EXCEPT ![p] = to]

End(p) ==
  /\ pc' = [pc EXCEPT ![p] = "idle"]
  /\ chunks' = [chunks EXCEPT ![p] = <<>>]
  /\ mine' = [mine EXCEPT ![p] = Empty]

EditCorpus ==
  /\ corpus' \in Corpora \ {corpus}
  /\ UNCHANGED <<vector_backend, disk, own, ingests, content, past>>

Start(p) ==
  /\ ingests < MaxIngests
  /\ Goto(p, "idle", "open")
  /\ ingests' = ingests + 1
  /\ UNCHANGED <<vector_backend, corpus, disk, chunks, mine, content, past>>

(* FaissVectorStore.load: the file as a whole (a missing file is an empty  *)
(* store), or an error.                                                    *)
LoadFile(p) ==
  /\ vector_backend = "faiss"
  /\ IF disk = Torn THEN pc[p] = "open" /\ End(p)
     ELSE /\ Goto(p, "open", "corpus")
          /\ mine' = [mine EXCEPT ![p] = disk]
          /\ UNCHANGED chunks
  /\ UNCHANGED <<vector_backend, corpus, disk, ingests, content, past>>

(* PgVectorStore: the CREATE INDEX of ensure_rag_schema waits for those    *)
(* that have changed rows.                                                 *)
OpenTable(p) ==
  /\ vector_backend = "pgvector"
  /\ \A q \in Processes : mine[q] = Empty
  /\ Goto(p, "open", "corpus")
  /\ UNCHANGED <<vector_backend, corpus, disk, chunks, mine, ingests, content, past>>

(* Mutant: the files are taken in the order the directory gives them. *)
LoadCorpusUnsorted(p) ==
  /\ Goto(p, "corpus", "embed")
  /\ \E order \in SetToAllKPermutations(DOMAIN corpus) :
       /\ Len(order) = Len(corpus)
       /\ chunks' = [chunks EXCEPT ![p] = load_corpus(corpus, order)]
  /\ UNCHANGED <<vector_backend, corpus, disk, mine, ingests, content, past>>

LoadCorpus(p) ==
  /\ Goto(p, "corpus", "embed")
  /\ chunks' = [chunks EXCEPT ![p] = load_corpus(corpus, Sorted(corpus))]
  /\ UNCHANGED <<vector_backend, corpus, disk, mine, ingests, content, past>>

(* embed_documents; without chunks neither it nor upsert is called.        *)
Embed(p) ==
  /\ Goto(p, "embed", "upsert")
  /\ UNCHANGED <<vector_backend, corpus, disk, chunks, mine, ingests, content, past>>

(* A row that another transaction has changed is locked.                   *)
Locked(p, id) ==
  /\ vector_backend = "pgvector"
  /\ \E q \in Processes \ {p} : id \in DOMAIN mine[q]

(* Mutant: with pgvector every row is committed by itself. *)
UpsertCommitting(p) ==
  /\ pc[p] = "upsert" /\ chunks[p] # <<>>
  /\ LET chunk == Head(chunks[p])
         row == [id \in {chunk.chunk_id} |-> Row(Over(mine[p], disk), chunk)]
     IN  IF vector_backend = "pgvector"
         THEN disk' = Over(row, disk) /\ UNCHANGED mine
         ELSE mine' = [mine EXCEPT ![p] = Over(row, @)] /\ UNCHANGED disk
  /\ chunks' = [chunks EXCEPT ![p] = Tail(@)]
  /\ UNCHANGED <<vector_backend, corpus, pc, ingests, content, past>>

(* One row of upsert.  All of it happens in memory with FAISS, and in the  *)
(* transaction with pgvector.                                              *)
Upsert(p) ==
  /\ pc[p] = "upsert" /\ chunks[p] # <<>>
  /\ LET chunk == Head(chunks[p])
         store == IF vector_backend = "pgvector" THEN Over(mine[p], disk) ELSE mine[p]
         row == [id \in {chunk.chunk_id} |-> Row(store, chunk)]
     IN  /\ ~ Locked(p, chunk.chunk_id)
         /\ mine' = [mine EXCEPT ![p] = Over(row, @)]
  /\ chunks' = [chunks EXCEPT ![p] = Tail(@)]
  /\ UNCHANGED <<vector_backend, corpus, disk, pc, ingests, content, past>>

Saved(new) == content' = new /\ past' = past \cup {new}

Commit(p) ==
  /\ vector_backend = "pgvector"
  /\ pc[p] = "upsert" /\ chunks[p] = <<>>
  /\ disk' = Over(mine[p], disk)
  /\ Saved(disk')
  /\ End(p)
  /\ UNCHANGED <<vector_backend, corpus, ingests>>

Writing == {q \in Processes : pc[q] \in {"write", "clash"}}

(* save: write_text opens the file, which empties it, and then writes.     *)
(* Processes that have it open at the same time write over each other.     *)
Truncate(p) ==
  /\ vector_backend = "faiss"
  /\ pc[p] = "upsert" /\ chunks[p] = <<>>
  /\ disk' = Torn
  /\ pc' = [q \in Processes |-> IF q = p /\ Writing = {} THEN "write"
                               ELSE IF q \in Writing \cup {p} THEN "clash"
                               ELSE pc[q]]
  /\ UNCHANGED <<vector_backend, corpus, chunks, mine, ingests, content, past>>

Write(p) ==
  /\ p \in Writing
  /\ disk' = mine[p] \/ (pc[p] = "clash" /\ disk' = Torn)
  /\ IF disk' = Torn THEN UNCHANGED <<content, past>> ELSE Saved(disk')
  /\ End(p)
  /\ UNCHANGED <<vector_backend, corpus, ingests>>

(* The embedding model or a statement fails, or the process dies: the      *)
(* transaction is rolled back; a file stays as it is.                      *)
Fail(p) ==
  /\ pc[p] # "idle"
  /\ End(p)
  /\ UNCHANGED <<vector_backend, corpus, disk, ingests, content, past>>

Next ==
  \/ EditCorpus
  \/ \E p \in Processes :
       \/ Start(p)
       \/ LoadFile(p)
       \/ OpenTable(p)
       \/ LoadCorpus(p)
       \/ Embed(p)
       \/ Upsert(p)
       \/ Commit(p)
       \/ Truncate(p)
       \/ Write(p)
       \/ Fail(p)

Spec == Init /\ [][Next]_vars

(* p goes on as soon as it can; Postgres hands a lock to who waits for it. *)
Forward(p) ==
  LoadFile(p) \/ OpenTable(p) \/ LoadCorpus(p) \/ Embed(p) \/ Upsert(p)
    \/ Commit(p) \/ Truncate(p) \/ Write(p)

FairSpec == Spec /\ \A p \in Processes : SF_vars(Forward(p))

-----------------------------------------------------------------------------
(* Retrieval                                                               *)

Least(a, b) == IF a < b THEN a ELSE b

(* The ids of a search, of any of the nearest: the score of a chunk is 1   *)
(* if its vector is that of the query, and less otherwise.                 *)
search(store, query, k) ==
  LET Near(id) == store[id].vector = Embedding(query)
  IN  {ids \in SUBSET DOMAIN store :
         /\ Cardinality(ids) = Least(k, Cardinality(DOMAIN store))
         /\ \A far \in ids : \A id \in (DOMAIN store) \ ids : Near(id) => Near(far)}

(* The row of a label (.query, .relevant) in the evaluation: hits per      *)
(* retrieved and per relevant chunk.                                       *)
evaluate_retrieval(label, retrieved) ==
  LET hits == Cardinality(retrieved \cap label.relevant)
  IN  [precision |-> IF retrieved = {} THEN <<0, 1>> ELSE <<hits, Cardinality(retrieved)>>,
       recall |-> <<hits, Cardinality(label.relevant)>>]

-----------------------------------------------------------------------------
(* Properties                                                              *)

(* Whoever opens the store finds what whole ingests have left there, or an *)
(* error, and never a part of an ingest (faiss_store.py load,              *)
(* pgvector_store.py upsert).                                              *)
ReadersSeeWholeIngests == disk = Torn \/ disk \in past

(* The store implements ChunkIndex.  Of the corpus an ingest takes, for    *)
(* each id, the last of the well-formed records in the order of the sorted *)
(* files (corpus.py: "malformed record - skip"), and it commits them at    *)
(* once; with pgvector no ingest loses what another has written            *)
(* (schema.sql: "re-ingesting is always safe").                            *)
Records(files) ==
  {place \in UNION {{f} \X (DOMAIN files[f]) : f \in DOMAIN files} :
     WellFormed(files[place[1]][place[2]])}

Given(files) ==
  LET At(place) == files[place[1]][place[2]]
      Later(a, b) == a[1] > b[1] \/ (a[1] = b[1] /\ a[2] > b[2])
      last(id) == CHOOSE a \in Records(files) :
                    /\ At(a).chunk_id = id
                    /\ \A b \in Records(files) : At(b).chunk_id # id \/ a = b \/ Later(a, b)
  IN  [id \in {At(a).chunk_id : a \in Records(files)} |->
         [text |-> At(last(id)).text, vector |-> At(last(id)).text]]

AsChunkIndex == INSTANCE ChunkIndex WITH
  Ingested <- {Given(files) : files \in Corpora},
  serial <- vector_backend = "pgvector"

IngestsApplyWhole == AsChunkIndex!Spec

(* What the store holds is found by what it says: the retrieval evaluation *)
(* of labels made of the chunks' own texts is perfect, also after a        *)
(* re-ingest has changed a text (eval.py evaluate_retrieval).              *)
FoundByOwnText ==
  \A id \in DOMAIN content :
    LET label == [query |-> content[id].text,
                  relevant |-> {i \in DOMAIN content : content[i].text = content[id].text}]
        k == Cardinality(label.relevant)
    IN  \A retrieved \in search(content, label.query, k) :
          evaluate_retrieval(label, retrieved) = [precision |-> <<k, k>>, recall |-> <<k, k>>]

(* Every ingest comes to an end.  Two of them never wait for each other's  *)
(* rows, because they take them in the same order (ingest.py: sorted).     *)
IngestEnds == \A p \in Processes : pc[p] # "idle" ~> pc[p] = "idle"

(* When nobody is ingesting the store can be opened, so that one can       *)
(* ingest again (docs/aws-compliance-setup.md: "Re-ingesting is always     *)
(* safe and idempotent").                                                  *)
StoreOpens == (\A p \in Processes : pc[p] = "idle") => disk # Torn

=============================================================================
