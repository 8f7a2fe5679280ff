------------------------- MODULE VectorStoreProofs -------------------------
(***************************************************************************)
(* Proofs about VectorStore: what a process that opens the store, or       *)
(* searches it, can find there, and what an ingest leaves in it, for all   *)
(* corpora and any number of ingests that overlap as they like.            *)
(***************************************************************************)
EXTENDS VectorStore, FoldLemmas

-----------------------------------------------------------------------------
(* The invariant                                                           *)

(* Finitely many chunks, each with the vector of its text.                 *)
Whole(store) ==
  /\ IsFiniteSet(DOMAIN store)
  /\ \A id \in DOMAIN store : store[id].vector = store[id].text

(* What processes have in memory is whole, row by row.                     *)
MemoryWhole ==
  /\ pc = [q \in Processes |-> pc[q]]
  /\ mine = [q \in Processes |-> mine[q]]
  /\ \A q \in Processes : Whole(mine[q])

(* The file is torn or what an ingest has left; nothing tears the table.   *)
SavedWhole ==
  /\ disk = Torn \/ disk = content
  /\ vector_backend = "pgvector" => disk = content /\ Writing = {}
  /\ content \in past
  /\ Whole(content)

StoreInv == MemoryWhole /\ SavedWhole

-----------------------------------------------------------------------------
(* Stores                                                                  *)

LEMMA EmptyWhole == Whole(Empty)
<1>1. DOMAIN Empty = {}
  BY DEF Empty
<1> QED BY <1>1, FS_EmptySet DEF Whole

LEMMA OverWhole ==
  ASSUME NEW rows, Whole(rows), NEW store, Whole(store)
  PROVE  Whole(Over(rows, store))
<1>1. DOMAIN Over(rows, store) = (DOMAIN rows) \cup (DOMAIN store)
  BY DEF Over
<1>2. IsFiniteSet(DOMAIN Over(rows, store))
  BY <1>1, FS_Union DEF Whole
<1>3. ASSUME NEW id \in DOMAIN Over(rows, store)
      PROVE  Over(rows, store)[id] = IF id \in DOMAIN rows THEN rows[id] ELSE store[id]
  BY <1>1, <1>3 DEF Over
<1> QED BY <1>1, <1>2, <1>3 DEF Whole

LEMMA RowWhole ==
  ASSUME NEW id, NEW store, NEW chunk
  PROVE  Whole([i \in {id} |-> Row(store, chunk)])
<1>1. IsFiniteSet({id})
  BY FS_Singleton
<1> QED BY <1>1 DEF Whole, Row, Embedding

-----------------------------------------------------------------------------
(* The steps                                                               *)

LEMMA EndKeepsMemory ==
  ASSUME NEW p \in Processes, MemoryWhole, End(p)
  PROVE  MemoryWhole'
BY EmptyWhole DEF MemoryWhole, End

(* What a search depends on is as it was. *)
LEMMA SavedStays ==
  ASSUME SavedWhole, UNCHANGED <<vector_backend, disk, content, past>>,
         vector_backend = "pgvector" => Writing' = {}
  PROVE  SavedWhole'
BY DEF SavedWhole

(* Nobody who was not writing writes: p goes on, or ends, without having   *)
(* opened the file.                                                        *)
LEMMA NoNewWriter ==
  ASSUME NEW p \in Processes, Writing = {},
         pc = [q \in Processes |-> pc[q]],
         NEW to, pc' = [pc EXCEPT ![p] = to], to \notin {"write", "clash"}
  PROVE  Writing' = {}
BY DEF Writing

LEMMA StartKeeps ==
  ASSUME NEW p \in Processes, StoreInv, Start(p)
  PROVE  StoreInv'
<1>1. MemoryWhole'
  BY DEF StoreInv, MemoryWhole, Start, Goto
<1>2. vector_backend = "pgvector" => Writing' = {}
  <2>1. pc = [q \in Processes |-> pc[q]] /\ pc' = [pc EXCEPT ![p] = "open"]
    BY DEF StoreInv, MemoryWhole, Start, Goto
  <2>2. Writing = {} => Writing' = {}
    BY <2>1, NoNewWriter
  <2> QED BY <2>2 DEF StoreInv, SavedWhole
<1> QED BY <1>1, <1>2, SavedStays DEF StoreInv, Start

LEMMA LoadFileKeeps ==
  ASSUME NEW p \in Processes, StoreInv, LoadFile(p)
  PROVE  StoreInv'
<1>1. CASE disk = Torn
  BY <1>1, EndKeepsMemory, SavedStays DEF StoreInv, LoadFile
<1>2. CASE disk # Torn
  <2>1. Whole(disk)
    BY <1>2 DEF StoreInv, SavedWhole
  <2>2. MemoryWhole'
    BY <1>2, <2>1 DEF StoreInv, MemoryWhole, LoadFile, Goto
  <2> QED BY <2>2, SavedStays DEF StoreInv, LoadFile
<1> QED BY <1>1, <1>2

LEMMA GoesOn ==
  ASSUME NEW p \in Processes, StoreInv, OpenTable(p) \/ LoadCorpus(p) \/ Embed(p)
  PROVE  StoreInv'
<1>1. PICK to \in {"corpus", "embed", "upsert"} : pc' = [pc EXCEPT ![p] = to]
  BY DEF OpenTable, LoadCorpus, Embed, Goto
<1>2. UNCHANGED <<vector_backend, disk, mine, content, past>>
  BY DEF OpenTable, LoadCorpus, Embed
<1>3. MemoryWhole'
  BY <1>1, <1>2 DEF StoreInv, MemoryWhole
<1>4. vector_backend = "pgvector" => Writing' = {}
  BY <1>1, NoNewWriter DEF StoreInv, MemoryWhole, SavedWhole
<1> QED BY <1>2, <1>3, <1>4, SavedStays DEF StoreInv

LEMMA UpsertKeeps ==
  ASSUME NEW p \in Processes, StoreInv, Upsert(p)
  PROVE  StoreInv'
<1>1. PICK row : Whole(row) /\ mine' = [mine EXCEPT ![p] = Over(row, mine[p])]
  <2>1. PICK chunk : chunk = Head(chunks[p])
    OBVIOUS
  <2>2. PICK store : store = IF vector_backend = "pgvector" THEN Over(mine[p], disk)
                             ELSE mine[p]
    OBVIOUS
  <2>3. mine' = [mine EXCEPT ![p] = Over([id \in {chunk.chunk_id} |-> Row(store, chunk)],
                                         mine[p])]
    BY <2>1, <2>2 DEF Upsert
  <2> QED BY <2>3, RowWhole
<1>2. Whole(Over(row, mine[p]))
  BY <1>1, OverWhole DEF StoreInv, MemoryWhole
<1>3. UNCHANGED <<vector_backend, disk, pc, content, past>>
  BY DEF Upsert
<1>4. MemoryWhole'
  BY <1>1, <1>2, <1>3 DEF StoreInv, MemoryWhole
<1>5. vector_backend = "pgvector" => Writing' = {}
  BY <1>3 DEF StoreInv, SavedWhole, Writing
<1> QED BY <1>3, <1>4, <1>5, SavedStays DEF StoreInv

LEMMA CommitKeeps ==
  ASSUME NEW p \in Processes, StoreInv, Commit(p)
  PROVE  StoreInv'
<1>1. MemoryWhole'
  BY EndKeepsMemory DEF StoreInv, Commit
<1>2. Whole(disk) /\ Whole(mine[p])
  BY DEF StoreInv, MemoryWhole, SavedWhole, Commit
<1>3. PICK new : disk' = new /\ Whole(new)
  BY <1>2, OverWhole DEF Commit
<1>4. content' = new /\ past' = past \cup {new}
  BY <1>3 DEF Commit, Saved
<1>5. Writing' = {}
  <2>1. Writing = {} /\ pc = [q \in Processes |-> pc[q]]
    BY DEF StoreInv, MemoryWhole, SavedWhole, Commit
  <2>2. pc' = [pc EXCEPT ![p] = "idle"]
    BY DEF Commit, End
  <2> QED BY <2>1, <2>2, NoNewWriter
<1> QED BY <1>1, <1>3, <1>4, <1>5 DEF StoreInv, SavedWhole

LEMMA TruncateKeeps ==
  ASSUME NEW p \in Processes, StoreInv, Truncate(p)
  PROVE  StoreInv'
BY DEF StoreInv, MemoryWhole, SavedWhole, Truncate

LEMMA WriteKeeps ==
  ASSUME NEW p \in Processes, StoreInv, Write(p)
  PROVE  StoreInv'
<1>1. MemoryWhole'
  BY EndKeepsMemory DEF StoreInv, Write
<1>2. vector_backend # "pgvector" /\ vector_backend' = vector_backend
  BY DEF StoreInv, SavedWhole, Write
<1>3. CASE disk' = Torn
  BY <1>1, <1>2, <1>3 DEF StoreInv, SavedWhole, Write
<1>4. CASE disk' # Torn
  <2>1. PICK new : disk' = new /\ Whole(new)
    BY <1>4 DEF StoreInv, MemoryWhole, Write, Writing
  <2>2. content' = new /\ past' = past \cup {new}
    BY <1>4, <2>1 DEF Write, Saved
  <2> QED BY <1>1, <1>2, <2>1, <2>2 DEF StoreInv, SavedWhole
<1> QED BY <1>3, <1>4

LEMMA FailKeeps ==
  ASSUME NEW p \in Processes, StoreInv, Fail(p)
  PROVE  StoreInv'
<1>1. MemoryWhole'
  BY EndKeepsMemory DEF StoreInv, Fail
<1>2. vector_backend = "pgvector" => Writing' = {}
  <2>1. pc = [q \in Processes |-> pc[q]] /\ pc' = [pc EXCEPT ![p] = "idle"]
    BY DEF StoreInv, MemoryWhole, Fail, End
  <2>2. Writing = {} => Writing' = {}
    BY <2>1, NoNewWriter
  <2> QED BY <2>2 DEF StoreInv, SavedWhole
<1> QED BY <1>1, <1>2, SavedStays DEF StoreInv, Fail

LEMMA StoreInvInit == Init => StoreInv
<1> SUFFICES ASSUME Init PROVE StoreInv
  OBVIOUS
<1>1. Writing = {}
  BY DEF Init, Writing
<1> QED BY <1>1, EmptyWhole DEF Init, StoreInv, MemoryWhole, SavedWhole

LEMMA StoreInvNext == StoreInv /\ [Next]_vars => StoreInv'
<1> SUFFICES ASSUME StoreInv, [Next]_vars PROVE StoreInv'
  OBVIOUS
<1>1. CASE EditCorpus \/ UNCHANGED vars
  <2>1. UNCHANGED <<vector_backend, disk, own, content, past>>
    BY <1>1 DEF EditCorpus, vars
  <2> QED BY <2>1 DEF StoreInv, MemoryWhole, SavedWhole, Writing, own
<1>2. ASSUME NEW p \in Processes,
             \/ Start(p) \/ LoadFile(p) \/ OpenTable(p) \/ LoadCorpus(p) \/ Embed(p)
             \/ Upsert(p) \/ Commit(p) \/ Truncate(p) \/ Write(p) \/ Fail(p)
      PROVE  StoreInv'
  BY <1>2, StartKeeps, LoadFileKeeps, GoesOn, UpsertKeeps, CommitKeeps, TruncateKeeps,
     WriteKeeps, FailKeeps
<1> QED BY <1>1, <1>2 DEF Next

LEMMA StoreAlways == Spec => []StoreInv
BY StoreInvInit, StoreInvNext, PTL DEF Spec

-----------------------------------------------------------------------------
(* What follows                                                            *)

(* Whoever opens the store finds what whole ingests have left there, or an *)
(* error (faiss_store.py load, pgvector_store.py upsert).                  *)
THEOREM WholeIngestsSeen == Spec => []ReadersSeeWholeIngests
<1>1. StoreInv => ReadersSeeWholeIngests
  BY DEF StoreInv, SavedWhole, ReadersSeeWholeIngests
<1> QED BY <1>1, StoreAlways, PTL

(* The table is never torn: with pgvector it always holds what whole       *)
(* ingests have left, and can be opened (pgvector_store.py upsert).        *)
THEOREM TableNeverTorn == Spec => [](vector_backend = "pgvector" => disk \in past)
<1>1. StoreInv => (vector_backend = "pgvector" => disk \in past)
  BY DEF StoreInv, SavedWhole
<1> QED BY <1>1, StoreAlways, PTL

(* Of as many chunks as say what the query says, a search finds these.     *)
LEMMA SearchFindsAll ==
  ASSUME NEW store, Whole(store), NEW query,
         NEW relevant, relevant = {i \in DOMAIN store : store[i].text = query},
         NEW retrieved \in search(store, query, Cardinality(relevant))
  PROVE  retrieved = relevant
<1> DEFINE Near(id) == store[id].vector = query
<1>1. /\ IsFiniteSet(DOMAIN store)
      /\ relevant \subseteq DOMAIN store
      /\ \A i \in DOMAIN store : i \in relevant <=> Near(i)
  BY DEF Whole
<1>2. /\ Cardinality(relevant) \in Nat /\ Cardinality(DOMAIN store) \in Nat
      /\ Cardinality(relevant) <= Cardinality(DOMAIN store)
  BY <1>1, FS_Subset, FS_CardinalityType
<1>3. /\ retrieved \subseteq DOMAIN store
      /\ Cardinality(retrieved) = Cardinality(relevant)
  BY <1>2 DEF search, Least
<1>4. ASSUME NEW far \in retrieved, NEW id \in (DOMAIN store) \ retrieved, Near(id)
      PROVE  Near(far)
  BY <1>4 DEF search, Embedding
<1>5. CASE relevant \subseteq retrieved
  <2>1. IsFiniteSet(retrieved)
    BY <1>1, <1>3, FS_Subset
  <2> QED BY <1>3, <1>5, <2>1, FS_Subset
<1>6. CASE ~ (relevant \subseteq retrieved)
  <2>1. retrieved \subseteq relevant
    BY <1>1, <1>3, <1>4, <1>6
  <2>2. IsFiniteSet(relevant)
    BY <1>1, FS_Subset
  <2> QED BY <1>3, <2>1, <2>2, FS_Subset
<1> QED BY <1>5, <1>6

(* Whatever is in the store is found by what it says, perfectly, after any *)
(* number of ingests that overlap, fail or change texts (eval.py           *)
(* evaluate_retrieval, pgvector_store.py upsert: embedding =               *)
(* EXCLUDED.embedding).                                                    *)
THEOREM OwnTextFound == Spec => []FoundByOwnText
<1>1. StoreInv => FoundByOwnText
  <2> SUFFICES ASSUME StoreInv, NEW id \in DOMAIN content
               PROVE  LET label == [query |-> content[id].text,
                                    relevant |-> {i \in DOMAIN content :
                                                    content[i].text = content[id].text}]
                          k == Cardinality(label.relevant)
                      IN  \A retrieved \in search(content, label.query, k) :
                            evaluate_retrieval(label, retrieved)
                              = [precision |-> <<k, k>>, recall |-> <<k, k>>]
    BY DEF FoundByOwnText
  <2> DEFINE query == content[id].text
             relevant == {i \in DOMAIN content : content[i].text = query}
             label == [query |-> query, relevant |-> relevant]
             k == Cardinality(relevant)
  <2>1. label.query = query /\ label.relevant = relevant /\ id \in relevant
    OBVIOUS
  <2>2. ASSUME NEW retrieved \in search(content, query, k)
        PROVE  evaluate_retrieval(label, retrieved)
                 = [precision |-> <<k, k>>, recall |-> <<k, k>>]
    <3>1. retrieved = relevant
      BY SearchFindsAll DEF StoreInv, SavedWhole
    <3>2. retrieved \cap label.relevant = relevant /\ retrieved # {}
      BY <2>1, <3>1
    <3> HIDE DEF relevant, query, label
    <3> QED BY <2>1, <3>1, <3>2 DEF evaluate_retrieval, k
  <2> QED BY <2>1, <2>2
<1> QED BY <1>1, StoreAlways, PTL

-----------------------------------------------------------------------------
(* What a sequence of chunks leaves                                        *)

RowOf(chunk) == [text |-> chunk.text, vector |-> chunk.text]

(* i is the last place of s where a chunk with the id stands.              *)
LastIn(s, id, i) ==
  /\ i \in DOMAIN s /\ s[i].chunk_id = id
  /\ \A j \in DOMAIN s : s[j].chunk_id = id => j <= i

(* The rows that upserting s leaves: the last chunk of an id is its row.   *)
RowsOf(s) ==
  [id \in {s[i].chunk_id : i \in DOMAIN s} |-> RowOf(s[CHOOSE i \in DOMAIN s : LastIn(s, id, i)])]

(* The rows that an ingest under way began with: with pgvector those of    *)
(* its transaction alone.                                                  *)
Began == IF vector_backend = "pgvector" THEN {Empty} ELSE past

IsStore(store) == store = [id \in DOMAIN store |-> store[id]]

(* What p has to upsert still, over what it has upserted, is a corpus over *)
(* what it began with.                                                     *)
Ingesting(p) ==
  \E files \in Corpora, base \in Began :
    Over(RowsOf(chunks[p]), mine[p]) = Over(Given(files), base)

(* Where p is in its ingest.                                               *)
Progress(p) ==
  /\ chunks[p] \in Seq(AnyRecord)
  /\ IsStore(mine[p])
  /\ pc[p] = "corpus" => mine[p] \in Began
  /\ pc[p] \in {"embed", "upsert", "write", "clash"} => Ingesting(p)
  /\ pc[p] \in {"write", "clash"} => chunks[p] = <<>>

IngestInv ==
  /\ corpus \in Corpora
  /\ chunks = [q \in Processes |-> chunks[q]]
  /\ IsStore(content)
  /\ \A q \in Processes : Progress(q)

IsOver(o, rows, store) ==
  /\ DOMAIN o = (DOMAIN rows) \cup (DOMAIN store)
  /\ \A id \in (DOMAIN rows) \cup (DOMAIN store) :
       o[id] = IF id \in DOMAIN rows THEN rows[id] ELSE store[id]
  /\ IsStore(o)

(* What Over says, row by row.                                             *)
LEMMA OverIs == \A rows, store : IsOver(Over(rows, store), rows, store)
BY DEF Over, IsStore, IsOver

(* Stores with the same rows are the same.                                 *)
LEMMA SameStore ==
  ASSUME NEW r, IsStore(r), NEW s, IsStore(s), DOMAIN r = DOMAIN s,
         \A id \in DOMAIN r : r[id] = s[id]
  PROVE  r = s
BY DEF IsStore

(* Stores laid over each other: the order of doing so does not matter.     *)
LEMMA OverTwice ==
  ASSUME NEW a, NEW b, NEW c
  PROVE  Over(a, Over(b, c)) = Over(Over(a, b), c)
<1> PICK m, n : m = Over(b, c) /\ n = Over(a, b)
  OBVIOUS
<1> PICK l, r : l = Over(a, m) /\ r = Over(n, c)
  OBVIOUS
<1>2. IsOver(m, b, c) /\ IsOver(n, a, b) /\ IsOver(l, a, m) /\ IsOver(r, n, c)
  BY OverIs
<1>3. DOMAIN l = DOMAIN r /\ IsStore(l) /\ IsStore(r)
  BY <1>2 DEF IsOver
<1>4. \A id \in DOMAIN l : l[id] = r[id]
  BY <1>2 DEF IsOver
<1>5. l = r
  BY <1>3, <1>4, SameStore
<1> QED BY <1>5

(* Nothing over a store, or a store over nothing, is the store.            *)
LEMMA OverEmpty ==
  /\ DOMAIN Empty = {} /\ IsStore(Empty)
  /\ \A store : IsStore(store) => Over(Empty, store) = store /\ Over(store, Empty) = store
<1>1. DOMAIN Empty = {} /\ IsStore(Empty)
  BY DEF Empty, IsStore
<1>2. ASSUME NEW store, IsStore(store)
      PROVE  Over(Empty, store) = store /\ Over(store, Empty) = store
  <2> PICK l, r : l = Over(Empty, store) /\ r = Over(store, Empty)
    OBVIOUS
  <2>1. IsOver(l, Empty, store) /\ IsOver(r, store, Empty)
    BY OverIs
  <2>2. l = store
    BY <1>1, <1>2, <2>1, SameStore DEF IsOver
  <2>3. r = store
    BY <1>1, <1>2, <2>1, SameStore DEF IsOver
  <2> QED BY <2>2, <2>3
<1> QED BY <1>1, <1>2

(* What RowsOf says, without the choice.                                   *)
Leaves(s, rows) ==
  /\ IsStore(rows)
  /\ DOMAIN rows = {s[i].chunk_id : i \in DOMAIN s}
  /\ \A i \in DOMAIN s : LastIn(s, s[i].chunk_id, i) => rows[s[i].chunk_id] = RowOf(s[i])

(* A chunk that stands in a sequence has a last place in it.               *)
LEMMA LastExists ==
  ASSUME NEW R, NEW s \in Seq(R), NEW i \in DOMAIN s
  PROVE  \E l \in DOMAIN s : LastIn(s, s[i].chunk_id, l)
<1> PICK id : id = s[i].chunk_id
  OBVIOUS
<1> DEFINE Places == {j \in DOMAIN s : s[j].chunk_id = id}
<1>1. DOMAIN s = 1..Len(s) /\ Len(s) \in Nat
  OBVIOUS
<1>2. Places \subseteq 0..Len(s) /\ Places # {}
  BY <1>1
<1>3. \E l \in Places : \A j \in Places : j <= l
  <2> HIDE DEF Places
  <2> QED BY <1>1, <1>2, GreatestNat
<1> QED BY <1>3 DEF LastIn

(* RowsOf is what the sequence leaves, and nothing else is.                *)
LEMMA RowsLeft ==
  ASSUME NEW R, NEW s \in Seq(R)
  PROVE  /\ Leaves(s, RowsOf(s))
         /\ \A rows : Leaves(s, rows) => rows = RowsOf(s)
<1>1. /\ DOMAIN RowsOf(s) = {s[i].chunk_id : i \in DOMAIN s}
      /\ IsStore(RowsOf(s))
      /\ \A id \in DOMAIN RowsOf(s) :
           RowsOf(s)[id] = RowOf(s[CHOOSE i \in DOMAIN s : LastIn(s, id, i)])
  BY DEF RowsOf, IsStore
<1>2. \A i \in DOMAIN s : i \in Nat
  OBVIOUS
<1>3. ASSUME NEW id, NEW i, NEW j, LastIn(s, id, i), LastIn(s, id, j)
      PROVE  i = j
  BY <1>2, <1>3 DEF LastIn
<1>4. ASSUME NEW i \in DOMAIN s, LastIn(s, s[i].chunk_id, i)
      PROVE  RowsOf(s)[s[i].chunk_id] = RowOf(s[i])
  <2>1. (CHOOSE j \in DOMAIN s : LastIn(s, s[i].chunk_id, j)) = i
    BY <1>3, <1>4
  <2> QED BY <1>1, <2>1
<1>5. ASSUME NEW rows, Leaves(s, rows) PROVE rows = RowsOf(s)
  <2>1. DOMAIN rows = DOMAIN RowsOf(s) /\ IsStore(rows)
    BY <1>1, <1>5 DEF Leaves
  <2>2. ASSUME NEW id \in DOMAIN rows PROVE rows[id] = RowsOf(s)[id]
    <3>1. PICK i \in DOMAIN s : s[i].chunk_id = id
      BY <1>5 DEF Leaves
    <3>2. PICK l \in DOMAIN s : LastIn(s, id, l)
      BY <3>1, LastExists
    <3>3. s[l].chunk_id = id
      BY <3>2 DEF LastIn
    <3> QED BY <1>4, <1>5, <3>2, <3>3 DEF Leaves
  <2> QED BY <1>1, <2>1, <2>2, SameStore
<1> QED BY <1>1, <1>4, <1>5 DEF Leaves

(* A sequence after another: its rows over those of the other.             *)
LEMMA RowsOfConcat ==
  ASSUME NEW R, NEW s \in Seq(R), NEW u \in Seq(R)
  PROVE  RowsOf(s \o u) = Over(RowsOf(u), RowsOf(s))
<1> PICK w : w = s \o u
  OBVIOUS
<1> PICK rows : rows = Over(RowsOf(u), RowsOf(s))
  OBVIOUS
<1>1. /\ w \in Seq(R) /\ Len(w) = Len(s) + Len(u)
      /\ Len(s) \in Nat /\ Len(u) \in Nat
      /\ DOMAIN s = 1..Len(s) /\ DOMAIN u = 1..Len(u) /\ DOMAIN w = 1..(Len(s) + Len(u))
  OBVIOUS
<1>2. /\ \A i \in 1..Len(s) : w[i] = s[i]
      /\ \A i \in 1..Len(u) : w[Len(s) + i] = u[i]
  BY <1>1
<1>3. \A k \in 1..(Len(s) + Len(u)) : k \in 1..Len(s) \/ k - Len(s) \in 1..Len(u)
  BY <1>1
<1>4. Leaves(s, RowsOf(s)) /\ Leaves(u, RowsOf(u))
  BY RowsLeft
<1>5. /\ DOMAIN rows = DOMAIN RowsOf(u) \cup DOMAIN RowsOf(s)
      /\ IsStore(rows)
      /\ \A id \in DOMAIN rows :
           rows[id] = IF id \in DOMAIN RowsOf(u) THEN RowsOf(u)[id] ELSE RowsOf(s)[id]
  <2>1. IsOver(rows, RowsOf(u), RowsOf(s))
    BY OverIs
  <2> QED BY <2>1 DEF IsOver
<1>6. DOMAIN rows = {w[k].chunk_id : k \in DOMAIN w}
  <2>1. ASSUME NEW i \in DOMAIN s PROVE s[i].chunk_id \in {w[k].chunk_id : k \in DOMAIN w}
    <3>1. i \in DOMAIN w /\ w[i] = s[i]
      BY <1>1, <1>2
    <3> QED BY <3>1
  <2>2. ASSUME NEW i \in DOMAIN u PROVE u[i].chunk_id \in {w[k].chunk_id : k \in DOMAIN w}
    <3>1. Len(s) + i \in DOMAIN w /\ w[Len(s) + i] = u[i]
      BY <1>1, <1>2
    <3> QED BY <3>1
  <2>3. ASSUME NEW k \in DOMAIN w PROVE w[k].chunk_id \in DOMAIN rows
    <3>1. CASE k \in 1..Len(s)
      BY <1>1, <1>2, <1>4, <1>5, <3>1 DEF Leaves
    <3>2. CASE k - Len(s) \in 1..Len(u)
      <4>1. PICK i \in 1..Len(u) : k = Len(s) + i
        BY <1>1, <3>2
      <4> QED BY <1>1, <1>2, <1>4, <1>5, <4>1 DEF Leaves
    <3>3. k \in 1..(Len(s) + Len(u))
      BY <1>1
    <3> QED BY <1>3, <3>1, <3>2, <3>3
  <2>4. DOMAIN RowsOf(s) \subseteq {w[k].chunk_id : k \in DOMAIN w}
    <3>1. DOMAIN RowsOf(s) = {s[i].chunk_id : i \in DOMAIN s}
      BY <1>4 DEF Leaves
    <3> QED BY <2>1, <3>1
  <2>5. DOMAIN RowsOf(u) \subseteq {w[k].chunk_id : k \in DOMAIN w}
    <3>1. DOMAIN RowsOf(u) = {u[i].chunk_id : i \in DOMAIN u}
      BY <1>4 DEF Leaves
    <3> QED BY <2>2, <3>1
  <2> QED BY <1>5, <2>3, <2>4, <2>5
<1>7. ASSUME NEW k \in DOMAIN w, LastIn(w, w[k].chunk_id, k)
      PROVE  rows[w[k].chunk_id] = RowOf(w[k])
  <2> PICK id : id = w[k].chunk_id
    OBVIOUS
  <2>1. \A j \in DOMAIN w : w[j].chunk_id = id => j <= k
    BY <1>7 DEF LastIn
  <2>2. CASE k \in 1..Len(s)
    <3>1. w[k] = s[k] /\ s[k].chunk_id = id
      BY <1>2, <2>2
    <3>2. LastIn(s, id, k)
      BY <1>1, <1>2, <2>1, <2>2, <3>1 DEF LastIn
    <3>3. ASSUME NEW i \in DOMAIN u PROVE u[i].chunk_id # id
      <4>1. Len(s) + i \in DOMAIN w /\ w[Len(s) + i] = u[i] /\ ~ (Len(s) + i <= k)
        BY <1>1, <1>2, <2>2
      <4> QED BY <2>1, <4>1
    <3>4. id \notin DOMAIN RowsOf(u) /\ id \in DOMAIN rows /\ RowsOf(s)[id] = RowOf(s[k])
      BY <1>1, <1>4, <1>5, <2>2, <3>1, <3>2, <3>3 DEF Leaves
    <3> QED BY <1>5, <3>1, <3>4
  <2>3. CASE k - Len(s) \in 1..Len(u)
    <3>1. PICK i \in 1..Len(u) : k = Len(s) + i
      BY <1>1, <2>3
    <3>2. w[k] = u[i] /\ u[i].chunk_id = id
      BY <1>2, <3>1
    <3>3. ASSUME NEW j \in DOMAIN u, u[j].chunk_id = id PROVE j <= i
      <4>1. Len(s) + j \in DOMAIN w /\ w[Len(s) + j] = u[j]
        BY <1>1, <1>2
      <4>2. Len(s) + j <= Len(s) + i
        BY <2>1, <3>1, <3>3, <4>1
      <4> QED BY <1>1, <4>2
    <3>4. LastIn(u, id, i)
      BY <1>1, <3>2, <3>3 DEF LastIn
    <3>5. id \in DOMAIN RowsOf(u) /\ RowsOf(u)[id] = RowOf(u[i])
      BY <1>1, <1>4, <3>2, <3>4 DEF Leaves
    <3> QED BY <1>5, <3>2, <3>5
  <2> QED BY <1>1, <1>3, <2>2, <2>3
<1>8. Leaves(w, rows)
  BY <1>5, <1>6, <1>7 DEF Leaves
<1> QED BY <1>1, <1>8, RowsLeft

OneRow(chunk) == [id \in {chunk.chunk_id} |-> RowOf(chunk)]

(* No chunk leaves no row, and one its own.                                *)
LEMMA RowsOfFew ==
  /\ RowsOf(<<>>) = Empty
  /\ \A chunk : RowsOf(<<chunk>>) = OneRow(chunk) /\ IsStore(OneRow(chunk))
<1>1. RowsOf(<<>>) = Empty
  <2>1. Leaves(<<>>, Empty)
    BY OverEmpty DEF Leaves
  <2>2. <<>> \in Seq({})
    OBVIOUS
  <2> QED BY <2>1, <2>2, RowsLeft
<1>2. ASSUME NEW chunk PROVE RowsOf(<<chunk>>) = OneRow(chunk) /\ IsStore(OneRow(chunk))
  <2>0. <<chunk>> \in Seq({chunk})
    OBVIOUS
  <2> PICK s \in Seq({chunk}) : s = <<chunk>>
    BY <2>0
  <2>1. DOMAIN s = {1} /\ s[1] = chunk
    OBVIOUS
  <2>2. /\ DOMAIN OneRow(chunk) = {chunk.chunk_id} /\ IsStore(OneRow(chunk))
        /\ OneRow(chunk)[chunk.chunk_id] = RowOf(chunk)
    BY DEF OneRow, IsStore
  <2>3. Leaves(s, OneRow(chunk))
    BY <2>1, <2>2 DEF Leaves
  <2> QED BY <2>2, <2>3, RowsLeft
<1> QED BY <1>1, <1>2

(* One chunk more.                                                         *)
LEMMA RowsOfAppend ==
  ASSUME NEW R, NEW s \in Seq(R), NEW chunk \in R
  PROVE  RowsOf(Append(s, chunk)) = Over(OneRow(chunk), RowsOf(s))
<1>1. Append(s, chunk) = s \o <<chunk>> /\ <<chunk>> \in Seq(R)
  OBVIOUS
<1>2. RowsOf(s \o <<chunk>>) = Over(RowsOf(<<chunk>>), RowsOf(s))
  BY <1>1, RowsOfConcat
<1> QED BY <1>1, <1>2, RowsOfFew

(* The first chunk upserted: the rest goes over its row.                   *)
LEMMA RowsOfTail ==
  ASSUME NEW R, NEW s \in Seq(R), s # <<>>
  PROVE  /\ RowsOf(s) = Over(RowsOf(Tail(s)), OneRow(Head(s)))
         /\ Tail(s) \in Seq(R)
<1>0. Head(s) \in R /\ Tail(s) \in Seq(R)
  OBVIOUS
<1> PICK head \in R, tail \in Seq(R) : head = Head(s) /\ tail = Tail(s)
  BY <1>0
<1>1. s = <<head>> \o tail /\ <<head>> \in Seq(R)
  OBVIOUS
<1>2. RowsOf(<<head>> \o tail) = Over(RowsOf(tail), RowsOf(<<head>>))
  BY <1>1, RowsOfConcat
<1> QED BY <1>1, <1>2, RowsOfFew

-----------------------------------------------------------------------------
(* What loading a corpus gives                                             *)

(* The greatest of some places is one of them.                             *)
LEMMA GreatestOf ==
  ASSUME NEW n \in Nat, NEW s \in SUBSET (1..n), s # {}
  PROVE  Max(s) \in s
<1>1. s \subseteq 0..n
  BY SMT
<1>2. \E x \in s : \A y \in s : y <= x
  BY <1>1, GreatestNat
<1>3. \E x \in s : \A y \in s : x >= y
  BY <1>2
<1> QED BY <1>3 DEF Max

FoldsLeft(it, F, base, S) ==
  \A s \in SUBSET S : it[s] = IF s = {} THEN base ELSE F[<<it[s \ {Max(s)}], Max(s)>>]

(* A fold from the left: its values on the first places are those of a     *)
(* recursion on their number.                                              *)
LEMMA FoldFromLeft ==
  ASSUME NEW S, \E n \in Nat : S = 1..n,
         NEW V, NEW base \in V, NEW F \in [V \X S -> V]
  PROVE  \E it \in [SUBSET S -> V] : FoldsLeft(it, F, base, S)
<1> DEFINE c == [s \in SUBSET S |-> Max(s)]
<1>1. ASSUME NEW s \in SUBSET S, s # {} PROVE Max(s) \in s
  BY <1>1, GreatestOf
<1>2. Chooses(c, S)
  BY <1>1 DEF Chooses
<1>3. \A s \in SUBSET S : c[s] = Max(s)
  OBVIOUS
<1>4. IsFiniteSet(S)
  BY FS_Interval
<1> HIDE DEF c
<1>5. PICK it \in [SUBSET S -> V] : Folds(it, F, base, c, S)
  BY <1>2, <1>4, FoldExists
<1> QED BY <1>3, <1>5 DEF Folds, FoldsLeft

(* The first places without the last of them.                              *)
LEMMA FirstPlaces ==
  ASSUME NEW n \in Nat, NEW k \in 1..n
  PROVE  /\ 1..k \in SUBSET (1..n) /\ 1..k # {} /\ Max(1..k) = k
         /\ (1..k) \ {k} = 1..(k - 1)
<1>1. k \in 1..k /\ \A y \in 1..k : k >= y
  OBVIOUS
<1>2. \A x \in 1..k : (\A y \in 1..k : x >= y) => x = k
  BY <1>1
<1>3. Max(1..k) = k
  BY <1>1, <1>2 DEF Max
<1> QED BY <1>3

(* parse_corpus_file, record by record.                                    *)
Parses(g, records) ==
  /\ g[0] = <<>>
  /\ g[Len(records)] = parse_corpus_file(records)
  /\ \A k \in 1..Len(records) :
       g[k] = IF WellFormed(records[k]) THEN Append(g[k - 1], records[k]) ELSE g[k - 1]

(* Parsing a file goes record by record: a well-formed one is appended.    *)
LEMMA ParseGrows ==
  ASSUME NEW R, NEW records \in Seq(R)
  PROVE  \E g : Parses(g, records)
<1> DEFINE n == Len(records)
           F == [p \in Seq(R) \X (1..n) |->
                   IF WellFormed(records[p[2]]) THEN Append(p[1], records[p[2]]) ELSE p[1]]
           Right(it) == it = [s \in SUBSET (1..n) |->
             IF s = {} THEN <<>>
             ELSE IF WellFormed(records[Max(s)]) THEN Append(it[s \ {Max(s)}], records[Max(s)])
             ELSE it[s \ {Max(s)}]]
<1>1. n \in Nat /\ DOMAIN records = 1..n /\ \A i \in 1..n : records[i] \in R
  OBVIOUS
<1>2. <<>> \in Seq(R) /\ F \in [Seq(R) \X (1..n) -> Seq(R)]
  BY <1>1
<1>3. PICK it \in [SUBSET (1..n) -> Seq(R)] : FoldsLeft(it, F, <<>>, 1..n)
  <2> HIDE DEF F, n
  <2> PICK S, V, base : S = 1..n /\ V = Seq(R) /\ base = <<>>
    OBVIOUS
  <2>1. (\E k \in Nat : S = 1..k) /\ base \in V /\ F \in [V \X S -> V]
    BY <1>1, <1>2
  <2>2. \E it \in [SUBSET S -> V] : FoldsLeft(it, F, base, S)
    BY ONLY <2>1, FoldFromLeft
  <2> QED BY <2>2
<1>4. Right(it)
  <2>1. ASSUME NEW s \in SUBSET (1..n), s # {}
        PROVE  it[s] = IF WellFormed(records[Max(s)])
                       THEN Append(it[s \ {Max(s)}], records[Max(s)])
                       ELSE it[s \ {Max(s)}]
    <3>1. Max(s) \in 1..n
      BY <1>1, <2>1, GreatestOf
    <3>2. it[s \ {Max(s)}] \in Seq(R)
      OBVIOUS
    <3>3. it[s] = F[<<it[s \ {Max(s)}], Max(s)>>]
      BY <1>3, <2>1 DEF FoldsLeft
    <3> QED BY <3>1, <3>2, <3>3
  <2>2. it[{}] = <<>>
    BY <1>3 DEF FoldsLeft
  <2> QED BY <2>1, <2>2
<1>5. PICK t : Right(t) /\ parse_corpus_file(records) = t[1..n]
  <2> HIDE DEF Right
  <2> DEFINE t == CHOOSE t : Right(t)
  <2>1. parse_corpus_file(records) = t[DOMAIN records]
    BY <1>1 DEF parse_corpus_file, FoldLeft, MapThenFoldSet, Right
  <2> QED BY <1>1, <1>4, <2>1
<1> HIDE DEF F, n
<1>6. /\ t[{}] = <<>>
      /\ \A k \in 1..n :
           t[1..k] = IF WellFormed(records[k]) THEN Append(t[1..(k - 1)], records[k])
                     ELSE t[1..(k - 1)]
  <2>1. t[{}] = <<>>
    BY <1>5
  <2>2. ASSUME NEW k \in 1..n
        PROVE  t[1..k] = IF WellFormed(records[k]) THEN Append(t[1..(k - 1)], records[k])
                         ELSE t[1..(k - 1)]
    <3>1. /\ 1..k \in SUBSET (1..n) /\ 1..k # {} /\ Max(1..k) = k
          /\ (1..k) \ {k} = 1..(k - 1)
      BY <1>1, FirstPlaces
    <3>2. t[1..k] = IF WellFormed(records[Max(1..k)])
                    THEN Append(t[(1..k) \ {Max(1..k)}], records[Max(1..k)])
                    ELSE t[(1..k) \ {Max(1..k)}]
      BY <1>5, <3>1
    <3> QED BY <3>1, <3>2
  <2> QED BY <2>1, <2>2
<1> DEFINE g == [k \in 0..n |-> t[1..k]]
<1>7. g[0] = <<>>
  <2>1. 1..0 = {}
    BY SMT
  <2> QED BY <1>1, <1>6, <2>1
<1>8. \A k \in 1..n : g[k] = t[1..k] /\ g[k - 1] = t[1..(k - 1)]
  BY <1>1
<1>9. g[n] = parse_corpus_file(records)
  <2>1. n \in 0..n
    BY <1>1
  <2>2. g[n] = t[1..n]
    BY <2>1
  <2> QED BY <1>5, <2>2
<1> HIDE DEF g
<1>10. \A k \in 1..n : g[k] = IF WellFormed(records[k]) THEN Append(g[k - 1], records[k])
                               ELSE g[k - 1]
  BY <1>6, <1>8
<1> QED BY <1>7, <1>9, <1>10 DEF n, Parses

(* load_corpus, file by file.                                              *)
LEMMA LoadGrows ==
  ASSUME NEW R, NEW files \in Seq(Seq(R)),
         \A f \in DOMAIN files : parse_corpus_file(files[f]) \in Seq(R)
  PROVE  \E g : /\ g[0] = <<>>
                /\ g[Len(files)] = load_corpus(files, Sorted(files))
                /\ \A k \in 1..Len(files) : g[k] = g[k - 1] \o parse_corpus_file(files[k])
<1> DEFINE n == Len(files)
           order == Sorted(files)
           F == [p \in Seq(R) \X (1..n) |-> p[1] \o parse_corpus_file(files[p[2]])]
           Right(it) == it = [s \in SUBSET (1..n) |->
             IF s = {} THEN <<>>
             ELSE it[s \ {Max(s)}] \o parse_corpus_file(files[order[Max(s)]])]
<1>1. /\ n \in Nat /\ DOMAIN files = 1..n
      /\ DOMAIN order = 1..n /\ \A k \in 1..n : order[k] = k
  BY DEF Sorted
<1>2. <<>> \in Seq(R) /\ F \in [Seq(R) \X (1..n) -> Seq(R)]
  BY <1>1
<1>3. PICK it \in [SUBSET (1..n) -> Seq(R)] : FoldsLeft(it, F, <<>>, 1..n)
  <2> HIDE DEF F, n
  <2> PICK S, V, base : S = 1..n /\ V = Seq(R) /\ base = <<>>
    OBVIOUS
  <2>1. (\E k \in Nat : S = 1..k) /\ base \in V /\ F \in [V \X S -> V]
    BY <1>1, <1>2
  <2>2. \E it \in [SUBSET S -> V] : FoldsLeft(it, F, base, S)
    BY ONLY <2>1, FoldFromLeft
  <2> QED BY <2>2
<1>4. Right(it)
  <2>1. ASSUME NEW s \in SUBSET (1..n), s # {}
        PROVE  it[s] = it[s \ {Max(s)}] \o parse_corpus_file(files[order[Max(s)]])
    <3>1. Max(s) \in 1..n
      BY <1>1, <2>1, GreatestOf
    <3>2. it[s \ {Max(s)}] \in Seq(R)
      OBVIOUS
    <3>3. it[s] = F[<<it[s \ {Max(s)}], Max(s)>>]
      BY <1>3, <2>1 DEF FoldsLeft
    <3> QED BY <1>1, <3>1, <3>2, <3>3
  <2>2. it[{}] = <<>>
    BY <1>3 DEF FoldsLeft
  <2> QED BY <2>1, <2>2
<1>5. PICK t : Right(t) /\ load_corpus(files, order) = t[1..n]
  <2> HIDE DEF Right, order
  <2> DEFINE t == CHOOSE t : Right(t)
  <2>1. load_corpus(files, order) = t[DOMAIN order]
    BY <1>1 DEF load_corpus, FoldLeft, MapThenFoldSet, Right
  <2> QED BY <1>1, <1>4, <2>1
<1> HIDE DEF F, n
<1>6. /\ t[{}] = <<>>
      /\ \A k \in 1..n : t[1..k] = t[1..(k - 1)] \o parse_corpus_file(files[k])
  <2>1. t[{}] = <<>>
    BY <1>5
  <2>2. ASSUME NEW k \in 1..n
        PROVE  t[1..k] = t[1..(k - 1)] \o parse_corpus_file(files[k])
    <3>1. /\ 1..k \in SUBSET (1..n) /\ 1..k # {} /\ Max(1..k) = k
          /\ (1..k) \ {k} = 1..(k - 1)
      BY <1>1, FirstPlaces
    <3>2. t[1..k] = t[(1..k) \ {Max(1..k)}] \o parse_corpus_file(files[order[Max(1..k)]])
      BY <1>5, <3>1
    <3> QED BY <1>1, <3>1, <3>2
  <2> QED BY <2>1, <2>2
<1> DEFINE g == [k \in 0..n |-> t[1..k]]
<1>7. g[0] = <<>>
  <2>1. 1..0 = {}
    BY SMT
  <2> QED BY <1>1, <1>6, <2>1
<1>8. \A k \in 1..n : g[k] = t[1..k] /\ g[k - 1] = t[1..(k - 1)]
  BY <1>1
<1>9. g[n] = load_corpus(files, order)
  <2>1. n \in 0..n
    BY <1>1
  <2>2. g[n] = t[1..n]
    BY <2>1
  <2> QED BY <1>5, <2>2
<1> HIDE DEF g, order
<1>10. \A k \in 1..n : g[k] = g[k - 1] \o parse_corpus_file(files[k])
  BY <1>6, <1>8
<1> QED BY <1>7, <1>9, <1>10 DEF n, order

(* What the places of a corpus leave, when later places prevail.           *)
At(files, a) == files[a[1]][a[2]]

Later(a, b) == a[1] > b[1] \/ (a[1] = b[1] /\ a[2] > b[2])

Prevails(files, D, a) ==
  a \in D /\ \A b \in D : At(files, b).chunk_id # At(files, a).chunk_id \/ a = b \/ Later(a, b)

LeavesAt(files, D, rows) ==
  /\ IsStore(rows)
  /\ DOMAIN rows = {At(files, a).chunk_id : a \in D}
  /\ \A id \in DOMAIN rows : \E a \in D :
       /\ At(files, a).chunk_id = id /\ rows[id] = RowOf(At(files, a))
       /\ Prevails(files, D, a)

(* Nothing upserted leaves nothing.                                        *)
LEMMA LeavesAtNone ==
  ASSUME NEW files
  PROVE  LeavesAt(files, {}, Empty)
BY OverEmpty DEF LeavesAt

(* One record leaves its row.                                              *)
LEMMA LeavesAtOne ==
  ASSUME NEW files, NEW a
  PROVE  LeavesAt(files, {a}, OneRow(At(files, a)))
<1> PICK chunk, rows : chunk = At(files, a) /\ rows = OneRow(chunk)
  OBVIOUS
<1>1. /\ DOMAIN rows = {chunk.chunk_id} /\ IsStore(rows)
      /\ rows[chunk.chunk_id] = RowOf(chunk)
  BY DEF OneRow, IsStore
<1>2. Prevails(files, {a}, a)
  BY DEF Prevails
<1>3. {At(files, d).chunk_id : d \in {a}} = {chunk.chunk_id}
  OBVIOUS
<1> QED BY <1>1, <1>2, <1>3 DEF LeavesAt

(* Later records go over earlier ones.                                     *)
LEMMA LeavesAtUnion ==
  ASSUME NEW files, NEW C, NEW D, NEW r, NEW q,
         LeavesAt(files, C, r), LeavesAt(files, D, q),
         \A a \in D, b \in C : Later(a, b)
  PROVE  LeavesAt(files, C \cup D, Over(q, r))
<1> PICK rows : rows = Over(q, r)
  OBVIOUS
<1>1. IsOver(rows, q, r)
  BY OverIs
<1>2. /\ DOMAIN q = {At(files, a).chunk_id : a \in D}
      /\ DOMAIN r = {At(files, a).chunk_id : a \in C}
  BY DEF LeavesAt
<1>3. DOMAIN rows = {At(files, a).chunk_id : a \in C \cup D}
  BY <1>1, <1>2 DEF IsOver
<1>4. ASSUME NEW id \in DOMAIN rows
      PROVE  \E a \in C \cup D :
               /\ At(files, a).chunk_id = id /\ rows[id] = RowOf(At(files, a))
               /\ Prevails(files, C \cup D, a)
  <2>1. CASE id \in DOMAIN q
    <3>1. PICK a \in D : /\ At(files, a).chunk_id = id /\ q[id] = RowOf(At(files, a))
                         /\ Prevails(files, D, a)
      BY <2>1 DEF LeavesAt
    <3>2. Prevails(files, C \cup D, a)
      BY <3>1 DEF Prevails
    <3>3. rows[id] = q[id]
      BY <1>1, <2>1 DEF IsOver
    <3> QED BY <3>1, <3>2, <3>3
  <2>2. CASE id \notin DOMAIN q
    <3>1. id \in DOMAIN r /\ rows[id] = r[id]
      BY <1>1, <2>2 DEF IsOver
    <3>2. PICK a \in C : /\ At(files, a).chunk_id = id /\ r[id] = RowOf(At(files, a))
                         /\ Prevails(files, C, a)
      BY <3>1 DEF LeavesAt
    <3>3. \A b \in D : At(files, b).chunk_id # id
      BY <1>2, <2>2
    <3>4. Prevails(files, C \cup D, a)
      BY <3>2, <3>3 DEF Prevails
    <3> QED BY <3>1, <3>2, <3>4
  <2> QED BY <2>1, <2>2
<1>5. LeavesAt(files, C \cup D, rows)
  BY <1>1, <1>3, <1>4 DEF LeavesAt, IsOver
<1> QED BY <1>5

(* All places of a corpus leave what it gives.                             *)
LEMMA LeavesGiven ==
  ASSUME NEW R, NEW files \in Seq(Seq(R)), NEW rows, LeavesAt(files, Records(files), rows)
  PROVE  rows = Given(files)
<1> PICK D : D = Records(files)
  OBVIOUS
<1>1. \A a \in D : a[1] \in Nat /\ a[2] \in Nat /\ a = <<a[1], a[2]>>
  <2> SUFFICES ASSUME NEW a \in D PROVE a[1] \in Nat /\ a[2] \in Nat /\ a = <<a[1], a[2]>>
    OBVIOUS
  <2>1. PICK f \in DOMAIN files : a \in {f} \X (DOMAIN files[f])
    BY DEF Records
  <2>2. f \in Nat /\ files[f] \in Seq(R)
    OBVIOUS
  <2>3. DOMAIN files[f] \subseteq Nat
    BY <2>2
  <2> QED BY <2>1, <2>2, <2>3
<1>2. ASSUME NEW a, NEW b, Prevails(files, D, a), Prevails(files, D, b),
             At(files, a).chunk_id = At(files, b).chunk_id
      PROVE  a = b
  <2>1. a = b \/ (Later(a, b) /\ Later(b, a))
    BY <1>2 DEF Prevails
  <2>2. a[1] \in Nat /\ a[2] \in Nat /\ b[1] \in Nat /\ b[2] \in Nat
    BY <1>1, <1>2 DEF Prevails
  <2> QED BY <2>1, <2>2 DEF Later
<1> DEFINE last(id) == CHOOSE a \in D :
                    /\ At(files, a).chunk_id = id
                    /\ \A b \in D : At(files, b).chunk_id # id \/ a = b \/ Later(a, b)
           given == [id \in {At(files, a).chunk_id : a \in D} |->
                       [text |-> At(files, last(id)).text, vector |-> At(files, last(id)).text]]
<1>3. Given(files) = given
  BY DEF Given, At, Later
<1>4. ASSUME NEW id \in DOMAIN rows PROVE rows[id] = given[id]
  <2>1. PICK a \in D : /\ At(files, a).chunk_id = id /\ rows[id] = RowOf(At(files, a))
                       /\ Prevails(files, D, a)
    BY DEF LeavesAt
  <2>2. \A b \in D : (/\ At(files, b).chunk_id = id
                       /\ \A c \in D : At(files, c).chunk_id # id \/ b = c \/ Later(b, c))
                      <=> b = a
    BY <1>2, <2>1 DEF Prevails
  <2>3. last(id) = a
    BY <2>1, <2>2
  <2>4. given[id] = RowOf(At(files, last(id)))
    BY <2>1 DEF RowOf
  <2> QED BY <2>1, <2>3, <2>4
<1>5. IsStore(given) /\ DOMAIN given = DOMAIN rows /\ IsStore(rows)
  BY DEF IsStore, LeavesAt
<1> HIDE DEF given
<1> QED BY <1>3, <1>4, <1>5, SameStore

(* The places of the first n records of a file, and of the first n files.  *)
InFile(files, f, n) == {a \in Records(files) : a[1] = f /\ a[2] <= n}
UpTo(files, n) == {a \in Records(files) : a[1] <= n}

(* Of a file, the last well-formed record of each id.                      *)
LEMMA ParseLeaves ==
  ASSUME NEW R, NEW files \in Seq(Seq(R)), NEW f \in DOMAIN files,
         NEW parsed, parsed = parse_corpus_file(files[f])
  PROVE  /\ parsed \in Seq(R)
         /\ LeavesAt(files, InFile(files, f, Len(files[f])), RowsOf(parsed))
<1> PICK records : records = files[f]
  OBVIOUS
<1>1. /\ records \in Seq(R) /\ Len(records) \in Nat
      /\ DOMAIN records = 1..Len(records) /\ \A i \in 1..Len(records) : records[i] \in R
  OBVIOUS
<1>0. PICK g : Parses(g, records)
  BY <1>1, ParseGrows
<1> DEFINE Good(n) == g[n] \in Seq(R) /\ LeavesAt(files, InFile(files, f, n), RowsOf(g[n]))
           P == {n \in Nat : n <= Len(records) => Good(n)}
<1>2. \A i : <<f, i>> \in Records(files) <=> i \in 1..Len(records) /\ WellFormed(records[i])
  BY <1>1 DEF Records
<1>3. ASSUME NEW a \in Records(files), a[1] = f
      PROVE  a = <<f, a[2]>> /\ a[2] \in 1..Len(records)
  BY <1>1, <1>3 DEF Records
<1>4. 0 \in P
  <2>1. InFile(files, f, 0) = {}
    BY <1>1, <1>3 DEF InFile
  <2>2. RowsOf(g[0]) = Empty
    BY <1>0, RowsOfFew DEF Parses
  <2>3. LeavesAt(files, InFile(files, f, 0), RowsOf(g[0]))
    BY <2>1, <2>2, LeavesAtNone
  <2>4. g[0] \in Seq(R)
    BY <1>0 DEF Parses
  <2> QED BY <2>3, <2>4
<1>5. ASSUME NEW n \in Nat, n \in P PROVE n + 1 \in P
  <2> SUFFICES ASSUME n + 1 <= Len(records) PROVE Good(n + 1)
    OBVIOUS
  <2>1. /\ n + 1 \in 1..Len(records) /\ (n + 1) - 1 = n
        /\ g[n] \in Seq(R) /\ LeavesAt(files, InFile(files, f, n), RowsOf(g[n]))
    BY <1>1, <1>5
  <2> PICK k, a : k = n + 1 /\ a = <<f, k>>
    OBVIOUS
  <2>2. At(files, a) = records[k] /\ records[k] \in R
    BY <1>1, <2>1 DEF At
  <2>3. CASE WellFormed(records[k])
    <3>1. g[k] = Append(g[n], records[k])
      BY <1>0, <2>1, <2>3 DEF Parses
    <3>2. RowsOf(g[k]) = Over(OneRow(At(files, a)), RowsOf(g[n])) /\ g[k] \in Seq(R)
      BY <2>1, <2>2, <3>1, RowsOfAppend
    <3>3. InFile(files, f, k) = InFile(files, f, n) \cup {a}
      <4>1. a \in Records(files)
        BY <1>2, <2>1, <2>3
      <4>2. ASSUME NEW b \in Records(files), b[1] = f, b[2] <= k, ~ (b[2] <= n)
            PROVE  b = a
        <5>1. b = <<f, b[2]>> /\ b[2] \in Nat
          BY <1>1, <1>3, <4>2
        <5>2. b[2] = k
          BY <4>2, <5>1
        <5> QED BY <5>1, <5>2
      <4>3. \A b \in Records(files) : b[1] = f /\ b[2] <= n => b[2] <= k
        BY <1>1, <1>3
      <4>4. a[1] = f /\ a[2] = k
        OBVIOUS
      <4>5. InFile(files, f, k) \subseteq InFile(files, f, n) \cup {a}
        BY <4>2 DEF InFile
      <4>6. InFile(files, f, n) \subseteq InFile(files, f, k)
        BY <4>3 DEF InFile
      <4>7. a \in InFile(files, f, k)
        <5>1. k \in Nat /\ k <= k
          BY <1>5
        <5> QED BY <4>1, <4>4, <5>1 DEF InFile
      <4> QED BY <4>5, <4>6, <4>7
    <3>4. \A b \in InFile(files, f, n) : Later(a, b)
      <4>1. \A b \in InFile(files, f, n) : b[1] = f /\ b[2] \in Nat /\ b[2] <= n
        BY <1>1, <1>3 DEF InFile
      <4> QED BY <4>1 DEF Later
    <3>5. LeavesAt(files, {a}, OneRow(At(files, a)))
      BY LeavesAtOne
    <3>6. LeavesAt(files, InFile(files, f, n) \cup {a}, Over(OneRow(At(files, a)), RowsOf(g[n])))
      BY <2>1, <3>4, <3>5, LeavesAtUnion
    <3> QED BY <3>2, <3>3, <3>6
  <2>4. CASE ~ WellFormed(records[k])
    <3>1. g[k] = g[n]
      BY <1>0, <2>1, <2>4 DEF Parses
    <3>2. InFile(files, f, k) = InFile(files, f, n)
      <4>1. a \notin Records(files)
        BY <1>2, <2>4
      <4>2. ASSUME NEW b \in Records(files), b[1] = f PROVE b[2] <= k <=> b[2] <= n
        <5>1. b = <<f, b[2]>> /\ b[2] \in Nat
          BY <1>1, <1>3, <4>2
        <5>2. b[2] # k
          BY <4>1, <5>1
        <5> QED BY <5>1, <5>2
      <4> QED BY <4>2 DEF InFile
    <3> QED BY <2>1, <3>1, <3>2
  <2> QED BY <2>3, <2>4
<1>6. Nat \subseteq P
  <2> HIDE DEF P
  <2> QED BY <1>4, <1>5, NatByInduction
<1>7. Good(Len(records))
  BY <1>1, <1>6
<1>8. g[Len(records)] = parsed
  BY <1>0 DEF Parses
<1> HIDE DEF P
<1> QED BY <1>7, <1>8

(* An ingest of a corpus upserts what the corpus gives: for every id the   *)
(* last well-formed record of the sorted files.                            *)
LEMMA LoadLeaves ==
  ASSUME NEW R, NEW files \in Seq(Seq(R)),
         NEW loaded, loaded = load_corpus(files, Sorted(files))
  PROVE  loaded \in Seq(R) /\ RowsOf(loaded) = Given(files)
<1>1. /\ Len(files) \in Nat /\ DOMAIN files = 1..Len(files)
      /\ \A f \in DOMAIN files : parse_corpus_file(files[f]) \in Seq(R)
  BY ParseLeaves
<1> PICK g : /\ g[0] = <<>>
             /\ g[Len(files)] = loaded
             /\ \A k \in 1..Len(files) : g[k] = g[k - 1] \o parse_corpus_file(files[k])
  BY <1>1, LoadGrows
<1> DEFINE Good(n) == g[n] \in Seq(R) /\ LeavesAt(files, UpTo(files, n), RowsOf(g[n]))
           P == {n \in Nat : n <= Len(files) => Good(n)}
<1>2. \A a \in Records(files) : a[1] \in 1..Len(files) /\ a[2] \in 1..Len(files[a[1]])
  <2> SUFFICES ASSUME NEW a \in Records(files)
               PROVE  a[1] \in 1..Len(files) /\ a[2] \in 1..Len(files[a[1]])
    OBVIOUS
  <2>1. PICK f \in DOMAIN files : a \in {f} \X (DOMAIN files[f])
    BY DEF Records
  <2>2. files[f] \in Seq(R)
    OBVIOUS
  <2>3. DOMAIN files[f] = 1..Len(files[f])
    BY <2>2
  <2> QED BY <1>1, <2>1, <2>3
<1>3. \A f \in DOMAIN files : Len(files[f]) \in Nat
  OBVIOUS
<1>4. 0 \in P
  <2>1. UpTo(files, 0) = {}
    BY <1>1, <1>2 DEF UpTo
  <2>2. RowsOf(g[0]) = Empty
    BY RowsOfFew
  <2>3. LeavesAt(files, UpTo(files, 0), RowsOf(g[0]))
    BY <2>1, <2>2, LeavesAtNone
  <2>4. g[0] \in Seq(R)
    OBVIOUS
  <2> QED BY <2>3, <2>4
<1>5. ASSUME NEW n \in Nat, n \in P PROVE n + 1 \in P
  <2> SUFFICES ASSUME n + 1 <= Len(files) PROVE Good(n + 1)
    OBVIOUS
  <2>1. /\ n + 1 \in 1..Len(files) /\ (n + 1) - 1 = n
        /\ g[n] \in Seq(R) /\ LeavesAt(files, UpTo(files, n), RowsOf(g[n]))
    BY <1>1, <1>5
  <2> PICK k : k = n + 1
    OBVIOUS
  <2> PICK parsed : parsed = parse_corpus_file(files[k])
    OBVIOUS
  <2> PICK D : D = InFile(files, k, Len(files[k]))
    OBVIOUS
  <2>2. parsed \in Seq(R) /\ LeavesAt(files, D, RowsOf(parsed))
    BY <1>1, <2>1, ParseLeaves
  <2>3. g[k] = g[n] \o parsed
    BY <2>1
  <2>4. RowsOf(g[k]) = Over(RowsOf(parsed), RowsOf(g[n])) /\ g[k] \in Seq(R)
    BY <2>1, <2>2, <2>3, RowsOfConcat
  <2>5. UpTo(files, k) = UpTo(files, n) \cup D
    BY <1>1, <1>2 DEF UpTo, InFile
  <2>6. \A a \in D, b \in UpTo(files, n) : Later(a, b)
    BY <1>1, <1>2 DEF UpTo, InFile, Later
  <2>7. LeavesAt(files, UpTo(files, n) \cup D, Over(RowsOf(parsed), RowsOf(g[n])))
    BY <2>1, <2>2, <2>6, LeavesAtUnion
  <2> QED BY <2>4, <2>5, <2>7
<1>6. Nat \subseteq P
  <2> HIDE DEF P
  <2> QED BY <1>4, <1>5, NatByInduction
<1>7. loaded \in Seq(R) /\ LeavesAt(files, UpTo(files, Len(files)), RowsOf(loaded))
  BY <1>1, <1>6
<1>8. UpTo(files, Len(files)) = Records(files)
  BY <1>2 DEF UpTo
<1> QED BY <1>7, <1>8, LeavesGiven

-----------------------------------------------------------------------------
(* An ingest's progress                                                    *)

(* What the store comes to hold stays a base for those that began before.  *)
LEMMA OthersStay ==
  ASSUME NEW q, Progress(q),
         pc'[q] = pc[q], chunks'[q] = chunks[q], mine'[q] = mine[q],
         Began \subseteq Began'
  PROVE  Progress(q)'
BY DEF Progress, Ingesting

(* p is at another place, with other chunks to upsert and other rows.      *)
Moves(p, to, left, rows) ==
  /\ pc' = [pc EXCEPT ![p] = to]
  /\ chunks' = [chunks EXCEPT ![p] = left]
  /\ mine' = [mine EXCEPT ![p] = rows]

(* p alone has moved on.                                                   *)
LEMMA OneMoves ==
  ASSUME NEW p \in Processes, MemoryWhole, IngestInv,
         NEW to, NEW left, NEW rows, Moves(p, to, left, rows),
         Began \subseteq Began', corpus' \in Corpora, IsStore(content'),
         Progress(p)'
  PROVE  IngestInv'
<1>1. ASSUME NEW q \in Processes, q # p PROVE Progress(q)'
  <2>1. pc'[q] = pc[q] /\ chunks'[q] = chunks[q] /\ mine'[q] = mine[q]
    BY <1>1 DEF MemoryWhole, IngestInv, Moves
  <2> QED BY <2>1, OthersStay DEF IngestInv
<1>2. chunks' = [q \in Processes |-> chunks'[q]]
  BY DEF IngestInv, Moves
<1> QED BY <1>1, <1>2 DEF IngestInv

LEMMA MovedThere ==
  ASSUME NEW p \in Processes, MemoryWhole, IngestInv,
         NEW to, NEW left, NEW rows, Moves(p, to, left, rows)
  PROVE  pc'[p] = to /\ chunks'[p] = left /\ mine'[p] = rows
BY DEF MemoryWhole, IngestInv, Moves

LEMMA BeganStays ==
  ASSUME UNCHANGED vector_backend, past \subseteq past'
  PROVE  Began \subseteq Began'
BY DEF Began

(* An ingest that is over has nothing left to upsert.                      *)
LEMMA EndsIngest ==
  ASSUME NEW p \in Processes, MemoryWhole, IngestInv, End(p),
         UNCHANGED vector_backend, past \subseteq past', corpus' \in Corpora,
         IsStore(content')
  PROVE  IngestInv'
<1>1. Moves(p, "idle", <<>>, Empty)
  BY DEF End, Moves
<1>2. pc'[p] = "idle" /\ chunks'[p] = <<>> /\ mine'[p] = Empty
  BY <1>1, MovedThere
<1>3. Progress(p)'
  BY <1>2, OverEmpty DEF Progress
<1> QED BY <1>1, <1>3, BeganStays, OneMoves

LEMMA StartIngests ==
  ASSUME NEW p \in Processes, StoreInv, IngestInv, Start(p) \/ OpenTable(p) \/ Embed(p)
  PROVE  IngestInv'
<1>0. MemoryWhole
  BY DEF StoreInv
<1>1. UNCHANGED <<vector_backend, corpus, chunks, mine, content, past>>
  BY DEF Start, OpenTable, Embed
<1>2. PICK to \in {"open", "corpus", "upsert"} :
        /\ pc' = [pc EXCEPT ![p] = to]
        /\ to = "corpus" => mine[p] \in Began
        /\ to = "upsert" => pc[p] = "embed"
  BY DEF Start, OpenTable, Embed, Goto, Began
<1>3. Moves(p, to, chunks[p], mine[p])
  BY <1>0, <1>1, <1>2 DEF Moves, MemoryWhole, IngestInv
<1>4. pc'[p] = to
  BY <1>0, <1>3, MovedThere
<1>5. Progress(p)'
  <2>1. Progress(p)
    BY DEF IngestInv
  <2>2. Began' = Began /\ Ingesting(p)' = Ingesting(p)
    BY <1>1 DEF Began, Ingesting
  <2> QED BY <1>1, <1>2, <1>4, <2>1, <2>2 DEF Progress
<1>6. IsStore(content') /\ corpus' \in Corpora
  BY <1>1 DEF IngestInv
<1> QED BY <1>0, <1>1, <1>3, <1>5, <1>6, BeganStays, OneMoves

LEMMA LoadFileIngests ==
  ASSUME NEW p \in Processes, StoreInv, IngestInv, LoadFile(p)
  PROVE  IngestInv'
<1>0. MemoryWhole
  BY DEF StoreInv
<1>1. /\ UNCHANGED <<vector_backend, corpus, disk, content, past>>
      /\ vector_backend = "faiss"
      /\ IsStore(content') /\ corpus' \in Corpora
  BY DEF LoadFile, IngestInv
<1>2. CASE disk = Torn
  BY <1>0, <1>1, <1>2, EndsIngest DEF LoadFile
<1>3. CASE disk # Torn
  <2>1. disk = content /\ disk \in Began
    BY <1>1, <1>3 DEF StoreInv, SavedWhole, Began
  <2>2. Moves(p, "corpus", chunks[p], disk)
    BY <1>0, <1>3 DEF Moves, LoadFile, Goto, IngestInv
  <2>3. pc'[p] = "corpus" /\ chunks'[p] = chunks[p] /\ mine'[p] = disk
    BY <1>0, <2>2, MovedThere
  <2>4. Progress(p)'
    <3>1. Progress(p) /\ IsStore(disk)
      BY <2>1 DEF IngestInv
    <3>2. Began' = Began
      BY <1>1 DEF Began
    <3> QED BY <2>1, <2>3, <3>1, <3>2 DEF Progress
  <2> QED BY <1>0, <1>1, <2>2, <2>4, BeganStays, OneMoves
<1> QED BY <1>2, <1>3

(* What is loaded is the corpus; it goes over what the ingest began with.  *)
LEMMA LoadCorpusIngests ==
  ASSUME NEW p \in Processes, StoreInv, IngestInv, LoadCorpus(p)
  PROVE  IngestInv'
<1>0. MemoryWhole
  BY DEF StoreInv
<1>1. /\ UNCHANGED <<vector_backend, corpus, mine, content, past>>
      /\ IsStore(content') /\ corpus' \in Corpora
      /\ pc[p] = "corpus" /\ corpus \in Corpora
  BY DEF LoadCorpus, Goto, IngestInv
<1> PICK loaded : loaded = load_corpus(corpus, Sorted(corpus))
  OBVIOUS
<1>2. loaded \in Seq(AnyRecord) /\ RowsOf(loaded) = Given(corpus)
  BY <1>1, CorporaAssumption, LoadLeaves
<1>3. Moves(p, "embed", loaded, mine[p])
  BY <1>0 DEF Moves, LoadCorpus, Goto, MemoryWhole
<1>4. pc'[p] = "embed" /\ chunks'[p] = loaded /\ mine'[p] = mine[p]
  BY <1>0, <1>3, MovedThere
<1>5. IsStore(mine[p]) /\ mine[p] \in Began /\ Began' = Began
  BY <1>1 DEF IngestInv, Progress, Began
<1>6. Ingesting(p)'
  <2>1. Over(RowsOf(chunks'[p]), mine'[p]) = Over(Given(corpus), mine[p])
    BY <1>2, <1>4
  <2> QED BY <1>1, <1>5, <2>1 DEF Ingesting
<1>7. Progress(p)'
  BY <1>2, <1>4, <1>5, <1>6 DEF Progress
<1> QED BY <1>0, <1>1, <1>3, <1>7, BeganStays, OneMoves

(* A row upserted is one less to upsert: together they stay a corpus.      *)
LEMMA UpsertIngests ==
  ASSUME NEW p \in Processes, StoreInv, IngestInv, Upsert(p)
  PROVE  IngestInv'
<1>0. MemoryWhole
  BY DEF StoreInv
<1>1. /\ UNCHANGED <<vector_backend, corpus, disk, pc, content, past>>
      /\ IsStore(content') /\ corpus' \in Corpora
      /\ pc[p] = "upsert" /\ chunks[p] # <<>>
      /\ chunks' = [chunks EXCEPT ![p] = Tail(chunks[p])]
  BY DEF Upsert, IngestInv
<1>2. Progress(p)
  BY DEF IngestInv
<1> PICK head, tail, rows : head = Head(chunks[p]) /\ tail = Tail(chunks[p])
                            /\ rows = Over(OneRow(head), mine[p])
  OBVIOUS
<1>3. RowsOf(chunks[p]) = Over(RowsOf(tail), OneRow(head)) /\ tail \in Seq(AnyRecord)
  BY <1>1, <1>2, RowsOfTail DEF Progress
<1>4. mine' = [mine EXCEPT ![p] = rows]
  <2> PICK store : store = IF vector_backend = "pgvector" THEN Over(mine[p], disk)
                           ELSE mine[p]
    OBVIOUS
  <2>1. mine' = [mine EXCEPT ![p] = Over([id \in {head.chunk_id} |-> Row(store, head)],
                                         mine[p])]
    BY DEF Upsert
  <2>2. [id \in {head.chunk_id} |-> Row(store, head)] = OneRow(head)
    BY DEF Row, Embedding, OneRow, RowOf
  <2> QED BY <2>1, <2>2
<1>5. Moves(p, "upsert", tail, rows)
  BY <1>0, <1>1, <1>4 DEF Moves, MemoryWhole
<1>6. pc'[p] = "upsert" /\ chunks'[p] = tail /\ mine'[p] = rows
  BY <1>0, <1>5, MovedThere
<1>7. Over(RowsOf(tail), rows) = Over(RowsOf(chunks[p]), mine[p])
  BY <1>3, OverTwice
<1>8. Ingesting(p)'
  <2>1. Began' = Began /\ Ingesting(p)
    BY <1>1, <1>2 DEF Began, Progress
  <2> QED BY <1>6, <1>7, <2>1 DEF Ingesting
<1>9. IsStore(rows)
  <2>1. IsOver(rows, OneRow(head), mine[p])
    BY OverIs
  <2> QED BY <2>1 DEF IsOver
<1>10. Progress(p)'
  BY <1>3, <1>6, <1>8, <1>9 DEF Progress
<1> QED BY <1>0, <1>1, <1>5, <1>10, BeganStays, OneMoves

(* What p has upserted when nothing is left: a corpus over what it began   *)
(* with.                                                                   *)
LEMMA AllUpserted ==
  ASSUME NEW p, Progress(p), pc[p] \in {"upsert", "write", "clash"}, chunks[p] = <<>>
  PROVE  \E files \in Corpora, base \in Began : mine[p] = Over(Given(files), base)
<1>1. Ingesting(p) /\ IsStore(mine[p])
  BY DEF Progress
<1>2. Over(RowsOf(chunks[p]), mine[p]) = mine[p]
  BY <1>1, RowsOfFew, OverEmpty
<1> QED BY <1>1, <1>2 DEF Ingesting

(* A commit merges a corpus into the table as it is.                       *)
LEMMA CommitApplies ==
  ASSUME NEW p \in Processes, StoreInv, IngestInv, Commit(p)
  PROVE  /\ \E files \in Corpora : content' = Over(Given(files), content)
         /\ past' = past \cup {content'}
         /\ UNCHANGED <<vector_backend, corpus>> /\ vector_backend = "pgvector"
<1>1. Progress(p) /\ pc[p] = "upsert" /\ chunks[p] = <<>>
  BY DEF IngestInv, Commit
<1>2. PICK files \in Corpora : mine[p] = Over(Given(files), Empty)
  BY <1>1, AllUpserted DEF Commit, Began
<1>3. mine[p] = Given(files)
  <2>1. IsStore(Given(files))
    BY DEF IsStore, Given
  <2> QED BY <1>2, <2>1, OverEmpty
<1>4. disk = content
  BY DEF StoreInv, SavedWhole, Commit
<1> QED BY <1>3, <1>4 DEF Commit, Saved

LEMMA CommitIngests ==
  ASSUME NEW p \in Processes, StoreInv, IngestInv, Commit(p)
  PROVE  IngestInv'
<1>1. PICK files \in Corpora : content' = Over(Given(files), content)
  BY CommitApplies
<1> PICK new : new = Over(Given(files), content)
  OBVIOUS
<1>2. IsOver(new, Given(files), content)
  BY OverIs
<1>3. IsStore(content')
  BY <1>1, <1>2 DEF IsOver
<1>4. past \subseteq past' /\ UNCHANGED <<vector_backend, corpus>>
  BY CommitApplies
<1> QED BY <1>3, <1>4, EndsIngest DEF StoreInv, IngestInv, Commit

(* A write leaves the file torn, or merges a corpus into what there once   *)
(* was.                                                                    *)
LEMMA WriteApplies ==
  ASSUME NEW p \in Processes, StoreInv, IngestInv, Write(p)
  PROVE  /\ UNCHANGED <<vector_backend, corpus>> /\ vector_backend # "pgvector"
         /\ \/ UNCHANGED <<content, past>>
            \/ /\ content' = mine[p]
               /\ past' = past \cup {content'}
               /\ \E files \in Corpora, base \in past : content' = Over(Given(files), base)
<1>1. Progress(p) /\ pc[p] \in {"write", "clash"}
  BY DEF IngestInv, Write, Writing
<1>2. UNCHANGED <<vector_backend, corpus>> /\ vector_backend # "pgvector"
  BY DEF StoreInv, SavedWhole, Write
<1>3. CASE disk' = Torn
  BY <1>2, <1>3 DEF Write
<1>4. CASE disk' # Torn
  <2>1. content' = mine[p] /\ past' = past \cup {content'}
    BY <1>4 DEF Write, Saved
  <2>2. \E files \in Corpora, base \in past : mine[p] = Over(Given(files), base)
    BY <1>1, <1>2, AllUpserted DEF Progress, Began
  <2> QED BY <1>2, <2>1, <2>2
<1> QED BY <1>3, <1>4

LEMMA WriteIngests ==
  ASSUME NEW p \in Processes, StoreInv, IngestInv, Write(p)
  PROVE  IngestInv'
<1>1. IsStore(mine[p]) /\ IsStore(content) /\ corpus \in Corpora
  BY DEF IngestInv, Progress
<1>2. /\ UNCHANGED <<vector_backend, corpus>> /\ past \subseteq past'
      /\ content' = content \/ content' = mine[p]
  BY WriteApplies
<1>3. IsStore(content')
  BY <1>1, <1>2
<1> QED BY <1>1, <1>2, <1>3, EndsIngest DEF StoreInv, Write

LEMMA FailIngests ==
  ASSUME NEW p \in Processes, StoreInv, IngestInv, Fail(p)
  PROVE  IngestInv'
<1>1. UNCHANGED <<vector_backend, past>> /\ IsStore(content') /\ corpus' \in Corpora
  BY DEF Fail, IngestInv
<1> QED BY <1>1, EndsIngest DEF StoreInv, Fail

(* Who opens the file puts those that have it open into the clash, and     *)
(* they are all done with their chunks.                                    *)
LEMMA TruncateIngests ==
  ASSUME NEW p \in Processes, StoreInv, IngestInv, Truncate(p)
  PROVE  IngestInv'
<1>1. /\ UNCHANGED <<vector_backend, corpus, chunks, mine, content, past>>
      /\ pc[p] = "upsert" /\ chunks[p] = <<>>
  BY DEF Truncate
<1>2. ASSUME NEW q \in Processes PROVE Progress(q)'
  <2>1. \/ pc'[q] = pc[q]
        \/ /\ pc'[q] \in {"write", "clash"}
           /\ pc[q] \in {"upsert", "write", "clash"} /\ chunks[q] = <<>>
    BY <1>1 DEF Truncate, Writing, IngestInv, Progress
  <2>2. Progress(q) /\ Began' = Began /\ Ingesting(q)' = Ingesting(q)
    BY <1>1 DEF IngestInv, Began, Ingesting
  <2> QED BY <1>1, <2>1, <2>2 DEF Progress
<1> QED BY <1>1, <1>2 DEF IngestInv

LEMMA IngestInit == Init => IngestInv
<1> SUFFICES ASSUME Init PROVE IngestInv
  OBVIOUS
<1>1. ASSUME NEW q \in Processes PROVE Progress(q)
  <2>1. pc[q] = "idle" /\ chunks[q] = <<>> /\ mine[q] = Empty
    BY DEF Init
  <2> QED BY <2>1, OverEmpty DEF Progress
<1>2. chunks = [q \in Processes |-> chunks[q]]
  BY DEF Init
<1>3. corpus \in Corpora /\ IsStore(content)
  BY OverEmpty DEF Init
<1> QED BY <1>1, <1>2, <1>3 DEF IngestInv

LEMMA IngestNext == StoreInv /\ IngestInv /\ [Next]_vars => IngestInv'
<1> SUFFICES ASSUME StoreInv, IngestInv, [Next]_vars PROVE IngestInv'
  OBVIOUS
<1>1. CASE EditCorpus \/ UNCHANGED vars
  <2>1. /\ UNCHANGED <<vector_backend, own, content, past>>
        /\ corpus' \in Corpora
    BY <1>1 DEF EditCorpus, vars, IngestInv
  <2>2. \A q \in Processes : Progress(q)'
    <3> SUFFICES ASSUME NEW q \in Processes PROVE Progress(q)'
      OBVIOUS
    <3>1. Progress(q) /\ Began \subseteq Began'
      BY <2>1 DEF IngestInv, Began
    <3> QED BY <2>1, <3>1, OthersStay DEF own
  <2> QED BY <2>1, <2>2 DEF IngestInv, own
<1>2. ASSUME NEW p \in Processes,
             \/ Start(p) \/ LoadFile(p) \/ OpenTable(p) \/ LoadCorpus(p) \/ Embed(p)
             \/ Upsert(p) \/ Commit(p) \/ Truncate(p) \/ Write(p) \/ Fail(p)
      PROVE  IngestInv'
  BY <1>2, StartIngests, LoadFileIngests, LoadCorpusIngests, UpsertIngests, CommitIngests,
     TruncateIngests, WriteIngests, FailIngests
<1> QED BY <1>1, <1>2 DEF Next

LEMMA IngestAlways == Spec => [](StoreInv /\ IngestInv)
BY StoreInvInit, StoreInvNext, IngestInit, IngestNext, PTL DEF Spec

-----------------------------------------------------------------------------
(* The store implements ChunkIndex                                         *)

(* An ingest takes effect as a whole or not at all, of each id the last    *)
(* well-formed record of the sorted files, over the store as it is or, as  *)
(* a file, as it was when the ingest loaded it (ingest.py, corpus.py       *)
(* load_corpus, faiss_store.py upsert and save, pgvector_store.py upsert). *)
THEOREM IngestsAreWhole == Spec => IngestsApplyWhole
<1>1. Init => AsChunkIndex!Init
  BY DEF Init, Empty, AsChunkIndex!Init
<1>2. StoreInv /\ IngestInv /\ [Next]_vars => [AsChunkIndex!Next]_(AsChunkIndex!vars)
  <2> SUFFICES ASSUME StoreInv, IngestInv, [Next]_vars
               PROVE  [AsChunkIndex!Next]_(AsChunkIndex!vars)
    OBVIOUS
  <2>1. CASE UNCHANGED vars \/ EditCorpus
    BY <2>1 DEF vars, EditCorpus, AsChunkIndex!vars
  <2>2. ASSUME NEW p \in Processes,
               \/ Start(p) \/ LoadFile(p) \/ OpenTable(p) \/ LoadCorpus(p) \/ Embed(p)
               \/ Upsert(p) \/ Truncate(p) \/ Fail(p)
        PROVE  UNCHANGED AsChunkIndex!vars
    BY <2>2 DEF Start, LoadFile, OpenTable, LoadCorpus, Embed, Upsert, Truncate, Fail,
                AsChunkIndex!vars
  <2>3. \A rows, base : AsChunkIndex!Over(rows, base) = Over(rows, base)
    BY DEF AsChunkIndex!Over, Over
  <2>4. ASSUME NEW p \in Processes, Commit(p) PROVE AsChunkIndex!Next
    BY <2>3, <2>4, CommitApplies DEF AsChunkIndex!Next, AsChunkIndex!Bases
  <2>5. ASSUME NEW p \in Processes, Write(p)
        PROVE  AsChunkIndex!Next \/ UNCHANGED AsChunkIndex!vars
    BY <2>3, <2>5, WriteApplies DEF AsChunkIndex!Next, AsChunkIndex!Bases, AsChunkIndex!vars
  <2> QED BY <2>1, <2>2, <2>4, <2>5 DEF Next
<1> QED BY <1>1, <1>2, IngestAlways, PTL DEF Spec, IngestsApplyWhole, AsChunkIndex!Spec

=============================================================================
