----------------------------- MODULE ChunkIndex -----------------------------
(***************************************************************************)
(* What the vector store promises: an ingest of a corpus takes effect as a *)
(* whole or not at all.  It overwrites the chunks that the corpus names    *)
(* and keeps the others, of the store as it is, or, where ingests can      *)
(* overlap, as it was when the ingest began.                               *)
(***************************************************************************)
CONSTANT
  Ingested   (* what corpora can give: functions from chunk ids to chunks  *)

VARIABLES
  content,   (* the chunks, by id                                          *)
  past,      (* the contents there have been                               *)
  serial     (* ingests of this store do not lose each other's chunks      *)

vars == <<content, past, serial>>

Init == content = <<>> /\ past = {content} /\ serial \in BOOLEAN

Over(chunks, base) ==
  [id \in (DOMAIN chunks) \cup (DOMAIN base) |->
     IF id \in DOMAIN chunks THEN chunks[id] ELSE base[id]]

Bases == IF serial THEN {content} ELSE past

Next ==
  /\ \E chunks \in Ingested, base \in Bases : content' = Over(chunks, base)
  /\ past' = past \cup {content'}
  /\ UNCHANGED serial

Spec == Init /\ [][Next]_vars

=============================================================================
