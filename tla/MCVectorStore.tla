--------------------------- MODULE MCVectorStore ---------------------------
(***************************************************************************)
(* Instance of VectorStore: two files whose texts change, with a chunk     *)
(* that stands in both, a record without text and one without an id, and a *)
(* directory without any chunk.                                            *)
(***************************************************************************)
EXTENDS VectorStore

Record(id, text) == [chunk_id |-> id, text |-> text]

SomeCorpora ==
  {<< <<Record("a", "x")>>, <<Record("b", "y"), Record("a", "z")>> >>,
   << <<Record("a", "y"), Record(None, "z")>>, <<Record("b", "x")>> >>,
   << <<Record("b", None)>>, <<>> >>}

============================================================================
