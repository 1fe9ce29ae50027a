--------------------------- MODULE MCCorpusWriter ---------------------------
(***************************************************************************)
(* Two builders, so that five seeds wrap around the builders twice.        *)
(***************************************************************************)
EXTENDS CorpusWriter

Few == {-1, 0, 1, 2, 3, 5}

============================================================================
