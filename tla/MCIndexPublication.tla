------------------------- MODULE MCIndexPublication -------------------------
(* Small instances of IndexPublication. *)
EXTENDS IndexPublication
=============================================================================
