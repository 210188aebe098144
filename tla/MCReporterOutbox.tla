-------------------------- MODULE MCReporterOutbox --------------------------
(* Small instances of ReporterOutbox. *)
EXTENDS ReporterOutbox, TLC

\* Tabs and requests of one kind are alike, and so are reports.
OutboxSymmetry ==
  Permutations(Tabs) \union Permutations(Requests) \union Permutations(Reports)
=============================================================================
