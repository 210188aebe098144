--------------------------- MODULE MCReporterForm ---------------------------
(* Two items, the second of them needed; a search that finds only this one. *)
EXTENDS ReporterForm

CONSTANTS a, b, w

MCCatalogue == <<a, b>>
MCNeeded == {b}
MCHits == [x \in {w} |-> {b}]
=============================================================================
