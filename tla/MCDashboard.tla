----------------------------- MODULE MCDashboard -----------------------------
(* Two sections, the rail with both figures. *)
EXTENDS Dashboard

MCFigures == {"items", "towns"}
MCSectionOf == [f \in MCFigures |-> "rail"]
MCTarget == [f \in MCFigures |-> IF f = "items" THEN 15 ELSE 1]
=============================================================================
