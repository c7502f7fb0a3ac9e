--------------------------- MODULE MCPhasedLoop ---------------------------
(* A small run for TLC: a gated phase of two iterations with a pause, then a *)
(* phase without gates and one iteration, the default limit.                 *)
EXTENDS PhasedLoop

MCMaxIterations == <<2, 1>>
=============================================================================
