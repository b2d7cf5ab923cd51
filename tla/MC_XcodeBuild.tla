--------------------------- MODULE MC_XcodeBuild ---------------------------
(* Two launches with three attempts each, so that the loop of the first can   *)
(* outlive it into the second.                                                *)
EXTENDS XcodeBuildProperties
=============================================================================
