--------------------------- MODULE MC_MjpegServer ---------------------------
(* Two clients and three frames: one frame to be scaled, one to wait and one  *)
(* to replace it.                                                             *)
EXTENDS MjpegServerProperties

CONSTANTS c1, c2
MC_Clients == {c1, c2}
=============================================================================
