--------------------------- MODULE MC_ProjectFile ---------------------------
EXTENDS ProjectFileProperties

CONSTANTS s1, s2, s3

MC_Sessions == {s1, s2, s3}
MC_Updating == {s1, s2}
=============================================================================
