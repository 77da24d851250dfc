--------------------------- MODULE MCGenerationRing ---------------------------
(* A small instance of GenerationRing for TLC.                             *)
EXTENDS GenerationRing

CONSTANTS h1, h2, c1, c2, n1, n2

MCHandles == {h1, h2}
MCCallers == {c1, c2}
MCNodes == {n1, n2}

=============================================================================
