---------------------------- MODULE MCReventLoop ----------------------------
(* Instances of ReventLoop for TLC.                                         *)
EXTENDS ReventLoop

CONSTANTS f, g, h1, h2, h3, c1, c2
=============================================================================
