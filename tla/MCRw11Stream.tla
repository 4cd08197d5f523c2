----------------------------- MODULE MCRw11Stream -----------------------------
(* The stream devices on small instances.                                   *)
EXTENDS Rw11Stream

MCQlims == {1, Fsize}
MCTapes == {0, 4}
=============================================================================
