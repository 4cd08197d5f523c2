------------------------------ MODULE MCRw11Term ------------------------------
(* The terminal interfaces on small instances.                              *)
EXTENDS Rw11Term

MCQlims == {1, Fsize}
MCMaxTx == [dl |-> 4, dz |-> 1]
MCMaxRx == [dl |-> 4, dz |-> 2]
=============================================================================
