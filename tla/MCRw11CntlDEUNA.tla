--------------------------- MODULE MCRw11CntlDEUNA ---------------------------
(* The ethernet controller on small instances.                              *)
EXTENDS Rw11CntlDEUNA

MCCmds == {"getpcbb", "wrf", "wmal", "selftst", "start", "halt", "stop"}
=============================================================================
