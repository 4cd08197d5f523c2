---------------------------- MODULE MCRlinkConnect ----------------------------
(* Instances of RlinkConnect for TLC.                                       *)
EXTENDS RlinkConnect

AllCodes == {<<"rreg">>, <<"attn">>, <<"labo", "rblk">>}
=============================================================================
