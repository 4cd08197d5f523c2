---------------------------- MODULE MCRlinkServer ----------------------------
(* Instances of RlinkServer for TLC.                                        *)
EXTENDS RlinkServer, TLC

CONSTANTS a, b, d1, d2, m, x, y

OneToOne == (d1 :> {a}) @@ (d2 :> {b})
Shared   == (d1 :> {a}) @@ (d2 :> {a})
Both     == <<d1, d2>>
JustD1   == <<d1>>
=============================================================================
