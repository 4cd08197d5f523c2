---------------------------- MODULE MCRw11CntlTM11 ----------------------------
(* Tapes of a few records, tags of two bytes, six bytes of memory.           *)
EXTENDS Rw11CntlTM11

Req(f, n, a) == [fu |-> f, unit |-> TRUE, bc |-> (BcMod - n) % BcMod, ba |-> a]
Rec(x, n) == Tag("rec", n) \o [i \in 1 .. n |-> Byte(x + i)] \o Tag("rec", n)
Mark == Tag("rec", 0)

\* Reads of more and of less than a record; every write finds memory for two bytes.
MCReqs ==
  {Req(f, n, 0) : f \in {"sforw", "sback"}, n \in {1, 2}} \cup
  {Req(f, 1, 0) : f \in {"weof", "rewind", "unload"}} \cup
  {Req("read", BcMod, 0), Req("read", BcMod, 4), Req("read", 2, 0), Req("read", 1, 4), Req("write", 1, 0), Req("write", 4, 2),
   Req("weirg", 3, 0), Req("write", 4, 4), [Req("read", 4, 0) EXCEPT !.unit = FALSE]}

\* Well formed, in both dialects; with a parity error, a capacity and no end tag; with
\* two records of one length, write protected and cut off in the data; with a bad tag
\* at the end of a record.  What a write inside a record does is out of reach.
MCTapes ==
  {Open(Rec(10, 3) \o Rec(20, 2) \o Mark \o Rec(30, 1) \o Tag("eom", 0), FALSE, 0, FALSE),
   Open(Tag("rec", 3) \o [i \in 1 .. 4 |-> Byte(50 + i)] \o Tag("rec", 3) \o Rec(60, 2), TRUE, 0, FALSE),
   Open(Mark \o Tag("perr", 2) \o <<Byte(41), Byte(42)>> \o Tag("perr", 2) \o Mark \o Mark,
        FALSE, 4, FALSE),
   Open(Rec(70, 3) \o Rec(80, 3) \o Mark \o Tag("rec", 3) \o <<Byte(91)>>, FALSE, 0, TRUE),
   Open(Rec(90, 2) \o Tag("rec", 1) \o <<Byte(91)>> \o Tag("mbz", 0), FALSE, 0, FALSE)}
=============================================================================
