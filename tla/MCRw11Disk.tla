------------------------------ MODULE MCRw11Disk ------------------------------
(* Small disks: two units of two cylinders with one head and two sectors.    *)
EXTENDS Rw11Disk

Req(k, f, u, cy, se, a, n, fl) ==
  [kind |-> k, fu |-> f, unit |-> u, cy |-> cy, hd |-> 0, se |-> se, addr |-> a,
   wc |-> n, flag |-> fl]

\* Transfers that fit, that end in a partial block, run over the end of the
\* track or disk, and over the end of memory.
Transfers ==
  {Req(k, f, "u0", s[1], s[1], s[2], s[3], "") :
     k \in Kinds, f \in {"write", "read", "wchk"},
     s \in {<<0, 0, 1>>, <<0, 0, 4>>, <<1, 0, 4>>, <<0, 3, 4>>, <<1, 3, 5>>}}
Others ==
  {Req("rk11", "wchk", "u0", 0, 0, 0, 4, "sse"), Req("rk11", "rchk", "u0", 1, 0, 0, 5, ""),
   Req("rk11", "write", "u1", 2, 2, 0, 1, "iba"), Req("rk11", "read", "u0", 0, 0, 0, 1, "rwa"),
   Req("rk11", "seek", "u0", 1, 2, 0, 1, ""), Req("rk11", "seek", "u0", 1, 1, 0, 1, "fmt"),
   Req("rk11", "wlock", "u0", 0, 0, 0, 1, ""), Req("rk11", "dreset", "u1", 0, 0, 0, 1, ""),
   Req("rl11", "rhdr", "u0", 0, 0, 0, 1, ""), Req("rl11", "rnhc", "u1", 1, 0, 0, 3, ""),
   Req("rl11", "write", "u1", 0, 0, 1, 2, ""), Req("rl11", "read", "u0", 0, 2, 0, 1, ""),
   Req("rhrp", "whd", "u0", 0, 0, 0, 1, ""), Req("rhrp", "whd", "u1", 0, 0, 0, 1, ""),
   Req("rhrp", "write", "u1", 0, 0, 0, 2, ""),
   Req("rhrp", "read", "u0", 2, 0, 0, 1, "")}
AllReqs == Transfers \cup Others
=============================================================================
