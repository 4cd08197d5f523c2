--------------------------- MODULE Rw11Disk_proofs ---------------------------
(***************************************************************************)
(* Theorems about the disk controllers, for every geometry, block and      *)
(* chunk size, memory and sequence of requests.  As long as nothing        *)
(* disturbs a request (clean), the host works on the request the CPU gave   *)
(* (Current), after every chunk the first words are moved and no others    *)
(* (Progress), and the file lags behind what was reported by at most the   *)
(* write whose last list is done (Files).                                  *)
(***************************************************************************)
EXTENDS Rw11Disk, FiniteSetTheorems, WellFoundedInduction, TLAPS

Regs == [kind : Kinds \cup {"none"}, fu : Funcs \cup {"none"}, unit : Unit, cy : Int,
         hd : Int, se : Int, addr : Int, wc : Int, flag : Flags]
Rds == [fu : Funcs, unit : Unit, cy : Nat, hd : Nat, se : Nat, addr : Nat, wc : Int,
        flag : Flags, ovr : BOOLEAN, full : Nat \ {0}, id : Nat]
Rdmas == [status : {"done", "busy"}, done : Nat, next : Nat, ndone : Nat, labo : BOOLEAN]

\* f is a function on S.
On(f, S) == f = [x \in S |-> f[x]]

Types ==
  /\ kind \in Kinds /\ rdy \in BOOLEAN /\ lam \in BOOLEAN /\ clean \in BOOLEAN
  /\ reg \in Regs /\ cur.req \in Regs /\ cur.id \in Nat /\ cur.ok \in BOOLEAN
  /\ att \in [Unit -> BOOLEAN] /\ wprot \in [Unit -> BOOLEAN]
  /\ On(mem, Address) /\ On(cur.mem, Address) /\ On(disk, Unit) /\ On(gdisk, Unit)
  /\ \A u \in Unit : On(disk[u], Word) /\ On(gdisk[u], Word)
  /\ pc \in {"idle", "read", "attn", "post", "dead"}
  /\ rdma \in Rdmas /\ {ngo, nreset, nclient} \subseteq Nat

\* The block of a request exists; an RL11 looks at the sector only.
InRange(r) == r.se < NSect /\ (kind # "rl11" => r.cy < NCyl /\ r.hd < NHead)

\* A device that is not ready has a request the CPU gave it; the RHRP has seen
\* that its address exists.  Its errors are those the GO left.
Given ==
  ~rdy => /\ reg = cur.req /\ cur.req \in Reqs /\ cur.req.kind = kind /\ err = cur.err
          /\ (kind = "rhrp" => InRange(cur.req))

\* The request the host works on.
Sane == /\ fRd \in Rds /\ (InRange(fRd) => fRd.wc \in 1 .. fRd.full)
        /\ (kind = "rk11" => fRd.hd < NHead) /\ (kind = "rhrp" => InRange(fRd))
Busy == rdma.status = "busy"
Handler ==
  /\ pc = "attn" => ~Busy /\ Sane
  /\ Busy => /\ Sane /\ InRange(fRd) /\ fRd.fu \in Transfer /\ rdma.done < fRd.wc
             /\ pc # "attn" /\ (rdma.done = 0 \/ fRd.addr + rdma.done <= MemWords)
  /\ pc = "post" =>
       /\ Busy /\ rdma.next \in 1 .. fRd.wc - rdma.done
       /\ rdma.ndone \in 0 .. rdma.next /\ (rdma.labo <=> rdma.ndone # rdma.next)
       /\ \/ rdma.ndone = rdma.next /\ fRd.addr + rdma.done + rdma.ndone <= MemWords
          \/ rdma.ndone < rdma.next /\ fRd.addr + rdma.done + rdma.ndone = MemWords
          \/ rdma.ndone < rdma.next /\ rdma.done = 0 /\ rdma.ndone = 0 /\ fRd.addr >= MemWords
  /\ nclient = 0 => pc # "dead" /\ \A u \in Unit : att[u]

\* The transfer under way has reported its end already, in the list of its last
\* chunk; the transfer under way is that of the request the CPU waits for.
Reported == pc = "post" /\ Fused /\ rdma.ndone = rdma.next
Mine == Busy /\ ~Reported

\* The handler's copy of the request.
Copied ==
  LET r == cur.req
  IN /\ fRd.fu = r.fu /\ fRd.unit = r.unit /\ fRd.cy = r.cy /\ fRd.hd = r.hd
     /\ fRd.se = r.se /\ fRd.addr = r.addr /\ fRd.flag = r.flag /\ fRd.full = r.wc
     /\ fRd.wc = Nwrd(r) /\ (fRd.ovr <=> Overrun(r)) /\ fRd.id = cur.id
Current ==
  clean => /\ pc = "attn" \/ Mine => ~rdy /\ Copied
           /\ Mine => cur.ok
           /\ Busy => att[fRd.unit]
           /\ ~rdy => /\ cur.disk = gdisk[cur.req.unit]
                      /\ (cur.ok <=> HandlerError(cur.req) = {})
                      /\ (~Mine => mem = cur.mem)

\* Memory after the first n words have been moved, and words so far.
Moved(n) ==
  LET r == cur.req
  IN [a \in Address |-> IF IsRead(r) /\ a - r.addr \in 0 .. n - 1
                        THEN cur.disk[Chs2Lba(r) * BlkWords + a - r.addr] ELSE cur.mem[a]]
SoFar == IF pc = "post" THEN rdma.done + rdma.ndone ELSE rdma.done
Progress ==
  clean /\ Mine =>
    /\ mem = Moved(SoFar)
    /\ IsRead(cur.req) /\ (rdma.done > 0 \/ pc = "post") =>
         fBuf = [i \in 1 .. Nwrd2Nblk(fRd.wc) * BlkWords |->
                   cur.disk[Chs2Lba(cur.req) * BlkWords + i - 1]]
    /\ ~IsRead(cur.req) =>
         \A i \in 1 .. SoFar : fBuf[i] = cur.mem[cur.req.addr + i - 1]

\* The files are as reported, but for the write that has reported its end.
Files ==
  clean => gdisk = IF Reported /\ fRd.fu = "write"
                   THEN [disk EXCEPT ![fRd.unit] =
                           Written(@, Chs2Lba(fRd), Padded(fBuf, fRd.wc))]
                   ELSE disk

Inv == /\ Types /\ Given /\ Handler /\ Current /\ Progress /\ Files
       /\ CompletionExact

-----------------------------------------------------------------------------
(* Arithmetic.                                                              *)

\* A larger factor makes a larger product.
LEMMA Monotone ==
  ASSUME NEW a \in Int, NEW b \in Int, NEW d \in Nat, a <= b
  PROVE  a * d <= b * d
<1>1. PICK k \in Nat : b = a + k
  <2>1. b - a \in Nat /\ b = a + (b - a)
    OBVIOUS
  <2> QED
    BY <2>1
<1>2. b * d = a * d + k * d
  BY <1>1
<1>3. k * d >= 0
  BY <1>1
<1> QED
  BY <1>2, <1>3

\* Division with remainder.
LEMMA Division ==
  ASSUME NEW a \in Int, NEW d \in Nat \ {0}
  PROVE  /\ a \div d \in Int
         /\ a % d \in 0 .. d - 1
         /\ a = (a \div d) * d + (a % d)
<1>1. a \div d \in Int
  OBVIOUS
<1>2. a % d \in 0 .. d - 1
  OBVIOUS
<1>3. a = (a \div d) * d + (a % d)
  OBVIOUS
<1> QED
  BY <1>1, <1>2, <1>3
LEMMA NatDivision ==
  ASSUME NEW a \in Nat, NEW d \in Nat \ {0}
  PROVE  /\ a \div d \in Nat
         /\ a % d \in 0 .. d - 1
         /\ a = (a \div d) * d + (a % d)
<1>1. a \in Int /\ a \div d \in Nat
  OBVIOUS
<1> QED
  BY <1>1, Division

\* A quotient is the only one with a remainder below the divisor.
LEMMA Quotient ==
  ASSUME NEW a \in Int, NEW d \in Nat \ {0}, NEW q \in Int, NEW r \in 0 .. d - 1,
         a = q * d + r
  PROVE  a \div d = q
<1> DEFINE p == a \div d
           s == a % d
<1>1. p \in Int /\ s \in 0 .. d - 1 /\ a = p * d + s
  BY Division
<1> HIDE DEF p, s
<1>2. CASE p < q
  <2>1. (p + 1) * d <= q * d
    BY <1>1, <1>2, Monotone
  <2>2. (p + 1) * d = p * d + d
    BY <1>1
  <2> QED
    BY <1>1, <2>1, <2>2
<1>3. CASE q < p
  <2>1. (q + 1) * d <= p * d
    BY <1>1, <1>3, Monotone
  <2>2. (q + 1) * d = q * d + d
    OBVIOUS
  <2> QED
    BY <1>1, <2>1, <2>2
<1> QED
  BY <1>1, <1>2, <1>3 DEF p

\* The minimum and the maximum of two numbers.
LEMMA MinOfTwo ==
  ASSUME NEW a \in Int, NEW b \in Int
  PROVE  Min({a, b}) = IF a <= b THEN a ELSE b
<1> DEFINE m == IF a <= b THEN a ELSE b
<1>1. m \in {a, b} /\ \A y \in {a, b} : m <= y
  OBVIOUS
<1>2. \A x \in {a, b} : (\A y \in {a, b} : x <= y) => x = m
  OBVIOUS
<1> HIDE DEF m
<1>3. (CHOOSE x \in {a, b} : \A y \in {a, b} : x <= y) = m
  BY <1>1, <1>2, Zenon
<1> QED
  BY <1>3, Zenon DEF Min, m
LEMMA MaxOfTwo ==
  ASSUME NEW a \in Int, NEW b \in Int
  PROVE  Max({a, b}) = IF a >= b THEN a ELSE b
<1> DEFINE m == IF a >= b THEN a ELSE b
<1>1. m \in {a, b} /\ \A y \in {a, b} : m >= y
  OBVIOUS
<1>2. \A x \in {a, b} : (\A y \in {a, b} : x >= y) => x = m
  OBVIOUS
<1> HIDE DEF m
<1>3. (CHOOSE x \in {a, b} : \A y \in {a, b} : x >= y) = m
  BY <1>1, <1>2, Zenon
<1> QED
  BY <1>3, Zenon DEF Max, m

\* ... and of three.
LEMMA MinOfThree ==
  ASSUME NEW a \in Int, NEW b \in Int, NEW c \in Int
  PROVE  Min({a, b, c}) = IF a <= b /\ a <= c THEN a ELSE IF b <= c THEN b ELSE c
<1> DEFINE m == IF a <= b /\ a <= c THEN a ELSE IF b <= c THEN b ELSE c
<1>1. m \in {a, b, c} /\ \A y \in {a, b, c} : m <= y
  OBVIOUS
<1>2. \A x \in {a, b, c} : (\A y \in {a, b, c} : x <= y) => x = m
  OBVIOUS
<1> HIDE DEF m
<1>3. (CHOOSE x \in {a, b, c} : \A y \in {a, b, c} : x <= y) = m
  BY <1>1, <1>2, Zenon
<1> QED
  BY <1>3, Zenon DEF Min, m

\* The least element of a set of numbers.
LEMMA Least ==
  ASSUME NEW T, T \subseteq Nat, T # {}
  PROVE  Min(T) \in T /\ \A k \in T : Min(T) <= k
<1> DEFINE R == OpToRel(<, Nat)
<1>1. IsWellFoundedOn(R, Nat)
  BY NatLessThanWellFounded
<1>2. PICK m \in T : \A k \in T : ~(<<k, m>> \in R)
  BY <1>1, WFMin
<1>3. \A k \in T : m <= k
  <2> SUFFICES ASSUME NEW k \in T, ~(m <= k) PROVE FALSE
    OBVIOUS
  <2>1. m \in Nat /\ k \in Nat /\ k < m
    OBVIOUS
  <2>2. <<k, m>> \in R
    BY <2>1 DEF OpToRel
  <2> QED
    BY <2>2, <1>2
<1> QED
  BY <1>2, <1>3, Zenon DEF Min

-----------------------------------------------------------------------------
(* Blocks and geometry.                                                     *)

\* The blocks of n words.
LEMMA BlockCount ==
  ASSUME NEW n \in Nat
  PROVE  /\ Nwrd2Nblk(n) \in Nat
         /\ n <= Nwrd2Nblk(n) * BlkWords
         /\ n # 0 => (Nwrd2Nblk(n) - 1) * BlkWords < n
         /\ n = 0 => Nwrd2Nblk(n) = 0
<1> DEFINE m == n + BlkWords - 1
           k == Nwrd2Nblk(n)
<1>0. BlkWords \in Nat \ {0} /\ m \in Nat
  BY DiskAssumption
<1>1. k = m \div BlkWords
  BY DEF Nwrd2Nblk
<1> HIDE DEF m, k
<1>2. /\ k \in Nat /\ m % BlkWords \in 0 .. BlkWords - 1
      /\ m = k * BlkWords + (m % BlkWords)
  BY <1>0, <1>1, NatDivision
<1>3. (k - 1) * BlkWords = k * BlkWords - BlkWords
  BY <1>0, <1>2
<1>4. n = 0 => k = 0
  <2> SUFFICES ASSUME n = 0 PROVE k = 0
    OBVIOUS
  <2>1. m = 0 * BlkWords + m /\ m \in 0 .. BlkWords - 1
    BY <1>0 DEF m
  <2> QED
    BY <1>0, <1>1, <2>1, Quotient
<1> QED
  BY <1>0, <1>2, <1>3, <1>4 DEF m, k

\* The blocks of n words are those their words are in.
LEMMA BlocksTouched ==
  ASSUME NEW n \in Nat
  PROVE  Touched(n) = Nwrd2Nblk(n)
<1> DEFINE S == {i \div BlkWords : i \in 0 .. n - 1}
           k == Nwrd2Nblk(n)
<1>0. BlkWords \in Nat \ {0}
  BY DiskAssumption
<1>1. /\ k \in Nat /\ n <= k * BlkWords /\ (n # 0 => (k - 1) * BlkWords < n)
      /\ (n = 0 => k = 0)
  BY BlockCount
<1> HIDE DEF k
<1>2. ASSUME NEW i \in 0 .. n - 1 PROVE i \div BlkWords \in 0 .. k - 1
  <2>1. /\ i \div BlkWords \in Nat /\ i % BlkWords \in 0 .. BlkWords - 1
        /\ i = (i \div BlkWords) * BlkWords + (i % BlkWords)
    <3>1. i \in Nat
      OBVIOUS
    <3> QED
      BY <1>0, <3>1, NatDivision
  <2>2. CASE i \div BlkWords >= k
    <3>1. k * BlkWords <= (i \div BlkWords) * BlkWords
      BY <1>0, <1>1, <2>1, <2>2, Monotone
    <3> QED
      BY <1>0, <1>1, <2>1, <3>1
  <2> QED
    BY <1>1, <2>1, <2>2
<1>3. ASSUME NEW j \in 0 .. k - 1 PROVE \E i \in 0 .. n - 1 : j = i \div BlkWords
  <2>1. n # 0 /\ j \in Int /\ k - 1 \in Int /\ j <= k - 1
    BY <1>1
  <2>2. j * BlkWords <= (k - 1) * BlkWords
    BY <1>0, <2>1, Monotone
  <2>3. j * BlkWords \in 0 .. n - 1
    BY <1>0, <1>1, <2>1, <2>2
  <2>4. (j * BlkWords) \div BlkWords = j
    <3>1. j * BlkWords = j * BlkWords + 0 /\ 0 \in 0 .. BlkWords - 1 /\ j * BlkWords \in Int
      BY <1>0, <2>1, <2>3
    <3> QED
      BY <1>0, <2>1, <3>1, Quotient
  <2> QED
    BY <2>3, <2>4
<1>4. S = 0 .. k - 1
  BY <1>2, <1>3
<1>5. Cardinality(0 .. k - 1) = k
  <2>1. 0 \in Int /\ k - 1 \in Int
    BY <1>1
  <2>2. Cardinality(0 .. (k - 1)) = IF 0 > k - 1 THEN 0 ELSE k - 1 - 0 + 1
    BY <2>1, FS_Interval
  <2> QED
    BY <1>1, <2>2
<1> QED
  BY <1>4, <1>5 DEF k, Touched

\* A block number and its cylinder, head and sector.
LEMMA Geometry ==
  ASSUME NEW lba \in Nat
  PROVE  /\ Lba2Chs(lba).cy \in Int /\ Lba2Chs(lba).hd \in Int /\ Lba2Chs(lba).se \in Int
         /\ Lba2Chs(lba).se + NSect * (Lba2Chs(lba).hd + NHead * Lba2Chs(lba).cy) = lba
<1> DEFINE q == lba \div NSect
           s == lba % NSect
           c == q \div NHead
           h == q % NHead
<1>0. NSect \in Nat \ {0} /\ NHead \in Nat \ {0}
  BY DiskAssumption
<1>1. q \in Nat /\ s \in 0 .. NSect - 1 /\ lba = q * NSect + s
  BY <1>0, NatDivision
<1>2. c \in Int /\ h \in 0 .. NHead - 1 /\ q = c * NHead + h
  BY <1>0, <1>1, Division
<1> HIDE DEF q, s, c, h
<1>3. NSect * NHead \in Nat \ {0}
  BY <1>0
<1>4. lba = c * (NSect * NHead) + (h * NSect + s)
  <2>1. q * NSect = c * NHead * NSect + h * NSect
    BY <1>0, <1>1, <1>2
  <2>2. c * NHead * NSect = c * (NSect * NHead)
    BY <1>0, <1>2
  <2>3. h * NSect \in Int /\ c * (NSect * NHead) \in Int
    BY <1>0, <1>2
  <2> QED
    BY <1>1, <2>1, <2>2, <2>3
<1>5. h * NSect + s \in 0 .. NSect * NHead - 1
  <2>1. h \in Int /\ NHead - 1 \in Int /\ h <= NHead - 1 /\ h >= 0
    BY <1>0, <1>2
  <2>2. h * NSect <= (NHead - 1) * NSect
    BY <1>0, <2>1, Monotone
  <2>3. (NHead - 1) * NSect = NSect * NHead - NSect
    BY <1>0
  <2>4. h * NSect \in Nat
    BY <1>0, <2>1
  <2> QED
    BY <1>0, <1>1, <1>3, <2>2, <2>3, <2>4
<1>6. lba \div (NSect * NHead) = c
  BY <1>2, <1>3, <1>4, <1>5, Quotient
<1>7. Lba2Chs(lba).cy = c /\ Lba2Chs(lba).hd = h /\ Lba2Chs(lba).se = s
  BY <1>6 DEF Lba2Chs, q, s, h
<1>8. s + NSect * (h + NHead * c) = lba
  <2>1. NSect * (h + NHead * c) = NSect * h + NSect * (NHead * c)
    BY <1>0, <1>2
  <2>2. NSect * (NHead * c) = c * (NSect * NHead) /\ NSect * h = h * NSect
    BY <1>0, <1>2
  <2> QED
    BY <1>0, <1>1, <1>2, <1>4, <2>1, <2>2
<1> QED
  BY <1>1, <1>2, <1>7, <1>8

\* Requests have numbers in their fields.
LEMMA Numbers ==
  ASSUME NEW r, {r.cy, r.hd, r.se} \subseteq Int
  PROVE  Chs2Lba(r) \in Int /\ Extent(r) \in Int /\ Extent(r) * BlkWords \in Int
<1>0. {NCyl, NHead, NSect, BlkWords} \subseteq Nat
  BY DiskAssumption
<1>1. r.cy \in Int /\ r.hd \in Int /\ r.se \in Int
  OBVIOUS
<1>2. NHead * r.cy \in Int
  BY <1>0, <1>1
<1>3. NSect * (r.hd + NHead * r.cy) \in Int
  BY <1>0, <1>1, <1>2
<1>4. Chs2Lba(r) \in Int
  BY <1>1, <1>3 DEF Chs2Lba
<1>5. NBlock \in Int
  BY <1>0 DEF NBlock
<1>6. Extent(r) \in Int
  BY <1>0, <1>1, <1>4, <1>5 DEF Extent
<1> QED
  BY <1>0, <1>4, <1>6

\* A request in range has at least one block.
LEMMA Room ==
  ASSUME NEW r, {r.cy, r.hd, r.se} \subseteq Nat, InRange(r)
  PROVE  Extent(r) >= 1 /\ Extent(r) * BlkWords >= 1
<1>0. /\ NCyl \in Nat \ {0} /\ NHead \in Nat \ {0} /\ NSect \in Nat \ {0}
      /\ BlkWords \in Nat \ {0}
  BY DiskAssumption
<1>1. r.cy \in Nat /\ r.hd \in Nat /\ r.se \in Nat
  OBVIOUS
<1>2. Extent(r) \in Int
  BY <1>1, Numbers
<1>3. Extent(r) >= 1
  <2>1. CASE kind = "rl11"
    BY <1>0, <1>1, <2>1 DEF Extent, InRange
  <2>2. CASE kind # "rl11"
    <3>1. r.cy <= NCyl - 1 /\ r.hd <= NHead - 1 /\ r.se <= NSect - 1
      BY <1>0, <1>1, <2>2 DEF InRange
    <3> DEFINE t == r.hd + NHead * r.cy
    <3>2. t <= NHead * NCyl - 1
      <4>1. r.cy * NHead <= (NCyl - 1) * NHead
        BY <1>0, <1>1, <3>1, Monotone
      <4>2. (NCyl - 1) * NHead = NHead * NCyl - NHead /\ r.cy * NHead = NHead * r.cy
        BY <1>0, <1>1
      <4> QED
        BY <1>0, <1>1, <3>1, <4>1, <4>2
    <3>3. t \in Int /\ NHead * NCyl - 1 \in Int
      BY <1>0, <1>1
    <3> HIDE DEF t
    <3>4. t * NSect <= (NHead * NCyl - 1) * NSect
      BY <1>0, <3>2, <3>3, Monotone
    <3>5. (NHead * NCyl - 1) * NSect = NBlock - NSect /\ NBlock \in Int
      <4>1. (NHead * NCyl - 1) * NSect = NHead * NCyl * NSect - NSect
        BY <1>0
      <4>2. NHead * NCyl * NSect = NCyl * NHead * NSect
        BY <1>0
      <4> QED
        BY <1>0, <4>1, <4>2 DEF NBlock
    <3>6. Chs2Lba(r) = r.se + t * NSect
      <4>1. NSect * t = t * NSect
        BY <1>0, <3>3
      <4> QED
        BY <4>1 DEF Chs2Lba, t
    <3>7. t * NSect \in Int
      BY <1>0, <3>3
    <3>8. Chs2Lba(r) <= NBlock - 1
      BY <1>0, <1>1, <3>1, <3>4, <3>5, <3>6, <3>7
    <3> QED
      BY <1>0, <1>1, <3>5, <3>6, <3>7, <3>8, <2>2 DEF Extent
  <2> QED
    BY <2>1, <2>2
<1>4. 1 * BlkWords <= Extent(r) * BlkWords
  BY <1>0, <1>2, <1>3, Monotone
<1>5. Extent(r) * BlkWords \in Int
  BY <1>0, <1>2
<1> QED
  BY <1>0, <1>3, <1>4, <1>5

\* A transfer overruns when its words do not fit, and is cut to those that do.
LEMMA Truncated ==
  ASSUME NEW r, {r.cy, r.hd, r.se} \subseteq Int, r.wc \in Nat,
         r.fu \in Transfer \cup {"rchk"}
  PROVE  /\ Overrun(r) <=> r.wc > Extent(r) * BlkWords
         /\ Nwrd(r) = IF r.wc <= Extent(r) * BlkWords THEN r.wc ELSE Extent(r) * BlkWords
<1>0. BlkWords \in Nat \ {0} /\ Extent(r) \in Int /\ Extent(r) * BlkWords \in Int
  BY DiskAssumption, Numbers
<1> DEFINE k == Nwrd2Nblk(r.wc)
           E == Extent(r)
<1>1. /\ k \in Nat /\ r.wc <= k * BlkWords /\ (r.wc # 0 => (k - 1) * BlkWords < r.wc)
      /\ (r.wc = 0 => k = 0)
  BY BlockCount
<1>2. Overrun(r) <=> k > E
  BY DEF Overrun
<1>3. Nwrd(r) = IF Overrun(r) THEN E * BlkWords ELSE r.wc
  BY DEF Nwrd
<1> HIDE DEF k, E
<1>4. CASE k > E
  <2>1. E \in Int /\ k - 1 \in Int /\ E <= k - 1 /\ E * BlkWords \in Int
    BY <1>0, <1>1, <1>4 DEF E
  <2>2. E * BlkWords <= (k - 1) * BlkWords
    BY <1>0, <2>1, Monotone
  <2>3. (k - 1) * BlkWords \in Int
    BY <1>0, <2>1
  <2>4. CASE r.wc # 0
    BY <1>1, <1>2, <1>3, <1>4, <2>1, <2>2, <2>3, <2>4 DEF E
  <2>5. CASE r.wc = 0
    <3>1. k = 0 /\ (k - 1) * BlkWords = -BlkWords
      BY <1>0, <1>1, <2>5
    <3> QED
      BY <1>0, <1>2, <1>3, <1>4, <2>1, <2>2, <2>5, <3>1 DEF E
  <2> QED
    BY <2>4, <2>5
<1>5. CASE ~(k > E)
  <2>1. E \in Int /\ k <= E /\ E * BlkWords \in Int /\ k * BlkWords \in Int
    BY <1>0, <1>1, <1>5 DEF E
  <2>2. k * BlkWords <= E * BlkWords
    BY <1>0, <1>1, <2>1, Monotone
  <2> QED
    BY <1>1, <1>2, <1>3, <1>5, <2>1, <2>2 DEF E
<1> QED
  BY <1>4, <1>5

-----------------------------------------------------------------------------
(* Parts of the model that several steps share.                             *)

\* The errors found depend on the request and on the unit.
LEMMA SameErrors ==
  ASSUME NEW r, NEW q, r.fu = q.fu, r.unit = q.unit, r.cy = q.cy, r.hd = q.hd,
         r.se = q.se, r.flag = q.flag
  PROVE  HandlerError(r) = HandlerError(q)
  BY DEF HandlerError, BadChs

\* A completed request stays completed while its registers and memory do.
LEMMA CompletedQuiet ==
  ASSUME CompletionExact, UNCHANGED <<kind, rdy, reg, err, mem, cur>>, clean' => clean
  PROVE  CompletionExact'
<1>1. /\ (Extent(cur.req))' = Extent(cur.req) /\ (Chs2Lba(cur.req))' = Chs2Lba(cur.req)
      /\ (Chs2Lba(reg))' = Chs2Lba(reg) /\ (IsRead(cur.req))' = IsRead(cur.req)
  BY Zenon DEF Extent, Chs2Lba, IsRead
<1>2. (MovedWords(cur.req))' = MovedWords(cur.req)
  BY <1>1, Zenon DEF MovedWords
<1>3. (Disagree(cur.req))' = Disagree(cur.req)
  BY <1>1, <1>2, Zenon DEF Disagree
<1>4. (CountedWords(cur.req))' = CountedWords(cur.req)
  BY <1>1, <1>2, <1>3, Zenon DEF CountedWords
<1>5. (ExpectedErrors(cur.req))' = ExpectedErrors(cur.req)
  BY <1>1, <1>3, Zenon DEF ExpectedErrors
<1>6. (MemoryAfter(cur.req))' = MemoryAfter(cur.req)
  BY <1>1, <1>2, Zenon DEF MemoryAfter
<1>7. /\ (LostCount(cur.req))' = LostCount(cur.req)
      /\ (ShownErrors(cur.req))' = ShownErrors(cur.req)
  BY <1>1, <1>5, Zenon DEF LostCount, ShownErrors, Er1OfCs2
<1> QED
  BY <1>1, <1>4, <1>5, <1>6, <1>7, Zenon DEF CompletionExact

\* A transfer in the air stays so while the host does nothing.
LEMMA HostQuiet ==
  ASSUME Inv, UNCHANGED <<kind, rdy, reg, cur, clean>>, UNCHANGED <<mem, disk, gdisk>>,
         UNCHANGED <<rdma, fRd, fBuf>>, UNCHANGED <<att, wprot>>,
         UNCHANGED <<pc, ngo, nreset, nclient>>, lam' \in BOOLEAN,
         err' = err, ~rdy => pos' = pos
  PROVE  Inv'
<1>1. Types' /\ Given'
  BY DEF Inv, Types, Given, On, InRange
<1>2. Handler'
  BY DEF Inv, Handler, Busy, Sane, InRange
<1>3. (Reported' <=> Reported) /\ (Mine' <=> Mine) /\ SoFar' = SoFar
  BY DEF Reported, Mine, Busy, Fused, SoFar
<1>4. Copied' <=> Copied
  BY DEF Copied, Nwrd, Overrun, Extent, Chs2Lba
<1>5. ~rdy => (HandlerError(cur.req))' = HandlerError(cur.req)
  BY DEF HandlerError, BadChs
<1>6. Current'
  BY <1>3, <1>4, <1>5, Zenon DEF Inv, Current, Busy
<1>7. Progress'
  BY <1>3, Zenon DEF Inv, Progress, Moved, IsRead, Chs2Lba
<1>8. Files'
  BY <1>3, Zenon DEF Inv, Files, Written, Padded, Chs2Lba
<1>9. CompletionExact'
  BY CompletedQuiet DEF Inv
<1> QED
  BY <1>1, <1>2, <1>6, <1>7, <1>8, <1>9 DEF Inv

-----------------------------------------------------------------------------
(* The first state, and the steps of the CPU and of clients.                *)

LEMMA InvInit == Init => Inv
<1> SUFFICES ASSUME Init PROVE Inv
  OBVIOUS
<1>0. NoReq \in Regs /\ NoReq.unit \in Unit /\ NoReq.fu = "none"
  BY DiskAssumption DEF NoReq, Regs, Flags
<1>1. Types
  <2>1. On(mem, Address) /\ On(cur.mem, Address) /\ On(disk, Unit) /\ On(gdisk, Unit)
    BY DEF Init, On
  <2>2. \A u \in Unit : On(disk[u], Word) /\ On(gdisk[u], Word)
    BY DEF Init, On, Fresh
  <2>3. rdma \in Rdmas
    BY DEF Init, Rdmas, Idle
  <2>4. wprot \in [Unit -> BOOLEAN] /\ att \in [Unit -> BOOLEAN]
    BY DEF Init
  <2>5. cur.req \in Regs /\ cur.id \in Nat /\ cur.ok \in BOOLEAN
    BY <1>0 DEF Init
  <2> QED
    BY <1>0, <2>1, <2>2, <2>3, <2>4, <2>5 DEF Init, Types
<1>2. Given /\ Handler /\ CompletionExact
  BY <1>0 DEF Init, Given, Handler, Busy, Idle, CompletionExact, Transfer
<1>3. ~Reported /\ ~Mine
  BY DEF Init, Reported, Mine, Busy, Idle
<1>4. Current /\ Progress /\ Files
  BY <1>3 DEF Init, Current, Progress, Files, Busy, Idle
<1> QED
  BY <1>1, <1>2, <1>4 DEF Inv

\* Steps in the device alone: a drive clear leaves the last function as it was,
\* a seek is a function of its own.
LEMMA DclrStep ==
  ASSUME Inv, NEW u \in Unit, Dclr(u)
  PROVE  Inv'
  BY HostQuiet DEF Dclr, aux, Inv, Types
LEMMA SeekStep ==
  ASSUME Inv, NEW u \in Unit, NEW t, Seek(u, t)
  PROVE  Inv'
<1> USE DEF Inv
<1>0. /\ rdy /\ rdy' = rdy /\ reg' = [reg EXCEPT !.fu = "seek", !.unit = u]
      /\ UNCHANGED <<kind, lam, mem, disk, att, wprot, pc, fRd, rdma, fBuf>>
      /\ UNCHANGED <<cur, gdisk, clean, ngo, nreset, nclient>>
  BY DEF Seek, aux
<1>1. reg' \in Regs /\ reg'.fu = "seek"
  <2>1. reg \in Regs
    BY DEF Types
  <2> HIDE DEF Inv
  <2> QED
    BY <1>0, <2>1 DEF Regs, Funcs
<1>2. Types' /\ Given'
  <2>1. /\ On(mem', Address) /\ On(cur'.mem, Address) /\ On(disk', Unit) /\ On(gdisk', Unit)
        /\ \A v \in Unit : On(disk'[v], Word) /\ On(gdisk'[v], Word)
    BY <1>0 DEF Types
  <2> QED
    BY <1>0, <1>1, <2>1 DEF Types, Given
<1>3. Handler'
  BY <1>0 DEF Handler, Busy, Sane, InRange
<1>4. (Reported' <=> Reported) /\ (Mine' <=> Mine) /\ SoFar' = SoFar
  BY <1>0 DEF Reported, Mine, Busy, Fused, SoFar
<1>5. Current'
  BY <1>0, <1>4 DEF Current, Busy
<1>6. Progress'
  BY <1>0, <1>4, Zenon DEF Progress, Current
<1>7. Files'
  BY <1>0, <1>4, Zenon DEF Files, Written, Padded, Chs2Lba
<1>8. CompletionExact'
  BY <1>1 DEF CompletionExact, Transfer
<1> QED
  BY <1>2, <1>3, <1>5, <1>6, <1>7, <1>8

\* A request is given, to a ready device.
LEMMA GoStep ==
  ASSUME Inv, NEW r \in Reqs, Go(r)
  PROVE  Inv'
<1> USE DEF Inv
<1>1. CASE ~Accepted(r)
  <2>1. UNCHANGED <<rdy, reg, err, lam, cur>> /\ rdy /\ ngo' = ngo + 1
    BY <1>1 DEF Go
  <2>2. Types' /\ Given' /\ Handler'
    BY <2>1 DEF Go, Types, Given, Handler, On, Busy, Sane, InRange
  <2>3. (Reported' <=> Reported) /\ (Mine' <=> Mine) /\ SoFar' = SoFar
    BY DEF Go, Reported, Mine, Busy, Fused, SoFar
  <2>4. Current'
    BY <2>1, <2>3 DEF Go, Current, Busy
  <2>5. Progress'
    BY <2>1, <2>3, Zenon DEF Go, Progress, Current
  <2>6. Files'
    BY <2>3, Zenon DEF Go, Files, Written, Padded, Chs2Lba
  <2>7. CompletionExact'
    BY <2>1, CompletedQuiet DEF Go
  <2> QED
    BY <2>2, <2>4, <2>5, <2>6, <2>7
<1>2. CASE Accepted(r)
  <2>0. /\ rdy' = FALSE /\ reg' = r /\ lam' = TRUE /\ ngo' = ngo + 1
        /\ cur'.req = r /\ cur'.mem = mem /\ cur'.disk = gdisk[r.unit]
        /\ cur'.ok = (HandlerError(r) = {}) /\ cur'.id = ngo + 1 /\ err' = cur'.err
    BY <1>2 DEF Go, Accepted
  <2>a. r \in Regs /\ r.kind = kind
    BY ReqsAssumption DEF Go, Regs
  <2>1. Types'
    <3>1. cur'.id \in Nat /\ cur'.ok \in BOOLEAN /\ On(cur'.mem, Address)
      BY <2>0 DEF Types
    <3>2. On(mem', Address) /\ On(disk', Unit) /\ On(gdisk', Unit)
      BY DEF Go, Types
    <3>3. \A u \in Unit : On(disk'[u], Word) /\ On(gdisk'[u], Word)
      BY DEF Go, Types
    <3> QED
      BY <2>0, <2>a, <3>1, <3>2, <3>3 DEF Go, Types
  <2>2. Given'
    <3>1. kind = "rhrp" => Refused(r) = {}
      BY <1>2, <2>0 DEF Go, Types
    <3>2. kind = "rhrp" => InRange(r)
      BY <3>1, <2>a, DiskAssumption, ReqsAssumption DEF Refused, InRange, Types, Go
    <3> QED
      BY <3>2, <2>0, <2>a DEF Given, InRange, Go
  <2>3. Handler'
    BY <2>0 DEF Go, Handler, Busy, Sane, InRange, Types
  <2>4. (Reported' <=> Reported) /\ (Mine' <=> Mine)
    BY DEF Go, Reported, Mine, Busy, Fused
  <2>5. clean => ~Mine /\ pc # "attn"
    BY DEF Go, Current
  <2>6. Current'
    <3>1. (HandlerError(cur.req))' = HandlerError(r)
      BY <2>0 DEF Go, HandlerError, BadChs
    <3> QED
      BY <2>0, <2>4, <2>5, <3>1 DEF Go, Current, Busy
  <2>7. Progress'
    BY <2>4, <2>5 DEF Go, Progress
  <2>8. Files'
    BY <2>4, Zenon DEF Go, Files, Written, Padded, Chs2Lba
  <2>9. CompletionExact'
    BY <2>0 DEF CompletionExact
  <2> QED
    BY <2>1, <2>2, <2>3, <2>6, <2>7, <2>8, <2>9
<1> QED
  BY <1>1, <1>2

\* A reset: nothing is promised about the request it hits.
LEMMA ResetStep ==
  ASSUME Inv, Reset
  PROVE  Inv'
<1> USE DEF Inv
<1>0. NoReq \in Regs /\ reg'.fu = "none" /\ reg' \in Regs
  <2>1. NoReq \in Regs /\ NoReq.fu = "none"
    BY DiskAssumption DEF NoReq, Regs, Flags
  <2>2. reg' = [NoReq EXCEPT !.unit = reg.unit] /\ reg.unit \in Unit
    BY DEF Reset, Types, Regs
  <2> HIDE DEF Inv
  <2>3. reg' \in Regs /\ reg'.fu = NoReq.fu
    BY <2>1, <2>2 DEF Regs
  <2> QED
    BY <2>1, <2>3
<1>1. Types' /\ Given'
  BY <1>0 DEF Reset, Types, Given, On
<1>2. Handler'
  BY DEF Reset, Handler, Busy, Sane, InRange
<1>3. (Reported' <=> Reported) /\ (Mine' <=> Mine)
  BY DEF Reset, Reported, Mine, Busy, Fused
<1>4. clean' => clean /\ ~Mine' /\ ~Busy' /\ pc' = "idle"
  BY <1>3 DEF Reset, Mine, Busy
<1>5. Current' /\ Progress'
  BY <1>4 DEF Reset, Current, Progress
<1>6. Files'
  BY <1>3, <1>4, Zenon DEF Reset, Files, Written, Padded, Chs2Lba
<1>7. CompletionExact'
  BY <1>0 DEF CompletionExact, Transfer
<1> QED
  BY <1>1, <1>2, <1>5, <1>6, <1>7

\* Files are attached and detached between the handlers: nothing is promised
\* about a request that is under way.
LEMMA ClientStep ==
  ASSUME Inv, NEW u \in Unit, NEW wp \in BOOLEAN, Detach(u) \/ Attach(u, wp)
  PROVE  Inv'
<1> USE DEF Inv
<1>0. /\ UNCHANGED <<kind, rdy, reg, err, lam, mem, pc, fRd, rdma, fBuf, cur>>
      /\ UNCHANGED <<ngo, nreset>> /\ nclient' = nclient + 1 /\ pc \in {"idle", "dead"}
      /\ clean' = (clean /\ rdy /\ rdma.status = "done")
  BY DEF Detach, Attach, Client
<1>1. /\ att' \in [Unit -> BOOLEAN] /\ wprot' \in [Unit -> BOOLEAN]
      /\ nclient' \in Nat /\ nclient' # 0
  <2>1. CASE Detach(u)
    BY <1>0, <2>1 DEF Detach, Types
  <2>2. CASE Attach(u, wp)
    BY <1>0, <2>2 DEF Attach, Types
  <2> QED
    BY <2>1, <2>2
<1>2. \/ UNCHANGED <<disk, gdisk>>
      \/ /\ disk' = [disk EXCEPT ![u] = Fresh(u, nclient + 1)]
         /\ gdisk' = [gdisk EXCEPT ![u] = Fresh(u, nclient + 1)]
  BY DEF Detach, Attach
<1>3. /\ On(disk', Unit) /\ On(gdisk', Unit)
      /\ \A v \in Unit : On(disk'[v], Word) /\ On(gdisk'[v], Word)
      /\ disk = gdisk => disk' = gdisk'
  <2>1. CASE UNCHANGED <<disk, gdisk>>
    BY <2>1 DEF Types
  <2>2. CASE ~UNCHANGED <<disk, gdisk>>
    <3> DEFINE f == Fresh(u, nclient + 1)
    <3>1. disk' = [disk EXCEPT ![u] = f] /\ gdisk' = [gdisk EXCEPT ![u] = f]
      BY <1>2, <2>2
    <3>2. On(f, Word)
      BY DEF On, Fresh
    <3> HIDE DEF f
    <3>3. disk' = [v \in Unit |-> IF v = u THEN f ELSE disk[v]]
      BY <3>1 DEF Types, On
    <3>4. gdisk' = [v \in Unit |-> IF v = u THEN f ELSE gdisk[v]]
      BY <3>1 DEF Types, On
    <3>5. On(disk', Unit) /\ On(gdisk', Unit)
      BY <3>3, <3>4 DEF On
    <3>6. \A v \in Unit : On(disk'[v], Word) /\ On(gdisk'[v], Word)
      BY <3>2, <3>3, <3>4 DEF Types
    <3> QED
      BY <3>1, <3>5, <3>6
  <2> QED
    BY <2>1, <2>2
<1>4. Types'
  <2>1. clean' \in BOOLEAN
    BY <1>0
  <2>2. On(mem', Address) /\ On(cur'.mem, Address)
    BY <1>0 DEF Types
  <2> QED
    BY <1>0, <1>1, <1>3, <2>1, <2>2 DEF Types
<1>5. Given' /\ Handler'
  BY <1>0, <1>1 DEF Given, Handler, Busy, Sane, InRange
<1>6. ~Reported /\ ~Reported' /\ (Mine' => Busy)
  BY <1>0 DEF Reported, Mine, Busy
<1>7. clean' => clean /\ rdy' /\ ~Busy /\ ~Busy' /\ pc' # "attn"
  BY <1>0 DEF Busy
<1>8. Current' /\ Progress'
  BY <1>0, <1>6, <1>7 DEF Current, Progress
<1>9. Files'
  BY <1>3, <1>6, <1>7 DEF Files
<1>10. CompletionExact'
  BY <1>0, CompletedQuiet
<1> QED
  BY <1>4, <1>5, <1>8, <1>9, <1>10

-----------------------------------------------------------------------------
(* The attention handler.                                                   *)

LEMMA AttnReadStep ==
  ASSUME Inv, AttnRead
  PROVE  Inv'
<1> USE DEF Inv, aux
<1>1. Types' /\ Given'
  BY DEF AttnRead, Types, Given, On, InRange
<1>2. Handler'
  BY DEF AttnRead, Handler, Busy, Sane, InRange
<1>3. /\ ~Reported /\ ~Reported' /\ (Mine' <=> Mine) /\ SoFar' = SoFar
      /\ pc = "idle" /\ pc' = "read"
  BY DEF AttnRead, Reported, Mine, Busy, SoFar
<1>4. Copied' <=> Copied
  BY DEF AttnRead, Copied, Nwrd, Overrun, Extent, Chs2Lba
<1>5. (HandlerError(cur.req))' = HandlerError(cur.req)
  BY DEF AttnRead, HandlerError, BadChs
<1>6. Current'
  BY <1>3, <1>4, <1>5 DEF AttnRead, Current, Busy
<1>7. Progress'
  BY <1>3, Zenon DEF AttnRead, Progress, Moved, IsRead, Chs2Lba
<1>8. Files'
  BY <1>3 DEF AttnRead, Files
<1>9. CompletionExact'
  BY CompletedQuiet DEF AttnRead
<1> QED
  BY <1>1, <1>2, <1>6, <1>7, <1>8, <1>9

\* The request is copied from the registers and cut to what there is room for.
LEMMA AttnRegsStep ==
  ASSUME Inv, AttnRegs
  PROVE  Inv'
<1> USE DEF Inv, aux, fpga
<1>1. Types'
  BY DEF AttnRegs, Types, On
<1>2. Given'
  BY DEF AttnRegs, Given, InRange
<1>3. CompletionExact'
  BY CompletedQuiet DEF AttnRegs
<1>4. (HandlerError(cur.req))' = HandlerError(cur.req)
  BY DEF AttnRegs, HandlerError, BadChs
<1>5. CASE Spurious
  <2>1. fRd' = fRd /\ pc' = "idle" /\ pc = "read"
    BY <1>5 DEF AttnRegs
  <2>2. Handler'
    BY <2>1 DEF AttnRegs, Handler, Busy, Sane, InRange
  <2>3. ~Reported /\ ~Reported' /\ (Mine' <=> Mine) /\ SoFar' = SoFar
    BY <2>1 DEF AttnRegs, Reported, Mine, Busy, SoFar
  <2>4. Copied' <=> Copied
    BY <2>1 DEF AttnRegs, Copied, Nwrd, Overrun, Extent, Chs2Lba
  <2>5. Current'
    BY <1>4, <2>1, <2>3, <2>4 DEF AttnRegs, Current, Busy
  <2>6. Progress'
    BY <2>1, <2>3, Zenon DEF AttnRegs, Progress, Moved, IsRead, Chs2Lba
  <2>7. Files'
    BY <2>3 DEF AttnRegs, Files
  <2> QED
    BY <1>1, <1>2, <1>3, <2>2, <2>5, <2>6, <2>7
<1>6. CASE ~Spurious
  <2>0. fRd' = [fu |-> reg.fu, unit |-> reg.unit, cy |-> reg.cy, hd |-> reg.hd,
                se |-> reg.se, addr |-> reg.addr, wc |-> Nwrd(reg), flag |-> reg.flag,
                ovr |-> Overrun(reg), full |-> reg.wc, id |-> cur.id]
    BY <1>6 DEF AttnRegs, Spurious
  <2>1. pc = "read" /\ pc' = "attn" /\ ~rdy /\ ~Busy /\ ~Busy'
    BY <1>6 DEF AttnRegs, Spurious, Busy
  <2>2. /\ reg = cur.req /\ reg \in Reqs /\ reg.kind = kind
        /\ (kind = "rhrp" => InRange(reg))
    BY <2>1 DEF Given
  <2>3. /\ reg.fu \in Funcs /\ reg.unit \in Unit /\ reg.cy \in Nat /\ reg.hd \in Nat
        /\ reg.se \in Nat /\ reg.addr \in Nat /\ reg.wc \in Nat \ {0}
        /\ reg.flag \in Flags /\ (kind # "rhrp" => reg.hd < NHead)
    BY <2>2, ReqsAssumption
  <2>4. Nwrd(reg) \in Int /\ Overrun(reg) \in BOOLEAN
    <3>1. Extent(reg) * BlkWords \in Int
      BY <2>3, Numbers
    <3> QED
      BY <2>3, <3>1 DEF Nwrd, Overrun
  <2>5. fRd' \in Rds
    BY <2>0, <2>3, <2>4 DEF Rds, Types
  <2>6. InRange(reg) => Nwrd(reg) \in 1 .. reg.wc
    <3> SUFFICES ASSUME InRange(reg) PROVE Nwrd(reg) \in 1 .. reg.wc
      OBVIOUS
    <3>1. Extent(reg) * BlkWords >= 1 /\ Extent(reg) * BlkWords \in Int
      BY <2>3, Room, Numbers
    <3>2. CASE reg.fu \in Transfer \cup {"rchk"}
      <4>1. Nwrd(reg) = IF reg.wc <= Extent(reg) * BlkWords THEN reg.wc
                        ELSE Extent(reg) * BlkWords
        BY <2>3, <3>2, Truncated
      <4> QED
        BY <2>3, <3>1, <4>1
    <3>3. CASE reg.fu \notin Transfer \cup {"rchk"}
      BY <2>3, <3>3 DEF Nwrd, Overrun
    <3> QED
      BY <3>2, <3>3
  <2>7. Handler'
    <3>1. Sane'
      BY <2>0, <2>2, <2>3, <2>5, <2>6 DEF AttnRegs, Sane, InRange
    <3> QED
      BY <2>1, <3>1 DEF AttnRegs, Handler, Busy
  <2>8. ~Reported /\ ~Reported' /\ ~Mine /\ ~Mine'
    BY <2>1 DEF Reported, Mine
  <2>9. Copied'
    BY <2>0, <2>2 DEF AttnRegs, Copied, Nwrd, Overrun, Extent, Chs2Lba
  <2>10. Current'
    BY <1>4, <2>1, <2>8, <2>9 DEF AttnRegs, Current, Busy
  <2>11. Progress' /\ Files'
    BY <2>8 DEF AttnRegs, Progress, Files
  <2> QED
    BY <1>1, <1>2, <1>3, <2>7, <2>10, <2>11
<1> QED
  BY <1>5, <1>6

-----------------------------------------------------------------------------
(* What an answer leaves in the registers.                                  *)

\* The handler's copy has numbers in its fields.
LEMMA RdNumbers ==
  ASSUME fRd \in Rds
  PROVE  /\ fRd.cy \in Nat /\ fRd.hd \in Nat /\ fRd.se \in Nat /\ fRd.addr \in Nat
         /\ fRd.wc \in Int /\ fRd.full \in Nat \ {0} /\ fRd.unit \in Unit
         /\ fRd.ovr \in BOOLEAN /\ fRd.fu \in Funcs /\ Chs2Lba(fRd) \in Nat
<1>1. /\ fRd.cy \in Nat /\ fRd.hd \in Nat /\ fRd.se \in Nat /\ fRd.addr \in Nat
      /\ fRd.wc \in Int /\ fRd.full \in Nat \ {0} /\ fRd.unit \in Unit
      /\ fRd.ovr \in BOOLEAN /\ fRd.fu \in Funcs
  BY DEF Rds
<1>2. NHead \in Nat /\ NSect \in Nat
  BY DiskAssumption
<1>3. NHead * fRd.cy \in Nat
  BY <1>1, <1>2
<1>4. NSect * (fRd.hd + NHead * fRd.cy) \in Nat
  BY <1>1, <1>2, <1>3
<1> QED
  BY <1>1, <1>4 DEF Chs2Lba

\* A request without an error has a block.
LEMMA NoErrorInRange ==
  ASSUME Types, Sane, HandlerError(fRd) = {}, fRd.fu \in Transfer \cup {"rchk"}
  PROVE  InRange(fRd) /\ att[fRd.unit]
<1>1. fRd \in Rds /\ (kind = "rk11" => fRd.hd < NHead) /\ (kind = "rhrp" => InRange(fRd))
  BY DEF Sane
<1>2. /\ fRd.cy \in Nat /\ fRd.se \in Nat /\ NCyl \in Nat /\ NSect \in Nat
      /\ kind \in {"rk11", "rl11", "rhrp"}
  BY <1>1, RdNumbers, DiskAssumption DEF Types
<1>3. CASE kind = "rk11"
  <2>1. att[fRd.unit] /\ BadChs(fRd) = {}
    BY <1>3 DEF HandlerError
  <2>2. ~(fRd.se >= NSect) /\ ~(fRd.cy >= NCyl)
    BY <2>1 DEF BadChs
  <2> QED
    BY <1>1, <1>2, <1>3, <2>1, <2>2 DEF InRange
<1>4. CASE kind = "rl11"
  <2>1. att[fRd.unit] /\ ~(fRd.se >= NSect)
    BY <1>4 DEF HandlerError, Transfer
  <2> QED
    BY <1>2, <1>4, <2>1 DEF InRange
<1>5. CASE kind = "rhrp"
  BY <1>1, <1>5 DEF HandlerError
<1> QED
  BY <1>2, <1>3, <1>4, <1>5

\* AddNormalExit(): words are counted and the address moves on by whole blocks.
LEMMA ExitFacts ==
  ASSUME Types, fRd \in Rds, NEW n \in Nat, NEW e, NEW gd, NormalExit(n, e, gd)
  PROVE  /\ rdy' = TRUE /\ reg' \in Regs /\ reg'.fu = reg.fu /\ UNCHANGED <<pos, lam>>
         /\ reg'.addr = fRd.addr + n
         /\ reg'.wc = (IF kind = "rk11" THEN fRd.wc ELSE fRd.full) - n
         /\ Chs2Lba(reg') = Chs2Lba(fRd) + Nwrd2Nblk(n)
         /\ gdisk' = IF ~rdy /\ fRd.id = cur.id THEN gd ELSE gdisk
<1> DEFINE lba == Chs2Lba(fRd) + Nwrd2Nblk(n)
           chs == IF kind = "rl11"
                  THEN [cy |-> fRd.cy, hd |-> fRd.hd, se |-> fRd.se + Nwrd2Nblk(n)]
                  ELSE Lba2Chs(lba)
           w == (IF kind = "rk11" THEN fRd.wc ELSE fRd.full) - n
<1>0. /\ fRd.cy \in Nat /\ fRd.hd \in Nat /\ fRd.se \in Nat /\ fRd.addr \in Nat
      /\ fRd.wc \in Int /\ fRd.full \in Nat /\ Chs2Lba(fRd) \in Nat
      /\ Nwrd2Nblk(n) \in Nat /\ lba \in Nat
  BY RdNumbers, BlockCount
<1>1. /\ chs.cy \in Int /\ chs.hd \in Int /\ chs.se \in Int
      /\ chs.se + NSect * (chs.hd + NHead * chs.cy) = lba
  <2>1. CASE kind = "rl11"
    <3>1. chs.cy = fRd.cy /\ chs.hd = fRd.hd /\ chs.se = fRd.se + Nwrd2Nblk(n)
      BY <2>1
    <3>2. NSect * (fRd.hd + NHead * fRd.cy) \in Int
      <4>1. NHead * fRd.cy \in Int /\ NSect \in Int
        BY <1>0, DiskAssumption
      <4> QED
        BY <1>0, <4>1
    <3> HIDE DEF chs
    <3> QED
      BY <1>0, <3>1, <3>2 DEF Chs2Lba
  <2>2. CASE kind # "rl11"
    <3>1. chs = Lba2Chs(lba)
      BY <2>2
    <3> HIDE DEF chs, lba
    <3> QED
      BY <1>0, <3>1, Geometry
  <2> QED
    BY <2>1, <2>2
<1>2. reg' = [reg EXCEPT !.addr = fRd.addr + n, !.cy = chs.cy, !.hd = chs.hd,
                         !.se = chs.se, !.wc = w]
  BY DEF NormalExit
<1>3. reg \in Regs /\ w \in Int /\ fRd.addr + n \in Int
  BY <1>0 DEF Types
<1> HIDE DEF chs, lba, w
<1>4. /\ reg' \in Regs /\ reg'.fu = reg.fu /\ reg'.addr = fRd.addr + n /\ reg'.wc = w
      /\ reg'.cy = chs.cy /\ reg'.hd = chs.hd /\ reg'.se = chs.se
  BY <1>1, <1>2, <1>3 DEF Regs
<1>5. Chs2Lba(reg') = lba
  BY <1>1, <1>4 DEF Chs2Lba
<1>6. /\ rdy' = TRUE /\ UNCHANGED <<pos, lam>>
      /\ gdisk' = IF ~rdy /\ fRd.id = cur.id THEN gd ELSE gdisk
  BY DEF NormalExit, Done
<1> QED
  BY <1>4, <1>5, <1>6 DEF lba, w

\* The words of a request in range.
LEMMA Words ==
  ASSUME Types, NEW r \in Reqs, InRange(r), r.fu \in Transfer \cup {"rchk"}
  PROVE  /\ Nwrd(r) \in 1 .. r.wc /\ Min({r.wc, Extent(r) * BlkWords}) = Nwrd(r)
         /\ (Overrun(r) <=> r.wc > Extent(r) * BlkWords)
         /\ MovedWords(r) = IF Nwrd(r) <= MemWords - r.addr THEN Nwrd(r)
                            ELSE IF r.addr <= MemWords THEN MemWords - r.addr ELSE 0
<1>0. /\ r.cy \in Nat /\ r.hd \in Nat /\ r.se \in Nat /\ r.addr \in Nat
      /\ r.wc \in Nat \ {0} /\ MemWords \in Nat
  BY ReqsAssumption, DiskAssumption
<1> DEFINE x == Extent(r) * BlkWords
           w == Nwrd(r)
           a == MemWords - r.addr
           m == Min({r.wc, x, a})
<1>1. x >= 1 /\ x \in Int
  BY <1>0, Room, Numbers
<1>2. w = IF r.wc <= x THEN r.wc ELSE x
  BY <1>0, Truncated
<1>3. Overrun(r) <=> r.wc > x
  BY <1>0, Truncated
<1>4. Min({r.wc, x}) = IF r.wc <= x THEN r.wc ELSE x
  BY <1>0, <1>1, MinOfTwo
<1>5. a \in Int
  BY <1>0
<1>6. m = IF r.wc <= x /\ r.wc <= a THEN r.wc ELSE IF x <= a THEN x ELSE a
  BY <1>0, <1>1, <1>5, MinOfThree
<1>7. MovedWords(r) = Max({0, m})
  BY DEF MovedWords
<1> HIDE DEF x, w, m
<1>8. m \in Int
  BY <1>0, <1>1, <1>5, <1>6
<1>9. Max({0, m}) = IF 0 >= m THEN 0 ELSE m
  BY <1>8, MaxOfTwo
<1> QED
  BY <1>0, <1>1, <1>2, <1>3, <1>4, <1>6, <1>7, <1>8, <1>9 DEF x, w

\* The registers after an answer say what has become of the request.
LEMMA ExitExact ==
  ASSUME Types, ~rdy, Given, Copied, Sane, cur.ok, InRange(cur.req),
         cur.req.fu \in Transfer \cup {"rchk"},
         UNCHANGED <<kind, cur, clean>>, NEW n \in Nat, NEW e, NEW gd,
         NormalExit(n, e, gd), n = CountedWords(cur.req), mem' = MemoryAfter(cur.req),
         NEW wce \in BOOLEAN, NEW nxm \in BOOLEAN,
         wce <=> cur.req.fu = "wchk" /\ Disagree(cur.req) # {},
         nxm <=> cur.req.fu # "rchk" /\ MemWords - cur.req.addr < Nwrd(cur.req),
         e = (IF wce THEN {"wce"} ELSE {})
             \cup (IF nxm /\ ~(kind = "rl11" /\ wce) THEN {"nxm"} ELSE {})
  PROVE  CompletionExact'
<1> DEFINE r == cur.req
<1>0. r \in Reqs /\ r.fu = fRd.fu /\ fRd \in Rds /\ kind \in {"rk11", "rl11", "rhrp"}
  BY DiskAssumption DEF Given, Copied, Sane, Types
<1>1. /\ Nwrd(r) \in 1 .. r.wc /\ Min({r.wc, Extent(r) * BlkWords}) = Nwrd(r)
      /\ (Overrun(r) <=> r.wc > Extent(r) * BlkWords)
  BY <1>0, Words
<1>2. /\ rdy' = TRUE /\ reg'.addr = fRd.addr + n
      /\ reg'.wc = (IF kind = "rk11" THEN fRd.wc ELSE fRd.full) - n
      /\ Chs2Lba(reg') = Chs2Lba(fRd) + Nwrd2Nblk(n)
  BY <1>0, ExitFacts
<1>3. /\ fRd.addr = r.addr /\ fRd.wc = Nwrd(r) /\ fRd.full = r.wc
      /\ (fRd.ovr <=> Overrun(r)) /\ Chs2Lba(fRd) = Chs2Lba(r)
  BY DEF Copied, Chs2Lba
<1>4. /\ reg'.addr = r.addr + n /\ reg'.wc = r.wc - n - LostCount(r)
      /\ Chs2Lba(reg') = Chs2Lba(r) + Touched(n)
  <2>1. r.wc \in Nat
    BY <1>0, ReqsAssumption
  <2>2. reg'.wc = r.wc - n - LostCount(r)
    BY <1>1, <1>2, <1>3, <2>1 DEF LostCount
  <2> QED
    BY <1>2, <1>3, <2>2, BlocksTouched
<1>5. err' = ShownErrors(r)
  <2> DEFINE shown == CASE kind = "rk11" -> e \cup (IF fRd.ovr THEN {"ovr"} ELSE {})
                        [] kind = "rl11" -> IF e = {} /\ fRd.ovr THEN {"hnfnd"} ELSE e
                        [] kind = "rhrp" -> Er1OfCs2(e) \cup (IF fRd.ovr THEN {"aoe"} ELSE {})
  <2>1. err' = (IF kind = "rk11" /\ shown = {} THEN cur.err ELSE shown)
    <3>1. Report(shown)
      BY DEF NormalExit
    <3>2. err = cur.err
      BY DEF Given
    <3> HIDE DEF shown
    <3> QED
      BY <3>1, <3>2 DEF Report
  <2>2. ExpectedErrors(r) =
          CASE kind = "rl11" -> IF wce THEN {"wce"} ELSE IF nxm THEN {"nxm"}
                                ELSE IF fRd.ovr THEN {"hnfnd"} ELSE {}
            [] OTHER -> (IF wce THEN {"wce"} ELSE {}) \cup (IF nxm THEN {"nxm"} ELSE {})
                        \cup (IF fRd.ovr THEN {IF kind = "rk11" THEN "ovr" ELSE "aoe"} ELSE {})
    BY <1>1, <1>3 DEF ExpectedErrors
  <2>3. CASE kind = "rk11"
    <3>1. shown = ExpectedErrors(r)
      BY <2>2, <2>3
    <3> QED
      BY <2>1, <2>3, <3>1 DEF ShownErrors
  <2>4. CASE kind = "rl11"
    <3>1. shown = ExpectedErrors(r)
      BY <2>2, <2>4
    <3> QED
      BY <2>1, <2>4, <3>1 DEF ShownErrors
  <2>5. CASE kind = "rhrp"
    <3>1. shown = Er1OfCs2(ExpectedErrors(r)) \cup (ExpectedErrors(r) \cap {"aoe"})
      BY <2>2, <2>5 DEF Er1OfCs2
    <3> QED
      BY <2>1, <2>5, <3>1 DEF ShownErrors
  <2> QED
    BY <1>0, <2>3, <2>4, <2>5
<1>6. /\ (Extent(cur.req))' = Extent(cur.req) /\ (Chs2Lba(cur.req))' = Chs2Lba(cur.req)
      /\ (IsRead(cur.req))' = IsRead(cur.req)
  BY Zenon DEF Extent, Chs2Lba, IsRead
<1>7. (MovedWords(cur.req))' = MovedWords(cur.req)
  BY <1>6, Zenon DEF MovedWords
<1>8. (Disagree(cur.req))' = Disagree(cur.req)
  BY <1>6, <1>7, Zenon DEF Disagree
<1>9. (CountedWords(cur.req))' = CountedWords(cur.req)
  BY <1>6, <1>7, <1>8, Zenon DEF CountedWords
<1>10. (ExpectedErrors(cur.req))' = ExpectedErrors(cur.req)
  BY <1>6, <1>8, Zenon DEF ExpectedErrors
<1>11. /\ (MemoryAfter(cur.req))' = MemoryAfter(cur.req)
       /\ (LostCount(cur.req))' = LostCount(cur.req)
       /\ (ShownErrors(cur.req))' = ShownErrors(cur.req)
  BY <1>6, <1>7, <1>10, Zenon DEF MemoryAfter, LostCount, ShownErrors, Er1OfCs2
<1> QED
  BY <1>4, <1>5, <1>6, <1>9, <1>11, Zenon DEF CompletionExact

\* The handler answers, or queues the transfer.
LEMMA AttnHandlerStep ==
  ASSUME Inv, AttnHandler
  PROVE  Inv'
<1> USE DEF Inv
<1> DEFINE e == HandlerError(fRd)
           setup == e = {} /\ fRd.fu \in Transfer
<1>0. /\ pc = "attn" /\ ~Busy /\ Sane /\ rdma.status = "done" /\ rdma \in Rdmas
      /\ ~Reported /\ ~Mine /\ fRd \in Rds /\ fRd.unit \in Unit
  BY DEF AttnHandler, Handler, Busy, Reported, Mine, Types, Rdmas, Sane, Rds
<1>1. /\ UNCHANGED <<kind, mem, disk, att, fRd, fBuf, cur, clean, ngo, nreset, nclient>>
      /\ pc' = "idle"
      /\ rdma' = (IF setup THEN [Idle EXCEPT !.status = "busy"] ELSE rdma)
      /\ wprot' = [wprot EXCEPT ![fRd.unit] = @ \/ (e = {} /\ fRd.fu = "wlock")]
  BY <1>0 DEF AttnHandler
<1>2. /\ setup => UNCHANGED <<fpga, gdisk>>
      /\ ~setup /\ e = {} /\ fRd.fu = "rchk" => NormalExit(fRd.wc, {}, gdisk)
      /\ ~setup /\ ~(e = {} /\ fRd.fu = "rchk") => ErrorExit(e)
  <2>1. CASE setup
    BY <2>1 DEF AttnHandler, Transfer
  <2>2. CASE ~setup /\ e = {} /\ fRd.fu = "rchk"
    BY <2>2 DEF AttnHandler
  <2>3. CASE ~setup /\ ~(e = {} /\ fRd.fu = "rchk")
    BY <2>3 DEF AttnHandler
  <2> QED
    BY <2>1, <2>2, <2>3
<1>3. clean => ~rdy /\ Copied /\ e = HandlerError(cur.req)
  <2>1. clean => ~rdy /\ Copied
    BY <1>0 DEF Current
  <2> QED
    BY <2>1, SameErrors DEF Copied
<1>4. wprot' \in [Unit -> BOOLEAN]
  BY <1>0, <1>1 DEF Types
<1>5. fRd.fu # "wlock" => wprot' = wprot
  BY <1>0, <1>1 DEF Types
<1>6. ~Reported'
  BY <1>1 DEF Reported
<1>7. /\ On(mem', Address) /\ On(cur'.mem, Address) /\ On(disk', Unit)
      /\ \A u \in Unit : On(disk'[u], Word)
  BY <1>1 DEF Types
<1> HIDE DEF e
<1>8. CASE setup
  <2>1. /\ UNCHANGED <<rdy, reg, err, er1, pos, lam, gdisk>> /\ wprot' = wprot
        /\ rdma' = [Idle EXCEPT !.status = "busy"]
    BY <1>1, <1>2, <1>5, <1>8 DEF fpga, Transfer
  <2>2. rdma'.status = "busy" /\ rdma'.done = 0 /\ rdma' \in Rdmas
    BY <2>1 DEF Idle, Rdmas
  <2>3. Types'
    BY <1>1, <1>4, <1>7, <2>1, <2>2 DEF Types
  <2>4. Given'
    BY <1>1, <2>1 DEF Given, InRange
  <2>5. InRange(fRd) /\ att[fRd.unit]
    BY <1>0, <1>8, NoErrorInRange DEF e
  <2>6. Handler'
    <3>1. Sane' /\ (InRange(fRd))'
      BY <1>0, <1>1, <2>5 DEF Sane, InRange
    <3>2. fRd.wc \in 1 .. fRd.full /\ fRd.full \in Nat
      BY <1>0, <2>5 DEF Sane, Rds
    <3> QED
      BY <1>1, <1>8, <2>2, <3>1, <3>2 DEF Handler, Busy
  <2>7. Mine' /\ Busy' /\ SoFar' = 0
    BY <1>1, <1>6, <2>2 DEF Mine, Busy, SoFar
  <2>8. Copied' <=> Copied
    BY <1>1 DEF Copied, Nwrd, Overrun, Extent, Chs2Lba
  <2>9. (HandlerError(cur.req))' = HandlerError(cur.req)
    BY <1>1, <2>1 DEF HandlerError, BadChs
  <2>10. Current'
    <3>1. clean => cur.ok
      BY <1>3, <1>8 DEF Current
    <3> QED
      BY <1>1, <1>3, <2>1, <2>5, <2>7, <2>8, <2>9, <3>1 DEF Current
  <2>11. Progress'
    <3> SUFFICES ASSUME clean PROVE Progress'
      BY <1>1 DEF Progress
    <3>1. mem = cur.mem
      BY <1>0, <1>3 DEF Current
    <3>2. Moved(0)' = [a \in Address |-> cur.mem[a]]
      <4>1. cur' = cur
        BY <1>1
      <4>2. cur.req.addr \in Int
        BY DEF Types, Regs
      <4> QED
        BY <4>1, <4>2 DEF Moved, Address
    <3>3. cur.mem = [a \in Address |-> cur.mem[a]]
      BY DEF Types, On
    <3>4. mem' = Moved(0)'
      BY <1>1, <3>1, <3>2, <3>3
    <3> QED
      BY <1>1, <2>2, <2>7, <3>4 DEF Progress
  <2>12. Files'
    BY <1>0, <1>1, <1>6, <2>1 DEF Files
  <2>13. CompletionExact'
    BY <1>1, <2>1, CompletedQuiet
  <2> QED
    BY <2>3, <2>4, <2>6, <2>10, <2>11, <2>12, <2>13
<1>9. ASSUME ~setup, rdy' = TRUE, reg' \in Regs, UNCHANGED <<pos, lam, gdisk>>,
             CompletionExact'
      PROVE  Inv'
  <2>1. rdma' = rdma
    BY <1>1, <1>9
  <2>2. Types'
    <3>1. On(gdisk', Unit) /\ \A u \in Unit : On(gdisk'[u], Word)
      BY <1>9 DEF Types
    <3> QED
      BY <1>1, <1>4, <1>7, <1>9, <2>1, <3>1 DEF Types
  <2>3. Given'
    BY <1>9 DEF Given
  <2>4. ~Busy' /\ ~Mine'
    BY <1>0, <2>1 DEF Busy, Mine
  <2>5. Handler'
    BY <1>1, <2>4 DEF Handler
  <2>6. Current' /\ Progress'
    BY <1>1, <1>9, <2>4 DEF Current, Progress
  <2>7. Files'
    BY <1>0, <1>1, <1>6, <1>9 DEF Files
  <2> QED
    BY <1>9, <2>2, <2>3, <2>5, <2>6, <2>7
<1>10. CASE e = {} /\ fRd.fu = "rchk"
  <2>1. ~setup /\ NormalExit(fRd.wc, {}, gdisk)
    BY <1>2, <1>10 DEF Transfer
  <2>2. InRange(fRd)
    BY <1>0, <1>10, NoErrorInRange DEF e
  <2>3. fRd.wc \in Nat
    BY <1>0, <2>2 DEF Sane, Rds
  <2>4. rdy' = TRUE /\ reg' \in Regs /\ UNCHANGED <<pos, lam>> /\ gdisk' = gdisk
    BY <1>0, <2>1, <2>3, ExitFacts
  <2>5. CASE clean
    <3> DEFINE r == cur.req
    <3>1. ~rdy /\ Copied /\ cur.ok /\ r.fu = "rchk" /\ InRange(r) /\ mem = cur.mem
      BY <1>0, <1>3, <1>10, <2>2, <2>5 DEF Current, Copied, InRange
    <3>2. r \in Reqs
      BY <3>1 DEF Given
    <3>3. fRd.wc = CountedWords(r)
      <4>1. Min({r.wc, Extent(r) * BlkWords}) = Nwrd(r)
        BY <3>1, <3>2, Words
      <4> QED
        BY <3>1, <4>1 DEF CountedWords, Copied
    <3>4. mem' = MemoryAfter(r)
      <4>1. ~IsRead(r)
        BY <3>1 DEF IsRead
      <4>2. cur.mem = [a \in Address |-> cur.mem[a]]
        BY DEF Types, On
      <4> QED
        BY <1>1, <3>1, <4>1, <4>2 DEF MemoryAfter
    <3>5. r.fu \in Transfer \cup {"rchk"}
      BY <3>1
    <3>6. {} = (IF FALSE THEN {"wce"} ELSE {})
               \cup (IF FALSE /\ ~(kind = "rl11" /\ FALSE) THEN {"nxm"} ELSE {})
      OBVIOUS
    <3>7. /\ FALSE <=> r.fu = "wchk" /\ Disagree(r) # {}
          /\ FALSE <=> r.fu # "rchk" /\ MemWords - r.addr < Nwrd(r)
      BY <3>1
    <3>8. CompletionExact'
      BY <1>0, <1>1, <2>1, <2>3, <3>1, <3>3, <3>4, <3>5, <3>6, <3>7, ExitExact
    <3> QED
      BY <1>9, <2>1, <2>4, <3>8
  <2>6. CASE ~clean
    <3>1. CompletionExact'
      BY <1>1, <2>6 DEF CompletionExact
    <3> QED
      BY <1>9, <2>1, <2>4, <3>1
  <2> QED
    BY <2>5, <2>6
<1>11. CASE ~setup /\ ~(e = {} /\ fRd.fu = "rchk")
  <2>1. rdy' = TRUE /\ reg' = reg /\ UNCHANGED <<pos, lam>> /\ gdisk' = gdisk
    BY <1>2, <1>11 DEF ErrorExit, Done
  <2>2. reg' \in Regs
    BY <2>1 DEF Types
  <2>3. clean => ~(reg.fu \in Transfer \cup {"rchk"} /\ cur.ok)
    BY <1>3, <1>11 DEF Current, Given, Copied
  <2>4. CompletionExact'
    BY <1>1, <2>1, <2>3 DEF CompletionExact
  <2> QED
    BY <1>9, <1>11, <2>1, <2>2, <2>4
<1> QED
  BY <1>8, <1>10, <1>11

-----------------------------------------------------------------------------
(* The transfer.                                                            *)

\* Replacing the words of one unit leaves a file of words for every unit.
LEMMA Replaced ==
  ASSUME NEW f, On(f, Unit), \A u \in Unit : On(f[u], Word), NEW u \in Unit, NEW d,
         On(d, Word)
  PROVE  /\ On([f EXCEPT ![u] = d], Unit)
         /\ \A v \in Unit : On([f EXCEPT ![u] = d][v], Word)
<1> DEFINE g == [f EXCEPT ![u] = d]
<1>1. g = [v \in Unit |-> IF v = u THEN d ELSE f[v]]
  BY DEF On
<1>2. On(g, Unit)
  BY <1>1 DEF On
<1>3. \A v \in Unit : g[v] = IF v = u THEN d ELSE f[v]
  BY <1>1
<1> HIDE DEF g
<1>4. \A v \in Unit : On(g[v], Word)
  BY <1>3
<1> QED
  BY <1>2, <1>4 DEF g

LEMMA GhostOn ==
  ASSUME Types, NEW n
  PROVE  On(GhostDisk(n), Unit) /\ \A u \in Unit : On(GhostDisk(n)[u], Word)
<1>1. On(gdisk, Unit) /\ (\A u \in Unit : On(gdisk[u], Word)) /\ cur.req.unit \in Unit
  BY DEF Types, Regs
<1>2. CASE cur.req.fu # "write"
  BY <1>1, <1>2 DEF GhostDisk
<1>3. CASE cur.req.fu = "write"
  <2> DEFINE d == Written(gdisk[cur.req.unit], Chs2Lba(cur.req),
                    Padded([i \in 1 .. n |-> cur.mem[cur.req.addr + i - 1]], n))
  <2>1. On(d, Word)
    BY DEF On, Written
  <2>2. GhostDisk(n) = [gdisk EXCEPT ![cur.req.unit] = d]
    BY <1>3 DEF GhostDisk
  <2> HIDE DEF d
  <2> DEFINE g == [gdisk EXCEPT ![cur.req.unit] = d]
  <2>3. On(g, Unit) /\ \A u \in Unit : On(g[u], Word)
    BY <1>1, <2>1, Replaced
  <2> QED
    BY <2>2, <2>3, Zenon
<1> QED
  BY <1>2, <1>3

\* The size of a chunk, and the words of it that there is memory for.
LEMMA Chunk ==
  ASSUME Types, Handler, Busy, pc = "idle",
         NEW next, next = Min({fRd.wc - rdma.done, ChunkSize}),
         NEW n, n = Max({0, Min({next, MemWords - (fRd.addr + rdma.done)})})
  PROVE  /\ next \in 1 .. fRd.wc - rdma.done /\ n \in 0 .. next
         /\ \/ n = next /\ fRd.addr + rdma.done + n <= MemWords
            \/ n < next /\ fRd.addr + rdma.done + n = MemWords
            \/ n < next /\ rdma.done = 0 /\ n = 0 /\ fRd.addr >= MemWords
<1>1. /\ fRd.wc \in Int /\ fRd.addr \in Nat /\ rdma.done \in Nat /\ rdma.done < fRd.wc
      /\ (rdma.done = 0 \/ fRd.addr + rdma.done <= MemWords)
      /\ ChunkSize \in Nat \ {0} /\ MemWords \in Nat
  BY DiskAssumption DEF Types, Rdmas, Handler, Sane, Rds
<1>2. next = IF fRd.wc - rdma.done <= ChunkSize THEN fRd.wc - rdma.done ELSE ChunkSize
  BY <1>1, MinOfTwo
<1>3. next \in 1 .. fRd.wc - rdma.done /\ next \in Int
  BY <1>1, <1>2
<1> DEFINE room == MemWords - (fRd.addr + rdma.done)
           m == Min({next, room})
<1>4. room \in Int
  BY <1>1
<1>5. m = IF next <= room THEN next ELSE room
  BY <1>3, <1>4, MinOfTwo
<1>6. n = Max({0, m})
  OBVIOUS
<1> HIDE DEF m
<1>7. m \in Int
  BY <1>3, <1>4, <1>5
<1>8. n = IF 0 >= m THEN 0 ELSE m
  BY <1>6, <1>7, MaxOfTwo
<1> QED
  BY <1>1, <1>3, <1>5, <1>8

\* Without a read memory stays as it was.
LEMMA MovedNothing ==
  ASSUME Types, ~IsRead(cur.req), NEW n
  PROVE  Moved(n) = cur.mem
<1>1. cur.mem = [a \in Address |-> cur.mem[a]]
  BY DEF Types, On
<1>2. Moved(n) = [a \in Address |-> cur.mem[a]]
  BY DEF Moved
<1> QED
  BY <1>1, <1>2

\* A chunk is moved; the list of the last one may report the end as well.
LEMMA RdmaExecStep ==
  ASSUME Inv, RdmaExec
  PROVE  Inv'
<1> USE DEF Inv
<1> DEFINE next == Min({fRd.wc - rdma.done, ChunkSize})
           a == fRd.addr + rdma.done
           n == Max({0, Min({next, MemWords - a})})
           src == IF rdma.done = 0 THEN Blocks(fRd.unit, Chs2Lba(fRd), fRd.wc) ELSE fBuf
           fin == rdma.done + next = fRd.wc /\ fRd.fu # "wchk" /\ n = next
           lost == IsRead(fRd) /\ rdma.done = 0 /\ ~att[fRd.unit]
           r == cur.req
           B == Chs2Lba(cur.req) * BlkWords
           S == 1 .. Nwrd2Nblk(fRd.wc) * BlkWords
<1>0. /\ pc = "idle" /\ rdma.status = "busy" /\ Busy /\ ~Reported /\ Mine
      /\ UNCHANGED <<kind, disk, att, wprot, fRd, cur, clean, ngo, nreset, nclient>>
  BY DEF RdmaExec, Busy, Mine, Reported
<1>1. /\ Sane /\ InRange(fRd) /\ fRd.fu \in Transfer /\ rdma.done < fRd.wc
      /\ fRd \in Rds /\ rdma \in Rdmas /\ rdma.done \in Nat
  BY <1>0 DEF Handler, Sane, Types, Rdmas
<1>2. /\ fRd.wc \in Nat /\ fRd.wc >= 1 /\ fRd.wc <= fRd.full /\ fRd.addr \in Nat
      /\ fRd.unit \in Unit /\ BlkWords \in Nat /\ MemWords \in Nat
  BY <1>1, DiskAssumption DEF Sane, Rds
<1>3. /\ next \in 1 .. fRd.wc - rdma.done /\ n \in 0 .. next
      /\ \/ n = next /\ fRd.addr + rdma.done + n <= MemWords
         \/ n < next /\ fRd.addr + rdma.done + n = MemWords
         \/ n < next /\ rdma.done = 0 /\ n = 0 /\ fRd.addr >= MemWords
  BY <1>0, Chunk
<1>4. clean => /\ ~rdy /\ Copied /\ cur.ok /\ att[fRd.unit] /\ cur.disk = gdisk[r.unit]
               /\ (cur.ok <=> HandlerError(r) = {}) /\ gdisk = disk
  BY <1>0 DEF Current, Files
<1>5. /\ On(cur'.mem, Address) /\ On(disk', Unit) /\ \A u \in Unit : On(disk'[u], Word)
  BY <1>0 DEF Types
<1>6. Sane' /\ (InRange(fRd))'
  BY <1>0, <1>1 DEF Sane, InRange
<1>7. CASE lost
  <2>1. pc' = "dead" /\ UNCHANGED <<rdy, reg, err, er1, pos, lam, mem, fBuf, rdma, gdisk>>
    BY <1>7 DEF RdmaExec, fpga
  <2>2. ~clean /\ nclient # 0
    BY <1>2, <1>4, <1>7, <1>0 DEF Handler
  <2>3. Types'
    <3>1. On(mem', Address) /\ On(gdisk', Unit) /\ \A u \in Unit : On(gdisk'[u], Word)
      BY <2>1 DEF Types
    <3> QED
      BY <1>0, <1>5, <2>1, <3>1 DEF Types
  <2>4. Given'
    BY <1>0, <2>1 DEF Given, InRange
  <2>5. Handler'
    BY <1>0, <1>6, <2>1, <2>2 DEF Handler, Busy
  <2>6. Current' /\ Progress' /\ Files' /\ CompletionExact'
    BY <1>0, <2>2 DEF Current, Progress, Files, CompletionExact
  <2> QED
    BY <2>3, <2>4, <2>5, <2>6
<1>8. CASE ~lost
  <2>1. /\ pc' = "post" /\ rdma' = [rdma EXCEPT !.next = next, !.ndone = n, !.labo = n # next]
        /\ IF fin THEN NormalExit(fRd.wc, {}, GhostDisk(fRd.wc)) ELSE UNCHANGED <<fpga, gdisk>>
    BY <1>8 DEF RdmaExec
  <2>2. IsRead(fRd) => /\ fBuf' = src
                       /\ mem' = [x \in Address |-> IF x \in a .. a + n - 1
                                             THEN src[rdma.done + x - a + 1] ELSE mem[x]]
    BY <1>8 DEF RdmaExec
  <2>3. ~IsRead(fRd) =>
          /\ mem' = mem
          /\ fBuf' = [i \in 1 .. rdma.done + n |->
                        IF i <= rdma.done THEN fBuf[i] ELSE mem[fRd.addr + i - 1]]
    BY <1>8 DEF RdmaExec
  <2> HIDE DEF next, n, src
  <2>4. /\ rdma' \in Rdmas /\ rdma'.status = "busy" /\ rdma'.done = rdma.done
        /\ rdma'.next = next /\ rdma'.ndone = n /\ (rdma'.labo <=> n # next)
    <3>1. next \in Nat /\ n \in Nat
      BY <1>1, <1>2, <1>3
    <3>2. rdma \in Rdmas /\ rdma' = [rdma EXCEPT !.next = next, !.ndone = n, !.labo = n # next]
      BY <1>1, <2>1
    <3> HIDE DEF Inv
    <3> QED
      BY <1>0, <3>1, <3>2 DEF Rdmas
  <2>5. (Reported' <=> fin) /\ Busy' /\ (Mine' <=> ~fin) /\ SoFar' = rdma.done + n
    BY <1>0, <2>1, <2>4 DEF Reported, Fused, Busy, Mine, SoFar
  <2>6. Handler'
    BY <1>0, <1>1, <1>2, <1>3, <1>6, <2>1, <2>4, <2>5 DEF Handler
  <2>7. /\ fin => /\ rdy' = TRUE /\ reg' \in Regs /\ UNCHANGED <<pos, lam>>
                  /\ gdisk' = IF ~rdy /\ fRd.id = cur.id THEN GhostDisk(fRd.wc) ELSE gdisk
        /\ ~fin => UNCHANGED <<rdy, reg, err, er1, pos, lam, gdisk>>
    BY <1>1, <1>2, <2>1, ExitFacts DEF fpga
  <2>8. Types'
    <3>1. On(mem', Address)
      BY <2>2, <2>3 DEF Types, On
    <3>2. On(gdisk', Unit) /\ \A u \in Unit : On(gdisk'[u], Word)
      <4>1. gdisk' = gdisk \/ gdisk' = GhostDisk(fRd.wc)
        BY <2>7
      <4>2. CASE gdisk' = gdisk
        BY <4>2, Zenon DEF Types
      <4>3. CASE gdisk' = GhostDisk(fRd.wc)
        BY <4>3, GhostOn, Zenon
      <4> QED
        BY <4>1, <4>2, <4>3
    <3>3. rdy' \in BOOLEAN /\ lam' \in BOOLEAN /\ reg' \in Regs
      BY <2>7 DEF Types
    <3> QED
      BY <1>0, <1>5, <2>1, <2>4, <3>1, <3>2, <3>3 DEF Types
  <2>9. Given'
    BY <1>0, <2>7 DEF Given, InRange
  <2>10. CASE ~clean
    <3>1. Current' /\ Progress' /\ Files' /\ CompletionExact'
      BY <1>0, <2>10 DEF Current, Progress, Files, CompletionExact
    <3> QED
      BY <2>6, <2>8, <2>9, <3>1
  <2>11. CASE clean
    <3>1. /\ fRd.addr = r.addr /\ Chs2Lba(fRd) = Chs2Lba(r) /\ fRd.fu = r.fu
          /\ fRd.unit = r.unit /\ (IsRead(fRd) <=> IsRead(r)) /\ B \in Int
      <4>1. Copied
        BY <1>4, <2>11
      <4>2. Chs2Lba(fRd) \in Nat
        BY <1>1, RdNumbers
      <4> QED
        BY <1>2, <4>1, <4>2 DEF Copied, Chs2Lba, IsRead
    <3>2. mem = Moved(rdma.done)
      BY <1>0, <2>11 DEF Progress, SoFar
    <3>3. IsRead(r) => src = [i \in S |-> cur.disk[B + i - 1]]
      <4>1. CASE rdma.done = 0
        <5>1. disk[fRd.unit] = cur.disk
          BY <1>4, <2>11, <3>1
        <5>2. src = [i \in S |-> disk[fRd.unit][Chs2Lba(fRd) * BlkWords + i - 1]]
          BY <4>1 DEF src, Blocks
        <5> QED
          BY <3>1, <5>1, <5>2
      <4>2. CASE rdma.done > 0
        <5>1. src = fBuf
          BY <1>1, <4>2 DEF src
        <5> QED
          BY <1>0, <2>11, <4>2, <5>1 DEF Progress
      <4> QED
        BY <1>1, <4>1, <4>2
    <3>4. fRd.wc <= Nwrd2Nblk(fRd.wc) * BlkWords /\ Nwrd2Nblk(fRd.wc) * BlkWords \in Nat
      BY <1>2, BlockCount
    <3>5. mem' = Moved(rdma.done + n)
      <4>1. CASE IsRead(r)
        <5> DEFINE T == [i \in S |-> cur.disk[B + i - 1]]
        <5>1. src = T /\ mem' = [x \in Address |-> IF x \in a .. a + n - 1
                                             THEN src[rdma.done + x - a + 1] ELSE mem[x]]
          BY <2>2, <3>1, <3>3, <4>1
        <5>2. ASSUME NEW x \in Address, x \in a .. a + n - 1
              PROVE  src[rdma.done + x - a + 1] = cur.disk[B + x - r.addr]
          <6>1. x \in Int /\ rdma.done + x - a + 1 = x - r.addr + 1
            BY <1>1, <1>2, <3>1, <5>2 DEF Address
          <6>2. x - r.addr + 1 \in S
            BY <1>1, <1>2, <1>3, <3>1, <3>4, <5>2, <6>1
          <6>3. T[x - r.addr + 1] = cur.disk[B + (x - r.addr + 1) - 1]
            BY <6>2
          <6>4. B + (x - r.addr + 1) - 1 = B + x - r.addr
            BY <1>2, <3>1, <6>1
          <6> QED
            BY <5>1, <6>1, <6>3, <6>4
        <5>3. ASSUME NEW x \in Address
              PROVE  mem[x] = IF x - r.addr \in 0 .. rdma.done - 1
                              THEN cur.disk[B + x - r.addr] ELSE cur.mem[x]
          BY <3>2, <4>1 DEF Moved
        <5>4. ASSUME NEW x \in Address
              PROVE  mem'[x] = IF x - r.addr \in 0 .. (rdma.done + n) - 1
                               THEN cur.disk[B + x - r.addr] ELSE cur.mem[x]
          <6>1. x \in Int
            BY DEF Address
          <6>2. CASE x \in a .. a + n - 1
            <7>1. mem'[x] = cur.disk[B + x - r.addr]
              BY <5>1, <5>2, <6>2
            <7>2. x - r.addr \in 0 .. (rdma.done + n) - 1
              BY <1>1, <1>2, <1>3, <3>1, <6>1, <6>2
            <7> QED
              BY <7>1, <7>2
          <6>3. CASE x \notin a .. a + n - 1
            <7>1. mem'[x] = mem[x]
              BY <5>1, <6>3
            <7>2. x - r.addr \in 0 .. (rdma.done + n) - 1 <=> x - r.addr \in 0 .. rdma.done - 1
              BY <1>1, <1>2, <1>3, <3>1, <6>1, <6>3
            <7> QED
              BY <5>3, <7>1, <7>2
          <6> QED
            BY <6>2, <6>3
        <5> DEFINE M(x) == IF IsRead(r) /\ x - r.addr \in 0 .. (rdma.done + n) - 1
                           THEN cur.disk[B + x - r.addr] ELSE cur.mem[x]
        <5>5. Moved(rdma.done + n) = [x \in Address |-> M(x)]
          BY Zenon DEF Moved
        <5>6. mem' = [x \in Address |-> mem'[x]]
          BY <2>8 DEF Types, On
        <5>7. \A x \in Address : mem'[x] = M(x)
          BY <4>1, <5>4
        <5> HIDE DEF M
        <5> QED
          BY <5>5, <5>6, <5>7
      <4>2. CASE ~IsRead(r)
        BY <2>3, <3>1, <3>2, <4>2, MovedNothing
      <4> QED
        BY <4>1, <4>2
    <3>6. ~IsRead(r) => \A i \in 1 .. rdma.done + n : fBuf'[i] = cur.mem[r.addr + i - 1]
      <4> SUFFICES ASSUME ~IsRead(r), NEW i \in 1 .. rdma.done + n
                   PROVE  fBuf'[i] = cur.mem[r.addr + i - 1]
        OBVIOUS
      <4>1. mem = cur.mem
        BY <3>2, MovedNothing
      <4>2. \A j \in 1 .. rdma.done : fBuf[j] = cur.mem[r.addr + j - 1]
        BY <1>0, <2>11 DEF Progress, SoFar
      <4>3. fBuf'[i] = IF i <= rdma.done THEN fBuf[i] ELSE mem[fRd.addr + i - 1]
        BY <2>3, <3>1
      <4>4. i \in Nat /\ i >= 1
        BY <1>1, <1>3
      <4> QED
        BY <1>1, <3>1, <4>1, <4>2, <4>3, <4>4
    <3>7. IsRead(r) => fBuf' = [i \in S |-> cur.disk[B + i - 1]]
      BY <2>2, <3>1, <3>3
    <3>8. /\ cur' = cur /\ fRd' = fRd /\ clean' = clean /\ (Copied' <=> Copied)
          /\ (IsRead(cur.req))' = IsRead(cur.req) /\ (Chs2Lba(cur.req))' = Chs2Lba(cur.req)
      BY <1>0 DEF Copied, Nwrd, Overrun, Extent, Chs2Lba, IsRead
    <3>9. CASE ~fin
      <4>1. (HandlerError(cur.req))' = HandlerError(cur.req)
        BY <1>0, <2>7, <3>9 DEF HandlerError, BadChs
      <4>2. Current'
        <5>1. rdy' = FALSE /\ gdisk' = gdisk
          BY <1>4, <2>7, <2>11, <3>9 DEF Types
        <5> QED
          BY <1>0, <1>4, <2>1, <2>5, <2>11, <3>8, <3>9, <4>1, <5>1 DEF Current
      <4>3. Progress'
        <5>1. (Moved(SoFar))' = Moved(rdma.done + n)
          BY <2>5, <3>8, Zenon DEF Moved
        <5>2. mem' = (Moved(SoFar))'
          BY <3>5, <5>1
        <5>3. IsRead(cur.req)' => fBuf' = [i \in 1 .. Nwrd2Nblk(fRd'.wc) * BlkWords |->
                                             cur'.disk[Chs2Lba(cur.req)' * BlkWords + i - 1]]
          BY <3>7, <3>8, Zenon
        <5>4. ~IsRead(cur.req)' =>
                \A i \in 1 .. SoFar' : fBuf'[i] = cur'.mem[cur'.req.addr + i - 1]
          BY <2>5, <3>6, <3>8, Zenon
        <5> QED
          BY <5>2, <5>3, <5>4, Zenon DEF Progress
      <4>4. Files'
        BY <1>0, <1>4, <2>5, <2>7, <2>11, <3>9 DEF Files
      <4>5. CompletionExact'
        <5>1. ~rdy'
          BY <1>4, <2>7, <2>11, <3>9
        <5> QED
          BY <5>1 DEF CompletionExact
      <4> QED
        BY <2>6, <2>8, <2>9, <4>2, <4>3, <4>4, <4>5
    <3>10. CASE fin
      <4>0. /\ rdy' = TRUE /\ gdisk' = GhostDisk(fRd.wc) /\ rdma.done + n = fRd.wc
            /\ fRd.addr + fRd.wc <= MemWords /\ fRd.fu # "wchk"
        BY <1>1, <1>2, <1>3, <1>4, <2>7, <2>11, <3>10 DEF Copied
      <4>1. Current' /\ Progress'
        BY <1>0, <1>4, <2>1, <2>5, <2>11, <3>8, <3>10, <4>0 DEF Current, Progress
      <4>2. Files'
        <5>1. CASE fRd.fu = "write"
          <6> DEFINE P == Padded(fBuf', fRd.wc)
                     Q == Padded([i \in 1 .. fRd.wc |-> cur.mem[r.addr + i - 1]], fRd.wc)
          <6>1. ~IsRead(r)
            BY <3>1, <5>1 DEF IsRead
          <6>2. \A i \in S : i <= fRd.wc =>
                  fBuf'[i] = [j \in 1 .. fRd.wc |-> cur.mem[r.addr + j - 1]][i]
            BY <1>2, <3>4, <3>6, <4>0, <6>1
          <6>3. P = Q
            BY <6>2 DEF Padded
          <6>4. gdisk' = [disk EXCEPT ![fRd.unit] = Written(disk[fRd.unit], Chs2Lba(fRd), Q)]
            BY <1>4, <2>11, <3>1, <4>0, <5>1 DEF GhostDisk
          <6>5. Reported' /\ fRd' = fRd /\ disk' = disk
            BY <1>0, <2>5, <3>10
          <6>6. (Chs2Lba(fRd))' = Chs2Lba(fRd)
            BY <6>5 DEF Chs2Lba
          <6>7. (Padded(fBuf, fRd.wc))' = P
            BY <6>5, Zenon DEF Padded
          <6>8. (Written(disk[fRd.unit], Chs2Lba(fRd), Padded(fBuf, fRd.wc)))'
                  = Written(disk[fRd.unit], Chs2Lba(fRd), Q)
            BY <6>3, <6>5, <6>6, <6>7, Zenon DEF Written
          <6> QED
            BY <5>1, <6>4, <6>5, <6>8, Zenon DEF Files
        <5>2. CASE fRd.fu # "write"
          BY <1>0, <1>4, <2>11, <3>1, <4>0, <5>2 DEF Files, GhostDisk
        <5> QED
          BY <5>1, <5>2
      <4>3. CompletionExact'
        <5>1. r \in Reqs /\ InRange(r) /\ r.fu \in Transfer /\ Copied
          BY <1>1, <1>4, <2>11 DEF Given, Copied, InRange
        <5>2. r.fu # "wchk" /\ r.fu # "rchk" /\ r.addr \in Nat
          BY <1>2, <3>1, <4>0, <5>1 DEF Transfer
        <5>3. fRd.wc = Nwrd(r) /\ Nwrd(r) <= MemWords - r.addr
          BY <1>2, <3>1, <4>0, <5>1 DEF Copied
        <5>4. fRd.wc = MovedWords(r) /\ fRd.wc = CountedWords(r)
          BY <5>1, <5>2, <5>3, Words DEF CountedWords
        <5>5. mem' = MemoryAfter(r)
          <6>1. mem' = Moved(MovedWords(r))
            BY <3>5, <4>0, <5>4
          <6> QED
            BY <6>1, Zenon DEF Moved, MemoryAfter
        <5>6. NormalExit(fRd.wc, {}, GhostDisk(fRd.wc))
          BY <2>1, <3>10
        <5>7. {} = (IF FALSE THEN {"wce"} ELSE {})
                   \cup (IF FALSE /\ ~(kind = "rl11" /\ FALSE) THEN {"nxm"} ELSE {})
          OBVIOUS
        <5>8. /\ FALSE <=> r.fu = "wchk" /\ Disagree(r) # {}
              /\ FALSE <=> r.fu # "rchk" /\ MemWords - r.addr < Nwrd(r)
          BY <1>2, <5>2, <5>3
        <5>9. Types /\ ~rdy /\ Given /\ Copied /\ Sane /\ cur.ok
          BY <1>1, <1>4, <2>11
        <5>10. UNCHANGED <<kind, cur, clean>>
          BY <1>0
        <5> QED
          BY <1>2, <5>1, <5>4, <5>5, <5>6, <5>7, <5>8, <5>9, <5>10, ExitExact
      <4> QED
        BY <2>6, <2>8, <2>9, <4>1, <4>2, <4>3
    <3> QED
      BY <3>9, <3>10
  <2> QED
    BY <2>10, <2>11
<1> QED
  BY <1>7, <1>8

\* WriteCheck() counts at most the words moved, all of them if none differs.
LEMMA CheckRange ==
  ASSUME NEW n \in Nat
  PROVE  WriteCheck(n) \in 0 .. n
<1> DEFINE d == Blocks(fRd.unit, Chs2Lba(fRd), n)
           bad == {i \in 1 .. n : d[i] # fBuf[i]}
<1>1. WriteCheck(n) = IF bad = {} THEN n ELSE Min(bad) - 1
  BY Zenon DEF WriteCheck
<1>2. bad \subseteq 1 .. n /\ bad \subseteq Nat
  OBVIOUS
<1> HIDE DEF bad
<1>3. bad # {} => Min(bad) \in bad
  BY <1>2, Least
<1>4. CASE bad = {}
  BY <1>1, <1>4
<1>5. CASE bad # {}
  <2> DEFINE b == Min(bad)
  <2>1. b \in 1 .. n /\ WriteCheck(n) = b - 1
    BY <1>1, <1>2, <1>3, <1>5
  <2> HIDE DEF b
  <2> QED
    BY <2>1
<1> QED
  BY <1>4, <1>5

\* It finds the first word that differs.
LEMMA CheckExact ==
  ASSUME NEW n \in Nat, NEW D \in SUBSET (0 .. n - 1),
         \A i \in 1 .. n : i - 1 \in D <=> Blocks(fRd.unit, Chs2Lba(fRd), n)[i] # fBuf[i]
  PROVE  /\ WriteCheck(n) # n <=> D # {}
         /\ D # {} => WriteCheck(n) = Min(D)
<1> DEFINE d == Blocks(fRd.unit, Chs2Lba(fRd), n)
           bad == {i \in 1 .. n : d[i] # fBuf[i]}
<1>1. WriteCheck(n) = IF bad = {} THEN n ELSE Min(bad) - 1
  BY Zenon DEF WriteCheck
<1>2. bad \subseteq 1 .. n /\ bad \subseteq Nat /\ D \subseteq 0 .. n - 1 /\ D \subseteq Nat
  OBVIOUS
<1>3. \A i \in 1 .. n : i \in bad <=> i - 1 \in D
  OBVIOUS
<1> HIDE DEF bad
<1>4. bad # {} <=> D # {}
  <2>1. ASSUME NEW i \in bad PROVE D # {}
    BY <1>2, <1>3
  <2>2. ASSUME NEW i \in D PROVE bad # {}
    <3>1. i + 1 \in 1 .. n /\ (i + 1) - 1 = i
      BY <1>2
    <3>2. i + 1 \in bad
      BY <1>3, <3>1
    <3> QED
      BY <3>2
  <2> QED
    BY <2>1, <2>2
<1>5. CASE bad = {}
  BY <1>1, <1>4, <1>5
<1>6. CASE bad # {}
  <2>1. Min(bad) \in bad /\ \A k \in bad : Min(bad) <= k
    BY <1>2, <1>6, Least
  <2>2. Min(D) \in D /\ \A k \in D : Min(D) <= k
    BY <1>2, <1>4, <1>6, Least
  <2> DEFINE b == Min(bad)
             m == Min(D)
  <2>3. b \in 1 .. n /\ m \in 0 .. n - 1 /\ b \in bad /\ m \in D
    BY <1>2, <2>1, <2>2
  <2>4. (\A k \in bad : b <= k) /\ (\A k \in D : m <= k)
    BY <2>1, <2>2
  <2> HIDE DEF b, m
  <2>5. b - 1 \in D
    BY <1>3, <2>3
  <2>6. m + 1 \in bad
    <3>1. m + 1 \in 1 .. n /\ (m + 1) - 1 = m
      BY <2>3
    <3> QED
      BY <1>3, <2>3, <3>1
  <2>7. b - 1 = m
    <3>1. m <= b - 1 /\ b <= m + 1
      BY <2>4, <2>5, <2>6
    <3> QED
      BY <2>3, <3>1
  <2>8. WriteCheck(n) = b - 1
    BY <1>1, <1>6 DEF b
  <2> QED
    BY <1>4, <1>6, <2>3, <2>7, <2>8 DEF m
<1> QED
  BY <1>5, <1>6

\* Nothing is written where nothing was moved.
LEMMA WrittenNothing ==
  ASSUME NEW d, On(d, Word), NEW lba, NEW s
  PROVE  Written(d, lba, Padded(s, 0)) = d
<1>1. Nwrd2Nblk(0) * BlkWords = 0
  <2>1. Nwrd2Nblk(0) = 0 /\ BlkWords \in Nat
    BY BlockCount, DiskAssumption
  <2> QED
    BY <2>1
<1>2. DOMAIN Padded(s, 0) = {}
  BY <1>1 DEF Padded
<1>3. Written(d, lba, Padded(s, 0)) = [w \in Word |-> d[w]]
  BY <1>2 DEF Written
<1> QED
  BY <1>3 DEF On

\* The words done are counted; after the last chunk the file is written and the
\* end reported, if the list of that chunk has not done it.
LEMMA RdmaPostStep ==
  ASSUME Inv, RdmaPost
  PROVE  Inv'
<1> USE DEF Inv
<1> DEFINE total == rdma.done + rdma.ndone
           fail == rdma.ndone # rdma.next
           last == fail \/ total = fRd.wc
           needs == last /\ total > 0 /\ fRd.fu \in {"write", "wchk"}
           lost == needs /\ ~att[fRd.unit]
           r == cur.req
           B == Chs2Lba(cur.req) * BlkWords
<1>0. /\ pc = "post" /\ rdma.status = "busy" /\ Busy
      /\ UNCHANGED <<kind, mem, att, wprot, fRd, fBuf, cur, clean, ngo, nreset, nclient>>
  BY DEF RdmaPost, Busy, Handler
<1>1. /\ Sane /\ InRange(fRd) /\ fRd.fu \in Transfer /\ rdma.done < fRd.wc
      /\ fRd \in Rds /\ rdma \in Rdmas /\ rdma.done \in Nat /\ rdma.ndone \in Nat
      /\ rdma.next \in Nat
  BY <1>0 DEF Handler, Sane, Types, Rdmas
<1>2. /\ fRd.wc \in Nat /\ fRd.wc >= 1 /\ fRd.wc <= fRd.full /\ fRd.addr \in Nat
      /\ fRd.unit \in Unit /\ BlkWords \in Nat /\ MemWords \in Nat /\ total \in Nat
  BY <1>1, DiskAssumption DEF Sane, Rds
<1>3. /\ rdma.next \in 1 .. fRd.wc - rdma.done /\ rdma.ndone \in 0 .. rdma.next
      /\ \/ ~fail /\ fRd.addr + total <= MemWords
         \/ fail /\ total < fRd.wc /\ fRd.addr + total = MemWords
         \/ fail /\ total = 0 /\ fRd.addr >= MemWords
  BY <1>0, <1>1, <1>2 DEF Handler
<1>4. /\ On(mem', Address) /\ On(cur'.mem, Address)
  BY <1>0 DEF Types
<1>5. Reported <=> Fused /\ ~fail
  BY <1>0 DEF Reported
<1>6. clean => att[fRd.unit]
  BY <1>0 DEF Current
<1>7. CASE lost
  <2>1. pc' = "dead" /\ UNCHANGED <<rdy, reg, err, er1, pos, lam, disk, rdma, gdisk>>
    BY <1>7 DEF RdmaPost, fpga
  <2>2. ~clean /\ nclient # 0
    BY <1>2, <1>6, <1>7 DEF Handler
  <2>3. Types'
    <3>1. /\ On(disk', Unit) /\ On(gdisk', Unit)
          /\ \A u \in Unit : On(disk'[u], Word) /\ On(gdisk'[u], Word)
      BY <2>1 DEF Types
    <3> QED
      BY <1>0, <1>4, <2>1, <3>1 DEF Types
  <2>4. Given'
    BY <1>0, <2>1 DEF Given, InRange
  <2>5. Handler'
    <3>1. Sane' /\ (InRange(fRd))'
      BY <1>0, <1>1 DEF Sane, InRange
    <3> QED
      BY <1>0, <2>1, <2>2, <3>1 DEF Handler, Busy
  <2>6. Current' /\ Progress' /\ Files' /\ CompletionExact'
    BY <1>0, <2>2 DEF Current, Progress, Files, CompletionExact
  <2> QED
    BY <2>3, <2>4, <2>5, <2>6
<1>8. CASE ~lost /\ ~last
  <2>1. /\ pc' = "idle" /\ UNCHANGED <<rdy, reg, err, er1, pos, lam, disk, gdisk>>
        /\ rdma' = [Idle EXCEPT !.status = "busy", !.done = total]
    BY <1>8 DEF RdmaPost, fpga
  <2>2. rdma' \in Rdmas /\ rdma'.status = "busy" /\ rdma'.done = total
    <3>1. total \in Nat /\ rdma' = [Idle EXCEPT !.status = "busy", !.done = total]
      BY <1>2, <2>1
    <3> HIDE DEF Inv, total
    <3> QED
      BY <3>1 DEF Rdmas, Idle
  <2>3. Types'
    <3>1. /\ On(disk', Unit) /\ On(gdisk', Unit)
          /\ \A u \in Unit : On(disk'[u], Word) /\ On(gdisk'[u], Word)
      BY <2>1 DEF Types
    <3> QED
      BY <1>0, <1>4, <2>1, <2>2, <3>1 DEF Types
  <2>4. Given'
    BY <1>0, <2>1 DEF Given, InRange
  <2>5. Handler'
    <3>1. Sane' /\ (InRange(fRd))'
      BY <1>0, <1>1 DEF Sane, InRange
    <3>2. total < fRd.wc /\ fRd.addr + total <= MemWords
      BY <1>1, <1>2, <1>3, <1>8
    <3> QED
      BY <1>0, <1>1, <2>1, <2>2, <3>1, <3>2 DEF Handler, Busy
  <2>6. ~Reported /\ ~Reported' /\ Mine /\ Mine' /\ Busy' /\ SoFar' = total /\ SoFar = total
    <3>1. ~Reported
      BY <1>5, <1>8 DEF Fused
    <3>2. ~Reported'
      BY <2>1 DEF Reported
    <3> QED
      BY <1>0, <2>1, <2>2, <3>1, <3>2 DEF Mine, Busy, SoFar
  <2>7. (Copied' <=> Copied) /\ (HandlerError(cur.req))' = HandlerError(cur.req)
    <3>1. Copied' <=> Copied
      BY <1>0 DEF Copied, Nwrd, Overrun, Extent, Chs2Lba
    <3>2. (HandlerError(cur.req))' = HandlerError(cur.req)
      BY <1>0, <2>1 DEF HandlerError, BadChs
    <3> QED
      BY <3>1, <3>2
  <2>8. Current'
    BY <1>0, <2>1, <2>6, <2>7 DEF Current
  <2>9. Progress'
    <3> SUFFICES ASSUME clean PROVE Progress'
      BY <1>0 DEF Progress
    <3>1. /\ (IsRead(cur.req))' = IsRead(cur.req) /\ (Chs2Lba(cur.req))' = Chs2Lba(cur.req)
          /\ cur' = cur /\ fRd' = fRd /\ fBuf' = fBuf /\ mem' = mem
      BY <1>0 DEF IsRead, Chs2Lba
    <3>2. (Moved(SoFar))' = Moved(SoFar)
      BY <2>6, <3>1, Zenon DEF Moved
    <3>3. /\ mem = Moved(SoFar)
          /\ IsRead(cur.req) =>
               fBuf = [i \in 1 .. Nwrd2Nblk(fRd.wc) * BlkWords |->
                         cur.disk[Chs2Lba(cur.req) * BlkWords + i - 1]]
          /\ ~IsRead(cur.req) =>
               \A i \in 1 .. SoFar : fBuf[i] = cur.mem[cur.req.addr + i - 1]
      BY <1>0, <2>6, Zenon DEF Progress
    <3>4. SoFar' = SoFar
      BY <2>6
    <3> QED
      BY <3>1, <3>2, <3>3, <3>4, Zenon DEF Progress
  <2>10. Files'
    BY <1>0, <2>1, <2>6 DEF Files
  <2>11. CompletionExact'
    BY <1>0, <2>1, CompletedQuiet
  <2> QED
    BY <2>3, <2>4, <2>5, <2>8, <2>9, <2>10, <2>11
<1>9. CASE ~lost /\ last
  <2>0. (rdma.labo <=> fail) /\ ~MissedAbort(total, fail)
    <3>1. rdma.labo <=> fail
      BY <1>0 DEF Handler
    <3>2. Fused /\ ~fail => PostErrors(total, fail) = {}
      BY DEF Fused, PostErrors, Agreed
    <3> QED
      BY <3>1, <3>2 DEF MissedAbort
  <2>1. pc' = "idle" /\ rdma' = Idle /\ PostRdmaHook(total) /\ PostExecCB(total, fail)
    BY <1>9, <2>0 DEF RdmaPost
  <2>2. /\ rdma' \in Rdmas /\ ~Busy' /\ ~Mine' /\ ~Reported'
    BY <2>1 DEF Idle, Rdmas, Busy, Mine, Reported
  <2>3. Handler'
    BY <1>0, <2>1, <2>2 DEF Handler
  <2>4. On(disk', Unit) /\ \A u \in Unit : On(disk'[u], Word)
    <3>1. On(disk, Unit) /\ \A u \in Unit : On(disk[u], Word)
      BY DEF Types
    <3>2. CASE disk' = disk
      BY <3>1, <3>2, Zenon
    <3>3. CASE disk' # disk
      <4> DEFINE d == Written(disk[fRd.unit], Chs2Lba(fRd), Padded(fBuf, total))
                 g == [disk EXCEPT ![fRd.unit] = d]
      <4>1. disk' = g
        BY <2>1, <3>3 DEF PostRdmaHook
      <4>2. On(d, Word)
        BY DEF On, Written
      <4> HIDE DEF d
      <4>3. On(g, Unit) /\ \A u \in Unit : On(g[u], Word)
        BY <1>2, <3>1, <4>2, Replaced
      <4> QED
        BY <4>1, <4>3, Zenon
    <3> QED
      BY <3>2, <3>3
  <2>5. CASE Reported
    <3>1. UNCHANGED <<rdy, reg, err, er1, pos, lam, gdisk>> /\ total = fRd.wc /\ ~Mine
      BY <1>5, <1>9, <2>0, <2>1, <2>5 DEF PostExecCB, fpga, Mine
    <3>2. Types'
      <4>1. On(gdisk', Unit) /\ \A u \in Unit : On(gdisk'[u], Word)
        BY <3>1 DEF Types
      <4> QED
        BY <1>0, <1>4, <2>1, <2>2, <2>4, <3>1, <4>1 DEF Types
    <3>3. Given'
      BY <1>0, <3>1 DEF Given, InRange
    <3>4. Current'
      <4>1. (HandlerError(cur.req))' = HandlerError(cur.req)
        BY <1>0, <3>1 DEF HandlerError, BadChs
      <4> QED
        BY <1>0, <2>1, <2>2, <3>1, <4>1 DEF Current
    <3>5. Progress'
      BY <2>2 DEF Progress
    <3>6. Files'
      <4> SUFFICES ASSUME clean PROVE gdisk = disk'
        BY <1>0, <2>2, <3>1 DEF Files
      <4>1. CASE fRd.fu = "write"
        <5>1. total > 0
          BY <1>2, <3>1
        <5>2. disk' = [disk EXCEPT ![fRd.unit] = Written(@, Chs2Lba(fRd), Padded(fBuf, total))]
          BY <2>1, <4>1, <5>1 DEF PostRdmaHook
        <5> QED
          BY <2>5, <3>1, <4>1, <5>2, Zenon DEF Files
      <4>2. CASE fRd.fu # "write"
        BY <2>1, <4>2 DEF Files, PostRdmaHook
      <4> QED
        BY <4>1, <4>2
    <3>7. CompletionExact'
      BY <1>0, <3>1, CompletedQuiet
    <3> QED
      BY <2>3, <3>2, <3>3, <3>4, <3>5, <3>6, <3>7
  <2>6. CASE ~Reported
    <3> DEFINE nok == IF fRd.fu = "wchk" THEN WriteCheck(total) ELSE total
               trunc == kind # "rk11" \/ fRd.flag = "sse"
               n == IF trunc THEN nok ELSE total
               wce == nok # total
               e == (IF wce THEN {"wce"} ELSE {})
                    \cup (IF fail /\ ~(kind = "rl11" /\ wce) THEN {"nxm"} ELSE {})
    <3>1. NormalExit(n, e, GhostDisk(n))
      BY <1>5, <2>0, <2>1, <2>6 DEF PostExecCB, PostCount, PostErrors, Agreed
    <3>2. n \in Nat /\ nok \in Nat
      BY <1>2, CheckRange
    <3> HIDE DEF nok, n, e
    <3>3. /\ rdy' = TRUE /\ reg' \in Regs /\ UNCHANGED <<pos, lam>>
          /\ gdisk' = IF ~rdy /\ fRd.id = cur.id THEN GhostDisk(n) ELSE gdisk
      BY <1>1, <3>1, <3>2, ExitFacts
    <3>4. Types'
      <4>1. On(gdisk', Unit) /\ \A u \in Unit : On(gdisk'[u], Word)
        <5>1. gdisk' = gdisk \/ gdisk' = GhostDisk(n)
          BY <3>3
        <5>2. CASE gdisk' = gdisk
          BY <5>2, Zenon DEF Types
        <5>3. CASE gdisk' = GhostDisk(n)
          BY <5>3, GhostOn, Zenon
        <5> QED
          BY <5>1, <5>2, <5>3
      <4>2. lam' \in BOOLEAN
        BY <3>3 DEF Types
      <4> QED
        BY <1>0, <1>4, <2>1, <2>2, <2>4, <3>3, <4>1, <4>2 DEF Types
    <3>5. Given' /\ Current' /\ Progress'
      BY <1>0, <2>1, <2>2, <3>3 DEF Given, Current, Progress
    <3>6. CASE ~clean
      <4>1. Files' /\ CompletionExact'
        BY <1>0, <3>6 DEF Files, CompletionExact
      <4> QED
        BY <2>3, <3>4, <3>5, <4>1
    <3>7. CASE clean
      <4>1. /\ ~rdy /\ Copied /\ cur.ok /\ cur.disk = gdisk[r.unit] /\ gdisk = disk
            /\ Mine /\ SoFar = total
        BY <1>0, <2>6, <3>7 DEF Current, Files, Mine, SoFar
      <4>2. /\ fRd.addr = r.addr /\ Chs2Lba(fRd) = Chs2Lba(r) /\ fRd.fu = r.fu
            /\ fRd.unit = r.unit /\ fRd.wc = Nwrd(r) /\ fRd.flag = r.flag
            /\ (IsRead(fRd) <=> IsRead(r)) /\ B \in Int
        <5>1. Chs2Lba(fRd) \in Nat
          BY <1>1, RdNumbers
        <5> QED
          BY <1>2, <4>1, <5>1 DEF Copied, Chs2Lba, IsRead
      <4>3. /\ mem = Moved(total)
            /\ ~IsRead(r) => \A i \in 1 .. total : fBuf[i] = cur.mem[r.addr + i - 1]
        BY <3>7, <4>1, Zenon DEF Progress
      <4>4. gdisk' = GhostDisk(n)
        BY <3>3, <4>1 DEF Copied
      <4>5. Files'
        <5> SUFFICES gdisk' = disk'
          BY <2>2 DEF Files
        <5>1. CASE fRd.fu # "write"
          BY <2>1, <4>1, <4>2, <4>4, <5>1 DEF GhostDisk, PostRdmaHook
        <5>2. CASE fRd.fu = "write"
          <6> DEFINE c == [i \in 1 .. total |-> cur.mem[r.addr + i - 1]]
          <6>1. n = total
            BY <5>2 DEF nok, n
          <6>2. gdisk' = [disk EXCEPT ![fRd.unit] =
                            Written(disk[fRd.unit], Chs2Lba(fRd), Padded(c, total))]
            BY <4>1, <4>2, <4>4, <5>2, <6>1 DEF GhostDisk
          <6>3. CASE total = 0
            <7>1. disk' = disk
              BY <2>1, <6>3 DEF PostRdmaHook
            <7>2. On(disk[fRd.unit], Word) /\ On(disk, Unit)
              BY <1>2 DEF Types
            <7>3. Written(disk[fRd.unit], Chs2Lba(fRd), Padded(c, total)) = disk[fRd.unit]
              BY <6>3, <7>2, WrittenNothing
            <7>4. gdisk' = [disk EXCEPT ![fRd.unit] = disk[fRd.unit]]
              BY <6>2, <7>3
            <7> QED
              BY <1>2, <7>1, <7>2, <7>4 DEF On
          <6>4. CASE total > 0
            <7>1. disk' = [disk EXCEPT ![fRd.unit] =
                             Written(disk[fRd.unit], Chs2Lba(fRd), Padded(fBuf, total))]
              BY <2>1, <5>2, <6>4 DEF PostRdmaHook
            <7>2. \A i \in 1 .. Nwrd2Nblk(total) * BlkWords : i <= total => fBuf[i] = c[i]
              <8>1. ~IsRead(r)
                BY <4>2, <5>2 DEF IsRead
              <8>2. Nwrd2Nblk(total) * BlkWords \in Nat
                BY <1>2, BlockCount
              <8>3. \A i \in 1 .. total : fBuf[i] = c[i]
                BY <4>3, <8>1
              <8> HIDE DEF c
              <8> QED
                BY <1>2, <8>2, <8>3
            <7> HIDE DEF c, total
            <7>3. Padded(fBuf, total) = Padded(c, total)
              BY <7>2 DEF Padded
            <7> QED
              BY <6>2, <7>1, <7>3
          <6> QED
            BY <1>2, <6>3, <6>4
        <5> QED
          BY <5>1, <5>2
      <4>6. CompletionExact'
        <5>1. /\ r \in Reqs /\ InRange(r) /\ r.fu \in Transfer
              /\ r.fu \in Transfer \cup {"rchk"} /\ r.fu # "rchk"
          BY <1>1, <4>1 DEF Given, Copied, InRange, Transfer
        <5>2. MovedWords(r) = total /\ (fail <=> MemWords - r.addr < Nwrd(r))
          <6>1. MovedWords(r) = IF Nwrd(r) <= MemWords - r.addr THEN Nwrd(r)
                                ELSE IF r.addr <= MemWords THEN MemWords - r.addr ELSE 0
            BY <5>1, Words
          <6> HIDE DEF total
          <6> QED
            BY <1>2, <1>3, <1>9, <4>2, <6>1
        <5>3. mem' = MemoryAfter(r)
          <6>1. mem' = Moved(MovedWords(r))
            BY <1>0, <4>3, <5>2
          <6> QED
            BY <6>1, Zenon DEF Moved, MemoryAfter
        <5>4. r.fu = "wchk" => /\ WriteCheck(total) # total <=> Disagree(r) # {}
                               /\ Disagree(r) # {} => WriteCheck(total) = Min(Disagree(r))
          <6> SUFFICES ASSUME r.fu = "wchk"
                       PROVE  /\ WriteCheck(total) # total <=> Disagree(r) # {}
                              /\ Disagree(r) # {} => WriteCheck(total) = Min(Disagree(r))
            OBVIOUS
          <6>1. /\ Disagree(r) = {i \in 0 .. total - 1 : cur.mem[r.addr + i] # cur.disk[B + i]}
                /\ Disagree(r) \in SUBSET (0 .. total - 1)
            BY <5>2, Zenon DEF Disagree
          <6>2. ASSUME NEW i \in 1 .. total
                PROVE  i - 1 \in Disagree(r)
                         <=> Blocks(fRd.unit, Chs2Lba(fRd), total)[i] # fBuf[i]
            <7>1. i - 1 \in 0 .. total - 1 /\ i \in Nat /\ r.addr \in Nat
              BY <1>2, <4>2
            <7>2. i \in 1 .. Nwrd2Nblk(total) * BlkWords
              <8>1. total <= Nwrd2Nblk(total) * BlkWords /\ Nwrd2Nblk(total) * BlkWords \in Nat
                BY <1>2, BlockCount
              <8> HIDE DEF total
              <8> QED
                BY <1>2, <6>2, <8>1
            <7>3. i - 1 \in Disagree(r) <=> cur.mem[r.addr + (i - 1)] # cur.disk[B + (i - 1)]
              BY <6>1, <7>1
            <7>4. Blocks(fRd.unit, Chs2Lba(fRd), total)[i] = cur.disk[B + i - 1]
              BY <4>1, <4>2, <7>2 DEF Blocks
            <7>5. fBuf[i] = cur.mem[r.addr + i - 1]
              BY <4>3, <6>2 DEF IsRead
            <7>6. B + (i - 1) = B + i - 1 /\ r.addr + (i - 1) = r.addr + i - 1
              BY <4>2, <7>1
            <7> QED
              BY <7>3, <7>4, <7>5, <7>6
          <6>3. total \in Nat
            BY <1>2
          <6> HIDE DEF total, Inv
          <6> QED
            BY <6>1, <6>2, <6>3, CheckExact
        <5>5. wce <=> r.fu = "wchk" /\ Disagree(r) # {}
          BY <4>2, <5>4 DEF nok
        <5>6. n = CountedWords(r)
          BY <4>2, <5>1, <5>2, <5>4, <5>5 DEF nok, n, CountedWords
        <5>7. fail <=> r.fu # "rchk" /\ MemWords - r.addr < Nwrd(r)
          BY <5>1, <5>2
        <5>8. wce \in BOOLEAN /\ fail \in BOOLEAN
          OBVIOUS
        <5>9. Types /\ ~rdy /\ Given /\ Copied /\ Sane /\ cur.ok
          BY <1>1, <4>1
        <5>10. UNCHANGED <<kind, cur, clean>>
          BY <1>0
        <5>11. e = (IF wce THEN {"wce"} ELSE {})
                   \cup (IF fail /\ ~(kind = "rl11" /\ wce) THEN {"nxm"} ELSE {})
          BY DEF e
        <5> HIDE DEF wce, fail
        <5> QED
          BY <3>1, <3>2, <5>1, <5>3, <5>5, <5>6, <5>7, <5>8, <5>9, <5>10, <5>11, ExitExact
      <4> QED
        BY <2>3, <3>4, <3>5, <4>5, <4>6
    <3> QED
      BY <3>6, <3>7
  <2> QED
    BY <2>5, <2>6
<1> QED
  BY <1>7, <1>8, <1>9

-----------------------------------------------------------------------------
(* The theorems.                                                            *)

LEMMA InvStep ==
  ASSUME Inv, [Next]_vars
  PROVE  Inv'
<1>1. CASE UNCHANGED vars
  <2>1. /\ UNCHANGED <<kind, rdy, reg, err, pos, lam>> /\ UNCHANGED <<mem, disk, att, wprot>>
        /\ UNCHANGED <<pc, fRd, rdma, fBuf>>
        /\ UNCHANGED <<cur, gdisk, clean, ngo, nreset, nclient>>
    BY <1>1 DEF vars, fpga, aux
  <2>2. lam' \in BOOLEAN
    BY <2>1 DEF Inv, Types
  <2> QED
    BY <2>1, <2>2, HostQuiet
<1>2. ASSUME NEW r \in Reqs, Go(r) PROVE Inv'
  BY <1>2, GoStep
<1>3. ASSUME NEW u \in Unit, Dclr(u) PROVE Inv'
  BY <1>3, DclrStep
<1>4. ASSUME NEW u \in Unit, Detach(u) PROVE Inv'
  BY <1>4, ClientStep
<1>5. ASSUME NEW u \in Unit, NEW t \in (0 .. NCyl - 1) \X (0 .. NHead - 1), Seek(u, t)
      PROVE  Inv'
  BY <1>5, SeekStep
<1>6. ASSUME NEW u \in Unit, NEW wp \in BOOLEAN, Attach(u, wp) PROVE Inv'
  BY <1>6, ClientStep
<1>7. CASE Reset
  BY <1>7, ResetStep
<1>8. CASE AttnRead
  BY <1>8, AttnReadStep
<1>9. CASE AttnRegs
  BY <1>9, AttnRegsStep
<1>10. CASE AttnHandler
  BY <1>10, AttnHandlerStep
<1>11. CASE RdmaExec
  BY <1>11, RdmaExecStep
<1>12. CASE RdmaPost
  BY <1>12, RdmaPostStep
<1> QED
  BY <1>1, <1>2, <1>3, <1>4, <1>5, <1>6, <1>7, <1>8, <1>9, <1>10, <1>11, <1>12, Zenon
  DEF Next

LEMMA Invariance == Spec => []Inv
<1>1. Init => Inv
  BY InvInit
<1>2. Inv /\ [Next]_vars => Inv'
  BY InvStep
<1> QED
  BY <1>1, <1>2, PTL DEF Spec

\* The registers, the files and the queued transfer keep their types, and no
\* handler throws on its own account: whatever the CPU starts and whenever the bus
\* is reset, AttnHandler() never sets a transfer up over an active one and
\* RdmaHandler() always finds the file it needs, unless a client took it away.
THEOREM HandlersNeverThrow == Spec => []DiskInv
<1>1. Inv => DiskInv
  <2> SUFFICES ASSUME Inv PROVE DiskInv
    OBVIOUS
  <2>1. reg.unit \in Unit
    BY DEF Inv, Types, Regs
  <2>2. DOMAIN mem = Address
    <3>1. mem = [x \in Address |-> mem[x]]
      BY DEF Inv, Types, On
    <3> QED
      BY <3>1
  <2>3. ASSUME NEW u \in Unit PROVE DOMAIN disk[u] = Word /\ DOMAIN gdisk[u] = Word
    <3>1. disk[u] = [x \in Word |-> disk[u][x]] /\ gdisk[u] = [x \in Word |-> gdisk[u][x]]
      BY DEF Inv, Types, On
    <3>2. DOMAIN [x \in Word |-> disk[u][x]] = Word /\ DOMAIN [x \in Word |-> gdisk[u][x]] = Word
      OBVIOUS
    <3> QED
      BY <3>1, <3>2, Zenon
  <2>4. rdma.status \in {"done", "busy"} /\ rdma.done \in Nat
    BY DEF Inv, Types, Rdmas
  <2>5. /\ rdma.status = "busy" => rdma.done < fRd.wc
        /\ nclient = 0 => pc # "dead"
    BY DEF Inv, Handler, Busy
  <2> QED
    BY <2>1, <2>2, <2>3, <2>4, <2>5 DEF Inv, Types, DiskInv, TypeOK, NoThrow
<1> QED
  BY <1>1, Invariance, PTL

\* Whatever the geometry, the chunk size and the request, an undisturbed transfer
\* that has completed left in the address, count and error registers and in memory
\* what the request asked for, but for the RK11's count behind an overrun, the hard
\* error the RK11 still shows of an earlier function, and the places in RPER1 where
\* the RHRP shows WCE and NEM: RdmaHandler() moves each word once, the fused
\* register update and the separate one agree, and WriteCheck() stops at the first
\* word that differs.
THEOREM TransferExact == Spec => []CompletionExact
<1>1. Inv => CompletionExact
  BY DEF Inv
<1> QED
  BY <1>1, Invariance, PTL

\* Once the server thread is idle again the files hold what the completions told
\* the CPU, also when the register update went out before PostRdmaHook() wrote the
\* file.
THEOREM FilesAsReported == Spec => []DiskAsReported
<1>1. Inv => DiskAsReported
  <2> SUFFICES ASSUME Inv, clean, pc \in {"idle", "read", "attn"} PROVE disk = gdisk
    BY DEF DiskAsReported
  <2>1. ~Reported
    BY DEF Reported
  <2> QED
    BY <2>1 DEF Inv, Files
<1> QED
  BY <1>1, Invariance, PTL
=============================================================================
