--------------------------- MODULE Rw11Term_proofs ---------------------------
(***************************************************************************)
(* No character of a terminal line is lost, doubled or swapped in either   *)
(* direction, no block overruns the receive fifo, nothing waits for ever   *)
(* and the handler's view of the DZ11 becomes right, for every number of   *)
(* lines, fifo size, queue limit and bound.  The parts of the invariant:   *)
(* a handler that saw the transmit fifo's last entry leaves an attention   *)
(* for what came after it (Fetch); the fifo usage that the handler         *)
(* remembers can only have shrunk (Room); an empty receive fifo comes with *)
(* an attention (Refill); the CAL words on the way, applied to the         *)
(* handler's view, give the DZ11's registers but for what is still queued  *)
(* (Cal).  What a recursive function makes of a sequence is proved from    *)
(* the least place where two such functions differ.                        *)
(***************************************************************************)
EXTENDS Rw11Term, SequenceTheorems, WellFoundedInduction, TLAPS

Views == [mse : BOOLEAN, maint : BOOLEAN, rxon : SUBSET Line]
Regs == [mse : BOOLEAN, maint : BOOLEAN, rxon : SUBSET Line, brk : SUBSET Line,
         rdy : Line \cup {NoLine}, q : SUBSET {"brk", "rxon", "csr", "clr"}]
Auxs == [dropped : BOOLEAN, looped : BOOLEAN, nak : BOOLEAN, clean : BOOLEAN,
         mute : BOOLEAN]

Types ==
  /\ kind \in {"dl", "dz"} /\ lam \in BOOLEAN /\ prim \in BOOLEAN /\ fTxQueBusy \in BOOLEAN
  /\ tbuf \in Seq(Entry) /\ Len(tbuf) <= Fsize
  /\ rbuf \in Seq(Entry) /\ Len(rbuf) <= Fsize
  /\ reg \in Regs /\ reg.rdy \in Lines \cup {NoLine} /\ fCur \in Views /\ aux \in Auxs
  /\ fRcvQueue \in [Line -> Seq(Nat)] /\ fRxQlim \in 1 .. Fsize /\ fRxCurUnit \in Line
  /\ fLastFuse \in 0 .. Fsize
  /\ fTxRblkSize \in MinRblk .. Fsize /\ primSize \in MinRblk .. Fsize
  /\ pc \in {"idle", "rblk", "fuse", "wake", "rx", "wblk"}
  /\ blk \in Seq(Entry) /\ Len(blk) <= Fsize /\ fuses \subseteq 1 .. Fsize
  /\ txn \in [Line -> Nat] /\ rxn \in [Line -> Nat]
  /\ out \in [Line -> Seq(Nat)] /\ got \in [Line -> Seq(Nat)]
  /\ pc \in {"idle", "wake"} => blk = <<>>
  /\ pc \notin {"rblk", "fuse"} => fuses = {}

\* A handler reads the transmit fifo.
Reads == pc \in {"rblk", "fuse"}
\* The block that is read, and the one that is collected or written.
Held == IF Reads THEN blk ELSE <<>>
Given == IF pc \in {"rx", "wblk"} THEN blk ELSE <<>>
Quiet == \A l \in Line : ~Busy(l)
ToRead == rbuf # <<>> \/ lam

\* The block for the CPU: it consists of characters, and the room for it.
Chars == [t : {"chr"}, line : Line, v : Nat]
Room ==
  /\ NoOverrun
  /\ rbuf \in Seq(Chars) /\ Given \in Seq(Chars)
  /\ pc = "rx" /\ blk # <<>> => Len(blk) <= Nmax
  /\ ~aux.looped /\ pc # "wblk" => Len(rbuf) <= fLastFuse
  /\ ~aux.looped /\ pc = "wblk" /\ blk # <<>> => Len(rbuf) + Len(blk) <= Fsize

\* What fetches the transmit fifo.
Fetch ==
  /\ TxNotStranded
  /\ Reads /\ LastSeen /\ tbuf # <<>> => lam
  /\ pc = "fuse" /\ blk = <<>> /\ tbuf # <<>> => lam

\* What empties the receive queues.
Refill ==
  /\ ~aux.mute /\ (pc = "idle" \/ (Reads /\ ~prim)) => Quiet \/ ToRead
  /\ ~aux.mute /\ (pc \in {"idle", "wake", "rx"} \/ (Reads /\ ~prim)) /\ fLastFuse # 0 => ToRead
  /\ ~aux.mute /\ pc = "wblk" => blk # <<>> \/ ToRead

\* The handler's view once all CAL words on the way are processed.
Believed == CalView(fCur, Held \o tbuf)
Cal ==
  aux.clean =>
    /\ "clr" \in reg.q => reg.rxon = {} /\ "rxon" \notin reg.q
    /\ "csr" \notin reg.q /\ "clr" \notin reg.q =>
         Believed.mse = reg.mse /\ Believed.maint = reg.maint
    /\ "rxon" \notin reg.q /\ "clr" \notin reg.q => Believed.rxon = reg.rxon

\* The characters of line l on their way to the terminal, oldest first.
Sent(l) == out[l] \o ChrsOf(Held, l) \o ChrsOf(tbuf, l)
Transmitted == \A l \in Line : Sent(l) = Count(txn[l])

\* The characters of line l on their way to the CPU, oldest first.
All(l) == got[l] \o ChrsOf(rbuf, l) \o ChrsOf(Given, l) \o fRcvQueue[l]
Rising(s, n) ==
  /\ \A i \in 1 .. Len(s) : s[i] \in 1 .. n
  /\ \A i, j \in 1 .. Len(s) : i < j => s[i] < s[j]
Received ==
  \A l \in Line : Rising(All(l), rxn[l]) /\ (~aux.dropped => All(l) = Count(rxn[l]))

Inv == Types /\ Room /\ Fetch /\ Refill /\ Cal /\ Transmitted /\ Received

-----------------------------------------------------------------------------
(* Folding a sequence, without induction: the least place that fails.       *)

\* A non-empty set of numbers has a least element.
LEMMA Least ==
  ASSUME NEW T, T \subseteq Nat, T # {}
  PROVE  \E m \in T : \A k \in T : m <= k
<1> DEFINE R == OpToRel(<, Nat)
<1>1. IsWellFoundedOn(R, Nat)
  BY NatLessThanWellFounded
<1>2. PICK m \in T : \A k \in T : ~(<<k, m>> \in R)
  BY <1>1, WFMin
<1>3. \A k \in T : ~(k < m)
  BY <1>2 DEF OpToRel
<1> QED
  BY <1>3

\* f[i] is what the steps g make of x along the first i elements of s.
Steps(f, g, s, n) == \A i \in 1 .. n : f[i] = g[s[i]][f[i - 1]]
Folding(f, S, g, x, s) ==
  f \in [0 .. Len(s) -> S] /\ f[0] = x /\ Steps(f, g, s, Len(s))

\* Every sequence can be folded.
LEMMA FoldExists ==
  ASSUME NEW S, NEW E, NEW g \in [E -> [S -> S]], NEW x \in S, NEW s \in Seq(E)
  PROVE  \E f : Folding(f, S, g, x, s)
<1> DEFINE Part(f, n) == /\ f \in [0 .. n -> S] /\ f[0] = x
                         /\ \A i \in 1 .. n : f[i] = g[s[i]][f[i - 1]]
           T == {n \in 0 .. Len(s) : \A f : ~Part(f, n)}
<1>1. T = {}
  <2> SUFFICES ASSUME T # {} PROVE FALSE
    OBVIOUS
  <2>1. PICK m \in T : \A k \in T : m <= k
    <3>1. T \subseteq Nat
      OBVIOUS
    <3> HIDE DEF T
    <3> QED
      BY <3>1, Least
  <2>2. m # 0
    <3>1. Part([i \in 0 .. 0 |-> x], 0)
      OBVIOUS
    <3> QED
      BY <3>1
  <2>3. PICK f : Part(f, m - 1)
    <3>1. m - 1 \in 0 .. Len(s) /\ ~(m <= m - 1)
      BY <2>2
    <3>2. m - 1 \notin T
      BY <2>1, <3>1
    <3> QED
      BY <3>1, <3>2
  <2> DEFINE h == [i \in 0 .. m |-> IF i = m THEN g[s[m]][f[m - 1]] ELSE f[i]]
  <2>4. m \in 1 .. Len(s) /\ s[m] \in E /\ f[m - 1] \in S
    BY <2>2, <2>3
  <2>5. g[s[m]][f[m - 1]] \in S
    BY <2>4
  <2>6. h \in [0 .. m -> S] /\ h[0] = x
    BY <2>3, <2>4, <2>5
  <2>7. ASSUME NEW i \in 1 .. m PROVE h[i] = g[s[i]][h[i - 1]]
    <3>1. h[i - 1] = f[i - 1]
      BY <2>4
    <3>2. CASE i = m
      BY <3>1, <3>2
    <3>3. CASE i # m
      BY <2>3, <2>4, <3>1, <3>3
    <3> QED
      BY <3>2, <3>3
  <2>8. Part(h, m)
    BY <2>6, <2>7
  <2> QED
    BY <2>8
<1>2. Len(s) \in 0 .. Len(s)
  OBVIOUS
<1> QED
  BY <1>1, <1>2 DEF Folding, Steps

\* Two functions that follow the same steps are equal.
LEMMA FoldUnique ==
  ASSUME NEW g, NEW s, NEW n \in Nat, NEW f, NEW h,
         f[0] = h[0],
         Steps(f, g, s, n), Steps(h, g, s, n)
  PROVE  f[n] = h[n]
<1> DEFINE T == {i \in 0 .. n : f[i] # h[i]}
<1>1. T = {}
  <2> SUFFICES ASSUME T # {} PROVE FALSE
    OBVIOUS
  <2>1. PICK m \in T : \A k \in T : m <= k
    <3>1. T \subseteq Nat
      OBVIOUS
    <3> HIDE DEF T
    <3> QED
      BY <3>1, Least
  <2>2. m # 0
    OBVIOUS
  <2>3. m \in 1 .. n /\ m - 1 \in 0 .. n /\ ~(m <= m - 1)
    BY <2>2
  <2>4. f[m - 1] = h[m - 1]
    BY <2>1, <2>3
  <2> QED
    BY <2>3, <2>4 DEF Steps
<1> QED
  BY <1>1

\* Folding the second sequence goes on where the first ended.
LEMMA FoldCat ==
  ASSUME NEW S, NEW E, NEW g \in [E -> [S -> S]], NEW x \in S,
         NEW s \in Seq(E), NEW t \in Seq(E), NEW f, NEW h, NEW k,
         Folding(f, S, g, x, s), Folding(h, S, g, f[Len(s)], t), Folding(k, S, g, x, s \o t)
  PROVE  k[Len(s \o t)] = h[Len(t)]
<1> DEFINE n == Len(s) + Len(t)
           u == s \o t
           j == [i \in 0 .. n |-> IF i <= Len(s) THEN f[i] ELSE h[i - Len(s)]]
<1>1. Len(s) \in Nat /\ Len(t) \in Nat /\ Len(u) = n
      /\ \A i \in 1 .. n : u[i] = IF i <= Len(s) THEN s[i] ELSE t[i - Len(s)]
  BY LenProperties, ConcatProperties
<1> HIDE DEF u
<1>2. j[0] = x
  BY <1>1 DEF Folding, Steps
<1>3. ASSUME NEW i \in 1 .. n PROVE j[i] = g[u[i]][j[i - 1]]
  <2>1. CASE i <= Len(s)
    <3>1. j[i] = f[i] /\ j[i - 1] = f[i - 1] /\ u[i] = s[i] /\ i \in 1 .. Len(s)
      BY <1>1, <2>1
    <3> QED
      BY <3>1 DEF Folding, Steps
  <2>2. CASE i = Len(s) + 1
    <3>1. j[i] = h[1] /\ j[i - 1] = f[Len(s)] /\ u[i] = t[1] /\ 1 \in 1 .. Len(t)
      BY <1>1, <2>2
    <3>2. h[1] = g[t[1]][h[1 - 1]] /\ h[1 - 1] = f[Len(s)]
      BY <3>1 DEF Folding, Steps
    <3> QED
      BY <3>1, <3>2
  <2>3. CASE i > Len(s) + 1
    <3>1. j[i] = h[i - Len(s)] /\ j[i - 1] = h[(i - Len(s)) - 1] /\ u[i] = t[i - Len(s)]
          /\ i - Len(s) \in 1 .. Len(t)
      <4>1. i \in Nat /\ i - 1 \in 0 .. n /\ ~(i <= Len(s)) /\ ~(i - 1 <= Len(s))
            /\ i - Len(s) \in 1 .. Len(t) /\ (i - 1) - Len(s) = (i - Len(s)) - 1
        BY <1>1, <2>3
      <4>2. j[i - 1] = h[(i - 1) - Len(s)] /\ j[i] = h[i - Len(s)]
        BY <4>1
      <4> QED
        BY <1>1, <4>1, <4>2
    <3> QED
      BY <3>1 DEF Folding, Steps
  <2>4. i \in Nat
    BY <1>1
  <2> QED
    BY <1>1, <2>1, <2>2, <2>3, <2>4
<1>4. k[0] = x /\ Steps(k, g, u, n)
  BY <1>1 DEF Folding, u
<1>5. n \in Nat
  BY <1>1
<1> HIDE DEF j, n
<1>6. j[n] = k[n]
  <2>1. Steps(j, g, u, n)
    BY <1>3 DEF Steps
  <2>2. j[0] = k[0]
    BY <1>2, <1>4
  <2> QED
    BY <1>4, <1>5, <2>1, <2>2, FoldUnique
<1>7. j[n] = h[Len(t)]
  <2>1. CASE Len(t) = 0
    BY <1>1, <2>1 DEF j, n, Folding
  <2>2. CASE Len(t) # 0
    BY <1>1, <2>2 DEF j, n
  <2> QED
    BY <2>1, <2>2
<1> QED
  BY <1>1, <1>5, <1>6, <1>7 DEF u

-----------------------------------------------------------------------------
(* The characters of a line.                                                *)

\* Concatenation is associative.
LEMMA Assoc ==
  ASSUME NEW a \in Seq(Nat), NEW b \in Seq(Nat), NEW c \in Seq(Nat)
  PROVE  (a \o b) \o c = a \o (b \o c)
<1> DEFINE x == (a \o b) \o c
           y == a \o (b \o c)
<1>1. x \in Seq(Nat) /\ y \in Seq(Nat) /\ Len(x) = Len(y)
  OBVIOUS
<1>2. \A i \in 1 .. Len(x) : x[i] = y[i]
  OBVIOUS
<1> QED
  BY <1>1, <1>2, SeqEqual

IsChr(e, l) == e.t = "chr" /\ e.line = l /\ e.v # Loop
ChrStep(l) ==
  [e \in Entry |-> [x \in Seq(Nat) |-> IF IsChr(e, l) THEN Append(x, e.v) ELSE x]]

\* An entry that holds a character holds a number.
LEMMA ChrValue ==
  ASSUME NEW e \in Entry, e.t = "chr"
  PROVE  e.v \in Nat /\ e.line \in Line
BY DEF Entry

LEMMA ChrStepType ==
  ASSUME NEW l
  PROVE  ChrStep(l) \in [Entry -> [Seq(Nat) -> Seq(Nat)]]
<1>1. ASSUME NEW e \in Entry, NEW x \in Seq(Nat)
      PROVE  (IF IsChr(e, l) THEN Append(x, e.v) ELSE x) \in Seq(Nat)
  BY ChrValue DEF IsChr
<1> QED
  BY <1>1 DEF ChrStep

\* ChrsOf() folds the sequence.
LEMMA ChrsFold ==
  ASSUME NEW s \in Seq(Entry), NEW l, NEW f, Folding(f, Seq(Nat), ChrStep(l), <<>>, s)
  PROVE  ChrsOf(s, l) = f[Len(s)]
<1> DEFINE D == 0 .. Len(s)
           C(h) == [i \in D |-> IF i = 0 THEN <<>>
                                ELSE IF s[i].t = "chr" /\ s[i].line = l /\ s[i].v # Loop
                                     THEN Append(h[i - 1], s[i].v) ELSE h[i - 1]]
           k == CHOOSE h : h = C(h)
<1>1. Len(s) \in Nat /\ \A i \in 1 .. Len(s) : s[i] \in Entry
  BY LenProperties, ElementOfSeq
<1>2. f = C(f)
  <2>1. f \in [D -> Seq(Nat)] /\ f[0] = <<>>
    BY DEF Folding
  <2>2. ASSUME NEW i \in D, i # 0
        PROVE  f[i] = IF s[i].t = "chr" /\ s[i].line = l /\ s[i].v # Loop
                      THEN Append(f[i - 1], s[i].v) ELSE f[i - 1]
    <3>1. i \in 1 .. Len(s) /\ f[i - 1] \in Seq(Nat) /\ s[i] \in Entry
      BY <1>1, <2>1, <2>2
    <3>2. f[i] = ChrStep(l)[s[i]][f[i - 1]]
      BY <3>1 DEF Folding, Steps
    <3> QED
      BY <3>1, <3>2 DEF ChrStep, IsChr
  <2> QED
    BY <2>1, <2>2
<1>3. k = C(k)
  BY <1>2
<1>4. ChrsOf(s, l) = k[Len(s)]
  BY DEF ChrsOf
<1>5. k[0] = <<>> /\ \A i \in 1 .. Len(s) :
        k[i] = IF IsChr(s[i], l) THEN Append(k[i - 1], s[i].v) ELSE k[i - 1]
  <2>1. ASSUME NEW i \in D
        PROVE  k[i] = IF i = 0 THEN <<>> ELSE IF IsChr(s[i], l) THEN Append(k[i - 1], s[i].v)
                                              ELSE k[i - 1]
    <3> HIDE DEF k
    <3> QED
      BY <1>3 DEF IsChr
  <2> HIDE DEF k
  <2> QED
    BY <1>1, <2>1
<1> HIDE DEF k, C
<1> DEFINE T == {i \in D : f[i] # k[i]}
<1>6. T = {}
  <2> SUFFICES ASSUME T # {} PROVE FALSE
    OBVIOUS
  <2>1. PICK m \in T : \A i \in T : m <= i
    <3>1. T \subseteq Nat
      OBVIOUS
    <3> HIDE DEF T
    <3> QED
      BY <3>1, Least
  <2>2. m # 0
    BY <1>5 DEF Folding
  <2>3. m \in 1 .. Len(s) /\ m - 1 \in D /\ ~(m <= m - 1)
    BY <1>1, <2>2
  <2>4. f[m - 1] = k[m - 1]
    BY <2>1, <2>3
  <2>5. f[m - 1] \in Seq(Nat) /\ f[m] = ChrStep(l)[s[m]][f[m - 1]] /\ s[m] \in Entry
    BY <1>1, <2>3 DEF Folding, Steps
  <2>6. f[m] = IF IsChr(s[m], l) THEN Append(f[m - 1], s[m].v) ELSE f[m - 1]
    BY <2>5 DEF ChrStep
  <2> QED
    BY <1>5, <2>3, <2>4, <2>6
<1> QED
  BY <1>1, <1>4, <1>6

LEMMA ChrsFolds ==
  ASSUME NEW s \in Seq(Entry), NEW l
  PROVE  \E f : Folding(f, Seq(Nat), ChrStep(l), <<>>, s) /\ ChrsOf(s, l) = f[Len(s)]
<1>1. <<>> \in Seq(Nat)
  OBVIOUS
<1>2. PICK f : Folding(f, Seq(Nat), ChrStep(l), <<>>, s)
  BY <1>1, ChrStepType, FoldExists
<1> QED
  BY <1>2, ChrsFold

LEMMA ChrsType ==
  ASSUME NEW s \in Seq(Entry), NEW l
  PROVE  ChrsOf(s, l) \in Seq(Nat)
<1>1. PICK f : Folding(f, Seq(Nat), ChrStep(l), <<>>, s) /\ ChrsOf(s, l) = f[Len(s)]
  BY ChrsFolds
<1>2. Len(s) \in 0 .. Len(s)
  OBVIOUS
<1> QED
  BY <1>1, <1>2 DEF Folding

\* The characters of two sequences in a row.
LEMMA ChrsCat ==
  ASSUME NEW s \in Seq(Entry), NEW t \in Seq(Entry), NEW l
  PROVE  ChrsOf(s \o t, l) = ChrsOf(s, l) \o ChrsOf(t, l)
<1>1. PICK f : Folding(f, Seq(Nat), ChrStep(l), <<>>, s) /\ ChrsOf(s, l) = f[Len(s)]
  BY ChrsFolds
<1>2. PICK h : Folding(h, Seq(Nat), ChrStep(l), <<>>, t) /\ ChrsOf(t, l) = h[Len(t)]
  BY ChrsFolds
<1>3. s \o t \in Seq(Entry)
  OBVIOUS
<1>4. PICK k : Folding(k, Seq(Nat), ChrStep(l), <<>>, s \o t) /\ ChrsOf(s \o t, l) = k[Len(s \o t)]
  BY <1>3, ChrsFolds
<1> DEFINE x == ChrsOf(s, l)
           j == [i \in 0 .. Len(t) |-> x \o h[i]]
<1>5. x \in Seq(Nat) /\ Len(t) \in Nat
  BY ChrsType, LenProperties
<1> HIDE DEF x
<1>6. j \in [0 .. Len(t) -> Seq(Nat)] /\ j[0] = x
  <2>1. \A i \in 0 .. Len(t) : h[i] \in Seq(Nat)
    BY <1>2 DEF Folding
  <2>2. h[0] = <<>> /\ 0 \in 0 .. Len(t)
    BY <1>2, <1>5 DEF Folding
  <2> QED
    BY <1>5, <2>1, <2>2, ConcatEmptySeq
<1>7. Steps(j, ChrStep(l), t, Len(t))
  <2> SUFFICES ASSUME NEW i \in 1 .. Len(t) PROVE j[i] = ChrStep(l)[t[i]][j[i - 1]]
    BY DEF Steps
  <2>1. i - 1 \in 0 .. Len(t) /\ i \in 0 .. Len(t) /\ t[i] \in Entry
    BY <1>5, ElementOfSeq
  <2>2. h[i - 1] \in Seq(Nat) /\ h[i] = ChrStep(l)[t[i]][h[i - 1]]
    BY <1>2, <2>1 DEF Folding, Steps
  <2>3. h[i] = IF IsChr(t[i], l) THEN Append(h[i - 1], t[i].v) ELSE h[i - 1]
    BY <2>1, <2>2 DEF ChrStep
  <2>4. j[i] = x \o h[i] /\ j[i - 1] = x \o h[i - 1] /\ j[i - 1] \in Seq(Nat)
    BY <1>6, <2>1
  <2>5. ChrStep(l)[t[i]][j[i - 1]] = IF IsChr(t[i], l) THEN Append(j[i - 1], t[i].v) ELSE j[i - 1]
    BY <2>1, <2>4 DEF ChrStep
  <2>6. CASE IsChr(t[i], l)
    <3>1. t[i].v \in Nat
      BY <2>1, <2>6, ChrValue DEF IsChr
    <3>2. Append(x \o h[i - 1], t[i].v) = x \o Append(h[i - 1], t[i].v)
      <4> DEFINE u == <<t[i].v>>
                 y == h[i - 1]
      <4>1. u \in Seq(Nat) /\ y \in Seq(Nat) /\ x \o y \in Seq(Nat)
        BY <1>5, <2>2, <3>1
      <4>2. Append(x \o h[i - 1], t[i].v) = (x \o h[i - 1]) \o <<t[i].v>>
        BY <3>1, <4>1, AppendIsConcat
      <4>3. Append(h[i - 1], t[i].v) = h[i - 1] \o <<t[i].v>>
        BY <2>2, <3>1, AppendIsConcat
      <4>4. (x \o y) \o u = x \o (y \o u)
        <5> HIDE DEF u, y
        <5> QED
          BY <1>5, <4>1, Assoc
      <4> QED
        BY <4>2, <4>3, <4>4
    <3> QED
      BY <2>3, <2>4, <2>5, <2>6, <3>2
  <2>7. CASE ~IsChr(t[i], l)
    BY <2>3, <2>4, <2>5, <2>7
  <2> QED
    BY <2>6, <2>7
<1>8. Folding(j, Seq(Nat), ChrStep(l), f[Len(s)], t)
  BY <1>1, <1>6, <1>7 DEF Folding, x
<1>9. j[Len(t)] = x \o ChrsOf(t, l)
  BY <1>2, <1>5
<1>10. k[Len(s \o t)] = j[Len(t)]
  <2>1. <<>> \in Seq(Nat)
    OBVIOUS
  <2> DEFINE g == ChrStep(l)
             S == Seq(Nat)
             e == <<>>
  <2>2. g \in [Entry -> [S -> S]] /\ e \in S
    BY <2>1, ChrStepType
  <2>3. Folding(f, S, g, e, s) /\ Folding(j, S, g, f[Len(s)], t) /\ Folding(k, S, g, e, s \o t)
    BY <1>1, <1>4, <1>8
  <2> HIDE DEF j, g, S, e
  <2> QED
    BY <2>2, <2>3, FoldCat
<1> QED
  BY <1>4, <1>9, <1>10 DEF x

LEMMA ChrsEmpty == \A l : ChrsOf(<<>>, l) = <<>>
<1> SUFFICES ASSUME NEW l PROVE ChrsOf(<<>>, l) = <<>>
  OBVIOUS
<1>1. <<>> \in Seq(Entry) /\ Len(<<>>) = 0
  OBVIOUS
<1>2. PICK f : Folding(f, Seq(Nat), ChrStep(l), <<>>, <<>>) /\ ChrsOf(<<>>, l) = f[0]
  BY <1>1, ChrsFolds
<1> QED
  BY <1>2 DEF Folding

LEMMA ChrsOne ==
  ASSUME NEW e \in Entry, NEW l
  PROVE  ChrsOf(<<e>>, l) = IF IsChr(e, l) THEN <<e.v>> ELSE <<>>
<1>1. <<e>> \in Seq(Entry) /\ Len(<<e>>) = 1 /\ <<e>>[1] = e
  OBVIOUS
<1>2. PICK f : Folding(f, Seq(Nat), ChrStep(l), <<>>, <<e>>) /\ ChrsOf(<<e>>, l) = f[1]
  BY <1>1, ChrsFolds
<1>3. f[0] = <<>> /\ f[1] = ChrStep(l)[e][f[1 - 1]] /\ <<>> \in Seq(Nat)
  BY <1>1, <1>2 DEF Folding, Steps
<1>4. ChrStep(l)[e][<<>>] = IF IsChr(e, l) THEN Append(<<>>, e.v) ELSE <<>>
  BY <1>3 DEF ChrStep
<1> QED
  BY <1>2, <1>3, <1>4

LEMMA ChrsAppend ==
  ASSUME NEW s \in Seq(Entry), NEW e \in Entry, NEW l
  PROVE  ChrsOf(Append(s, e), l) =
           IF IsChr(e, l) THEN Append(ChrsOf(s, l), e.v) ELSE ChrsOf(s, l)
<1> DEFINE u == <<e>>
<1>1. u \in Seq(Entry)
  OBVIOUS
<1>2. ChrsOf(Append(s, e), l) = ChrsOf(s, l) \o ChrsOf(u, l)
  <2>1. Append(s, e) = s \o u
    BY AppendIsConcat
  <2> HIDE DEF u
  <2>2. ChrsOf(s \o u, l) = ChrsOf(s, l) \o ChrsOf(u, l)
    BY <1>1, ChrsCat
  <2> QED
    BY <2>1, <2>2
<1>3. ChrsOf(s, l) \in Seq(Nat)
  BY ChrsType
<1>4. CASE IsChr(e, l)
  <2>1. e.v \in Nat
    BY <1>4, ChrValue DEF IsChr
  <2>2. ChrsOf(<<e>>, l) = <<e.v>>
    BY <1>4, ChrsOne
  <2> QED
    BY <1>2, <1>3, <1>4, <2>1, <2>2, AppendIsConcat
<1>5. CASE ~IsChr(e, l)
  <2>1. ChrsOf(<<e>>, l) = <<>>
    BY <1>5, ChrsOne
  <2> QED
    BY <1>2, <1>3, <1>5, <2>1, ConcatEmptySeq
<1> QED
  BY <1>4, <1>5

LEMMA ChrsHead ==
  ASSUME NEW s \in Seq(Entry), s # <<>>, NEW l
  PROVE  ChrsOf(s, l) = (IF IsChr(Head(s), l) THEN <<Head(s).v>> ELSE <<>>) \o ChrsOf(Tail(s), l)
<1>1. Head(s) \in Entry /\ Tail(s) \in Seq(Entry) /\ <<Head(s)>> \in Seq(Entry)
  BY HeadTailProperties
<1>2. s = <<Head(s)>> \o Tail(s)
  <2>1. Len(s) = Len(<<Head(s)>> \o Tail(s)) /\ <<Head(s)>> \o Tail(s) \in Seq(Entry)
    BY <1>1
  <2>2. \A i \in 1 .. Len(s) : s[i] = (<<Head(s)>> \o Tail(s))[i]
    BY <1>1
  <2> QED
    BY <2>1, <2>2, SeqEqual
<1> DEFINE u == <<Head(s)>>
           r == Tail(s)
<1>3. ChrsOf(u, l) = IF IsChr(Head(s), l) THEN <<Head(s).v>> ELSE <<>>
  BY <1>1, ChrsOne
<1>4. u \in Seq(Entry) /\ r \in Seq(Entry) /\ s = u \o r
  BY <1>1, <1>2
<1>5. ChrsOf(s, l) = ChrsOf(u, l) \o ChrsOf(r, l)
  <2> HIDE DEF u, r
  <2>1. ChrsOf(u \o r, l) = ChrsOf(u, l) \o ChrsOf(r, l)
    BY <1>4, ChrsCat
  <2> QED
    BY <1>4, <2>1
<1> QED
  BY <1>3, <1>5

\* A block of characters of line l.
First(q, n) == [i \in 1 .. n |-> q[i]]
Block(l, q, n) == [i \in 1 .. n |-> Chr(l, q[i])]
NoLoop(q, n) == \A i \in 1 .. n : q[i] # Loop
LEMMA ChrsBlock ==
  ASSUME NEW l \in Line, NEW q \in Seq(Nat), NEW n \in 0 .. Len(q), NEW m,
         NoLoop(q, n)
  PROVE  /\ Block(l, q, n) \in Seq(Entry)
         /\ ChrsOf(Block(l, q, n), m) = IF m = l THEN First(q, n) ELSE <<>>
<1> DEFINE b == [i \in 1 .. n |-> Chr(l, q[i])]
           f == [i \in 0 .. n |-> IF m = l THEN [j \in 1 .. i |-> q[j]] ELSE <<>>]
<1>1. n \in Nat /\ \A i \in 1 .. n : q[i] \in Nat
  BY ElementOfSeq
<1>2. \A i \in 1 .. n : b[i] = Chr(l, q[i]) /\ b[i] \in Entry
  BY <1>1 DEF Chr, Entry
<1>3. b \in Seq(Entry) /\ Len(b) = n
  BY <1>1, <1>2
<1>4. f \in [0 .. n -> Seq(Nat)] /\ f[0] = <<>>
  <2>1. ASSUME NEW i \in 0 .. n PROVE [j \in 1 .. i |-> q[j]] \in Seq(Nat)
    BY <1>1
  <2> QED
    BY <1>1, <2>1
<1>5. Steps(f, ChrStep(m), b, n)
  <2> SUFFICES ASSUME NEW i \in 1 .. n PROVE f[i] = ChrStep(m)[b[i]][f[i - 1]]
    BY DEF Steps
  <2>1. b[i] \in Entry /\ f[i - 1] \in Seq(Nat) /\ i \in 0 .. n /\ i - 1 \in 0 .. n
    BY <1>1, <1>2, <1>4
  <2>2. ChrStep(m)[b[i]][f[i - 1]] = IF IsChr(b[i], m) THEN Append(f[i - 1], b[i].v) ELSE f[i - 1]
    <3> HIDE DEF b, f
    <3> QED
      BY <2>1 DEF ChrStep
  <2>3. IsChr(b[i], m) <=> m = l
    BY <1>2 DEF IsChr, Chr, NoLoop
  <2>4. b[i].v = q[i] /\ q[i] \in Nat
    BY <1>1, <1>2 DEF Chr
  <2>5. CASE m = l
    <3>1. f[i] = [j \in 1 .. i |-> q[j]] /\ f[i - 1] = [j \in 1 .. i - 1 |-> q[j]]
      BY <2>1, <2>5
    <3>2. f[i] \in Seq(Nat) /\ Len(f[i]) = i /\ Append(f[i - 1], q[i]) \in Seq(Nat)
          /\ Len(Append(f[i - 1], q[i])) = i
      BY <1>1, <2>1, <2>4, <3>1
    <3>3. \A j \in 1 .. i : f[i][j] = Append(f[i - 1], q[i])[j]
      BY <1>1, <2>1, <2>4, <3>1
    <3>4. f[i] = Append(f[i - 1], q[i])
      <4> HIDE DEF f
      <4> QED
        BY <3>2, <3>3, SeqEqual
    <3> HIDE DEF b, f
    <3> QED
      BY <2>2, <2>3, <2>4, <2>5, <3>4
  <2>6. CASE m # l
    <3>1. f[i] = f[i - 1]
      BY <2>1, <2>6
    <3> HIDE DEF b, f
    <3> QED
      BY <2>2, <2>3, <2>6, <3>1
  <2> QED
    BY <2>5, <2>6
<1>6. Folding(f, Seq(Nat), ChrStep(m), <<>>, b)
  <2> HIDE DEF b, f
  <2> QED
    BY <1>3, <1>4, <1>5 DEF Folding
<1>7. ChrsOf(b, m) = f[n]
  <2> HIDE DEF b, f
  <2> QED
    BY <1>3, <1>6, ChrsFold
<1> QED
  BY <1>1, <1>3, <1>7 DEF Block, First

-----------------------------------------------------------------------------
(* The handler's view of the lines.                                         *)

CalStep == [e \in Entry |-> [c \in Views |-> ProcessCal(c, e)]]

LEMMA CalStepType == CalStep \in [Entry -> [Views -> Views]]
<1>1. ASSUME NEW e \in Entry, NEW c \in Views
      PROVE  ProcessCal(c, e) \in Views
  <2>1. CASE e \in [t : {"chr"}, line : Line, v : Nat]
    BY <2>1 DEF ProcessCal
  <2>2. CASE e \in [t : {"rxon"}, rxon : SUBSET Line]
    BY <2>2 DEF ProcessCal, Views
  <2>3. CASE e \in [t : {"csr"}, mse : BOOLEAN, maint : BOOLEAN, clr : BOOLEAN]
    BY <2>3 DEF ProcessCal, Views
  <2>4. CASE e \in [t : {"ferr"}, line : Line] \/ e \in [t : {"brk"}]
    BY <2>4 DEF ProcessCal
  <2> QED
    BY <2>1, <2>2, <2>3, <2>4 DEF Entry
<1> QED
  BY <1>1 DEF CalStep

\* CalView() folds the sequence.
LEMMA CalFold ==
  ASSUME NEW s \in Seq(Entry), NEW c \in Views, NEW f, Folding(f, Views, CalStep, c, s)
  PROVE  CalView(c, s) = f[Len(s)]
<1> DEFINE D == 0 .. Len(s)
           C(h) == [i \in D |-> IF i = 0 THEN c ELSE ProcessCal(h[i - 1], s[i])]
           k == CHOOSE h : h = C(h)
<1>1. Len(s) \in Nat /\ \A i \in 1 .. Len(s) : s[i] \in Entry
  BY LenProperties, ElementOfSeq
<1>2. f = C(f)
  <2>1. f \in [D -> Views] /\ f[0] = c
    BY DEF Folding
  <2>2. ASSUME NEW i \in D, i # 0
        PROVE  f[i] = ProcessCal(f[i - 1], s[i])
    <3>1. i \in 1 .. Len(s) /\ f[i - 1] \in Views /\ s[i] \in Entry
      BY <1>1, <2>1, <2>2
    <3>2. f[i] = CalStep[s[i]][f[i - 1]]
      BY <3>1 DEF Folding, Steps
    <3> QED
      BY <3>1, <3>2 DEF CalStep
  <2> QED
    BY <2>1, <2>2
<1>3. k = C(k)
  BY <1>2
<1>4. CalView(c, s) = k[Len(s)]
  BY DEF CalView
<1>5. k[0] = c /\ \A i \in 1 .. Len(s) : k[i] = ProcessCal(k[i - 1], s[i])
  <2>1. ASSUME NEW i \in D
        PROVE  k[i] = IF i = 0 THEN c ELSE ProcessCal(k[i - 1], s[i])
    <3> HIDE DEF k
    <3> QED
      BY <1>3
  <2> HIDE DEF k
  <2> QED
    BY <1>1, <2>1
<1> HIDE DEF k, C
<1> DEFINE T == {i \in D : f[i] # k[i]}
<1>6. T = {}
  <2> SUFFICES ASSUME T # {} PROVE FALSE
    OBVIOUS
  <2>1. PICK m \in T : \A i \in T : m <= i
    <3>1. T \subseteq Nat
      OBVIOUS
    <3> HIDE DEF T
    <3> QED
      BY <3>1, Least
  <2>2. m # 0
    BY <1>5 DEF Folding
  <2>3. m \in 1 .. Len(s) /\ m - 1 \in D /\ ~(m <= m - 1)
    BY <1>1, <2>2
  <2>4. f[m - 1] = k[m - 1]
    BY <2>1, <2>3
  <2>5. f[m - 1] \in Views /\ f[m] = CalStep[s[m]][f[m - 1]] /\ s[m] \in Entry
    BY <1>1, <2>3 DEF Folding, Steps
  <2>6. f[m] = ProcessCal(f[m - 1], s[m])
    BY <2>5 DEF CalStep
  <2> QED
    BY <1>5, <2>3, <2>4, <2>6
<1> QED
  BY <1>1, <1>4, <1>6

LEMMA CalFolds ==
  ASSUME NEW s \in Seq(Entry), NEW c \in Views
  PROVE  \E f : Folding(f, Views, CalStep, c, s) /\ CalView(c, s) = f[Len(s)]
<1>1. PICK f : Folding(f, Views, CalStep, c, s)
  BY CalStepType, FoldExists
<1> QED
  BY <1>1, CalFold

LEMMA CalType ==
  ASSUME NEW s \in Seq(Entry), NEW c \in Views
  PROVE  CalView(c, s) \in Views
<1>1. PICK f : Folding(f, Views, CalStep, c, s) /\ CalView(c, s) = f[Len(s)]
  BY CalFolds
<1>2. Len(s) \in 0 .. Len(s)
  OBVIOUS
<1> QED
  BY <1>1, <1>2 DEF Folding

\* The view after two sequences in a row.
LEMMA CalCat ==
  ASSUME NEW s \in Seq(Entry), NEW t \in Seq(Entry), NEW c \in Views
  PROVE  CalView(c, s \o t) = CalView(CalView(c, s), t)
<1>1. PICK f : Folding(f, Views, CalStep, c, s) /\ CalView(c, s) = f[Len(s)]
  BY CalFolds
<1>2. CalView(c, s) \in Views
  BY CalType
<1>3. PICK h : Folding(h, Views, CalStep, f[Len(s)], t) /\ CalView(f[Len(s)], t) = h[Len(t)]
  BY <1>1, <1>2, CalFolds
<1>4. s \o t \in Seq(Entry)
  OBVIOUS
<1>5. PICK k : Folding(k, Views, CalStep, c, s \o t) /\ CalView(c, s \o t) = k[Len(s \o t)]
  BY <1>4, CalFolds
<1>6. k[Len(s \o t)] = h[Len(t)]
  <2> DEFINE g == CalStep
             S == Views
  <2>1. g \in [Entry -> [S -> S]] /\ c \in S
    BY CalStepType
  <2>2. Folding(f, S, g, c, s) /\ Folding(h, S, g, f[Len(s)], t) /\ Folding(k, S, g, c, s \o t)
    BY <1>1, <1>3, <1>5
  <2> HIDE DEF g, S
  <2> QED
    BY <2>1, <2>2, FoldCat
<1> QED
  BY <1>1, <1>3, <1>5, <1>6

LEMMA CalEmpty ==
  ASSUME NEW c \in Views
  PROVE  CalView(c, <<>>) = c
<1>1. <<>> \in Seq(Entry) /\ Len(<<>>) = 0
  OBVIOUS
<1>2. PICK f : Folding(f, Views, CalStep, c, <<>>) /\ CalView(c, <<>>) = f[0]
  BY <1>1, CalFolds
<1> QED
  BY <1>2 DEF Folding

LEMMA CalAppend ==
  ASSUME NEW s \in Seq(Entry), NEW e \in Entry, NEW c \in Views
  PROVE  CalView(c, Append(s, e)) = ProcessCal(CalView(c, s), e)
<1> DEFINE u == <<e>>
           d == CalView(c, s)
<1>1. u \in Seq(Entry) /\ Len(u) = 1 /\ u[1] = e /\ d \in Views
  BY CalType
<1>2. CalView(c, Append(s, e)) = CalView(d, u)
  <2>1. Append(s, e) = s \o u
    BY AppendIsConcat
  <2> HIDE DEF u
  <2>2. CalView(c, s \o u) = CalView(CalView(c, s), u)
    BY <1>1, CalCat
  <2> QED
    BY <2>1, <2>2
<1> HIDE DEF u, d
<1>3. PICK f : Folding(f, Views, CalStep, d, u) /\ CalView(d, u) = f[1]
  BY <1>1, CalFolds
<1>4. f[0] = d /\ f[1] = CalStep[e][f[1 - 1]]
  BY <1>1, <1>3 DEF Folding, Steps
<1>5. CalStep[e][d] = ProcessCal(d, e)
  BY <1>1 DEF CalStep
<1> QED
  BY <1>2, <1>3, <1>4, <1>5 DEF d

-----------------------------------------------------------------------------
(* Sequences of numbers that rise.                                          *)

\* Concatenation of sequences of numbers.
LEMMA NatCat ==
  ASSUME NEW a \in Seq(Nat), NEW b \in Seq(Nat)
  PROVE  /\ a \o b \in Seq(Nat) /\ Len(a \o b) = Len(a) + Len(b)
         /\ Len(a) \in Nat /\ Len(b) \in Nat
         /\ \A i \in 1 .. Len(a) : (a \o b)[i] = a[i]
         /\ \A i \in 1 .. Len(b) : (a \o b)[Len(a) + i] = b[i]
         /\ \A i \in 1 .. Len(a) + Len(b) :
              i \in 1 .. Len(a) \/ \E j \in 1 .. Len(b) : i = Len(a) + j
<1>1. ASSUME NEW i \in 1 .. Len(a) + Len(b), i \notin 1 .. Len(a)
      PROVE  \E j \in 1 .. Len(b) : i = Len(a) + j
  <2>1. i - Len(a) \in 1 .. Len(b) /\ i = Len(a) + (i - Len(a))
    BY <1>1
  <2> QED
    BY <2>1
<1> QED
  BY <1>1, ConcatProperties

\* Dropping a piece from the middle leaves a rising sequence.
LEMMA RisingDrop ==
  ASSUME NEW a \in Seq(Nat), NEW b \in Seq(Nat), NEW c \in Seq(Nat), NEW n \in Nat,
         Rising((a \o b) \o c, n)
  PROVE  Rising(a \o c, n)
<1> DEFINE ab == a \o b
           x == ab \o c
           y == a \o c
           P(i) == IF i <= Len(a) THEN i ELSE i + Len(b)
<1>1. Len(a) \in Nat /\ Len(b) \in Nat /\ Len(c) \in Nat /\ ab \in Seq(Nat)
      /\ Len(ab) = Len(a) + Len(b) /\ Len(x) = Len(ab) + Len(c) /\ Len(y) = Len(a) + Len(c)
  OBVIOUS
<1>2. ASSUME NEW i \in 1 .. Len(y) PROVE P(i) \in 1 .. Len(x) /\ y[i] = x[P(i)]
  <2>1. CASE i <= Len(a)
    <3>1. y[i] = a[i] /\ ab[i] = a[i] /\ x[i] = ab[i]
      BY <1>1, <2>1, NatCat
    <3> QED
      BY <1>1, <2>1, <3>1
  <2>2. CASE i > Len(a)
    <3>1. y[i] = c[i - Len(a)] /\ x[i + Len(b)] = c[i - Len(a)]
      BY <1>1, <2>2
    <3> QED
      BY <1>1, <2>2, <3>1
  <2>3. i \in Nat
    BY <1>1
  <2> QED
    BY <1>1, <2>1, <2>2, <2>3
<1>3. ASSUME NEW i \in 1 .. Len(y), NEW j \in 1 .. Len(y), i < j PROVE P(i) < P(j)
  BY <1>1, <1>3
<1>4. Rising(x, n)
  OBVIOUS
<1> HIDE DEF ab, x, y, P
<1>5. \A i \in 1 .. Len(y) : y[i] \in 1 .. n
  BY <1>2, <1>4 DEF Rising
<1>6. ASSUME NEW i \in 1 .. Len(y), NEW j \in 1 .. Len(y), i < j PROVE y[i] < y[j]
  BY <1>2, <1>3, <1>4, <1>6 DEF Rising
<1>7. Rising(y, n)
  BY <1>5, <1>6 DEF Rising
<1> QED
  BY <1>7 DEF y

\* Adding the next numbers leaves a rising sequence, and a full count a full count.
Fresh(n, k) == [i \in 1 .. k |-> n + i]
LEMMA FreshType ==
  ASSUME NEW n \in Nat, NEW k \in Nat
  PROVE  Fresh(n, k) \in Seq(Nat) /\ Len(Fresh(n, k)) = k
BY DEF Fresh

LEMMA RisingAdd ==
  ASSUME NEW a \in Seq(Nat), NEW n \in Nat, NEW k \in Nat, Rising(a, n)
  PROVE  Rising(a \o Fresh(n, k), n + k)
<1> DEFINE b == Fresh(n, k)
           y == a \o b
<1>1. b \in Seq(Nat) /\ Len(b) = k /\ Len(a) \in Nat /\ Len(y) = Len(a) + k
      /\ \A i \in 1 .. k : b[i] = n + i
  BY FreshType DEF Fresh
<1>2. ASSUME NEW i \in 1 .. Len(y)
      PROVE  IF i <= Len(a) THEN y[i] = a[i] /\ i \in 1 .. Len(a) /\ y[i] \in 1 .. n
                            ELSE y[i] = n + (i - Len(a)) /\ i - Len(a) \in 1 .. k
  <2>1. CASE i <= Len(a)
    BY <1>1, <2>1 DEF Rising
  <2>2. CASE i > Len(a)
    <3>1. i - Len(a) \in 1 .. k /\ y[i] = b[i - Len(a)]
      BY <1>1, <2>2
    <3> QED
      BY <1>1, <2>2, <3>1
  <2> QED
    BY <1>1, <2>1, <2>2
<1> HIDE DEF b, y
<1>3. \A i \in 1 .. Len(y) : y[i] \in 1 .. n + k
  BY <1>1, <1>2
<1>4. ASSUME NEW i \in 1 .. Len(y), NEW j \in 1 .. Len(y), i < j PROVE y[i] < y[j]
  <2>1. i \in Nat /\ j \in Nat
    BY <1>1
  <2>2. CASE j <= Len(a)
    <3>1. i <= Len(a)
      BY <1>1, <1>4, <2>1, <2>2
    <3>2. y[i] = a[i] /\ i \in 1 .. Len(a) /\ y[j] = a[j] /\ j \in 1 .. Len(a)
      BY <1>2, <2>2, <3>1
    <3> QED
      BY <1>4, <3>2 DEF Rising
  <2>3. CASE i <= Len(a) /\ j > Len(a)
    <3>1. y[i] \in 1 .. n /\ y[j] = n + (j - Len(a)) /\ j - Len(a) \in 1 .. k
      BY <1>1, <1>2, <2>1, <2>3
    <3> QED
      BY <3>1
  <2>4. CASE i > Len(a)
    <3>1. y[i] = n + (i - Len(a)) /\ y[j] = n + (j - Len(a))
      BY <1>1, <1>2, <1>4, <2>1, <2>4
    <3> QED
      BY <1>1, <1>4, <2>1, <3>1
  <2> QED
    BY <1>1, <2>1, <2>2, <2>3, <2>4
<1>5. Rising(y, n + k)
  BY <1>3, <1>4 DEF Rising
<1> QED
  BY <1>5 DEF y, b

LEMMA CountAdd ==
  ASSUME NEW n \in Nat, NEW k \in Nat
  PROVE  /\ Count(n) \o Fresh(n, k) = Count(n + k)
         /\ Count(n) \in Seq(Nat)
<1>1. Count(n) \in Seq(Nat) /\ Len(Count(n)) = n /\ Fresh(n, k) \in Seq(Nat)
      /\ Len(Fresh(n, k)) = k /\ Count(n + k) \in Seq(Nat) /\ Len(Count(n + k)) = n + k
  BY DEF Count, Fresh
<1>2. \A i \in 1 .. n + k : (Count(n) \o Fresh(n, k))[i] = Count(n + k)[i]
  BY <1>1 DEF Count, Fresh
<1>3. Count(n) \o Fresh(n, k) \in Seq(Nat) /\ Len(Count(n) \o Fresh(n, k)) = n + k
  BY <1>1
<1> QED
  BY <1>1, <1>2, <1>3, SeqEqual

LEMMA CountOne ==
  ASSUME NEW n \in Nat
  PROVE  Append(Count(n), n + 1) = Count(n + 1)
<1>1. Append(Count(n), n + 1) \in Seq(Nat) /\ Len(Append(Count(n), n + 1)) = n + 1
      /\ Count(n + 1) \in Seq(Nat) /\ Len(Count(n + 1)) = n + 1
  BY DEF Count
<1>2. \A i \in 1 .. n + 1 : Append(Count(n), n + 1)[i] = Count(n + 1)[i]
  BY DEF Count
<1> QED
  BY <1>1, <1>2, SeqEqual

\* A rising sequence holds no looped character in any of its pieces.
LEMMA RisingParts ==
  ASSUME NEW a \in Seq(Nat), NEW b \in Seq(Nat), NEW n \in Nat, Rising(a \o b, n)
  PROVE  /\ \A i \in 1 .. Len(b) : b[i] # Loop
         /\ Rising(a, n)
<1>1. Len(a \o b) = Len(a) + Len(b) /\ Len(a) \in Nat /\ Len(b) \in Nat
      /\ (\A i \in 1 .. Len(a) : (a \o b)[i] = a[i])
      /\ \A i \in 1 .. Len(b) : (a \o b)[Len(a) + i] = b[i]
  BY NatCat
<1>2. ASSUME NEW i \in 1 .. Len(b) PROVE b[i] # 0
  <2>1. Len(a) + i \in 1 .. Len(a \o b)
    BY <1>1
  <2>2. (a \o b)[Len(a) + i] \in 1 .. n
    BY <2>1 DEF Rising
  <2> QED
    BY <1>1, <2>2
<1>3. \A i \in 1 .. Len(a) : i \in 1 .. Len(a \o b)
  BY <1>1
<1> QED
  BY <1>1, <1>2, <1>3 DEF Rising, Loop

-----------------------------------------------------------------------------
(* Sizes, and the line that is served next.                                 *)

LEMMA Sizes ==
  /\ NLine \in Nat /\ NLine > 0 /\ Fsize \in Nat /\ Fsize > 0
  /\ MinRblk \in Nat /\ MinRblk > 0 /\ MinRblk <= Fsize
BY TermAssumption

\* The maximum of a non-empty set within a bound is in the set.
LEMMA MaxInSet ==
  ASSUME NEW N \in Nat, NEW T, T \subseteq 0 .. N, T # {}
  PROVE  Max(T) \in T
<1> DEFINE D == {d \in 0 .. N : N - d \in T}
<1>1. D \subseteq Nat /\ \A y \in T : N - y \in D
  OBVIOUS
<1>2. PICK m \in D : \A k \in D : m <= k
  BY <1>1, Least
<1>3. \A y \in T : N - m >= y
  BY <1>1, <1>2
<1> QED
  BY <1>2, <1>3 DEF Max

\* The size of the next block read is at least the minimum and fits the fifo.
LEMMA NextSize ==
  ASSUME Types
  PROVE  NextRblkSize \in MinRblk .. Fsize
<1>1. Fsize \in Nat /\ MinRblk \in Nat /\ MinRblk <= Fsize
  BY TermAssumption
<1>2. Len(blk) \in 0 .. Fsize /\ Len(tbuf) \in Nat /\ fuses \subseteq 0 .. Fsize
  BY <1>1 DEF Types
<1>3. Max({Len(blk)} \cup fuses) \in 0 .. Fsize
  <2> DEFINE T == {Len(blk)} \cup fuses
  <2>1. T \subseteq 0 .. Fsize /\ T # {}
    BY <1>2
  <2> HIDE DEF T
  <2>2. Max(T) \in T
    BY <1>1, <2>1, MaxInSet
  <2> QED
    BY <2>1, <2>2 DEF T
<1>4. MinOf(Len(blk) + Len(tbuf), Fsize) \in 0 .. Fsize
  BY <1>1, <1>2 DEF MinOf
<1> QED
  BY <1>1, <1>3, <1>4 DEF NextRblkSize, MaxOf

\* There is a next line when a queue holds something.
LEMMA NextBusy ==
  ASSUME Types, \E l \in Line : Busy(l)
  PROVE  NextBusyRxUnit \in Line /\ Busy(NextBusyRxUnit)
<1> DEFINE Dist(l) == (l - fRxCurUnit - 1) % NLine
           D == {Dist(l) : l \in {m \in Line : Busy(m)}}
           Good(l) == l \in Line /\ Busy(l) /\ \A m \in Line : Busy(m) => Dist(l) <= Dist(m)
<1>1. NLine \in Nat /\ NLine > 0 /\ fRxCurUnit \in Line
  BY Sizes DEF Types
<1>2. \A l \in Line : Dist(l) \in Nat
  BY <1>1 DEF Line
<1>3. D \subseteq Nat /\ D # {}
  BY <1>2
<1>4. PICK d \in D : \A k \in D : d <= k
  <2> HIDE DEF D
  <2> QED
    BY <1>3, Least
<1>5. PICK l \in Line : Busy(l) /\ d = Dist(l)
  BY <1>4
<1>6. \A m \in Line : Busy(m) => Dist(l) <= Dist(m)
  BY <1>4, <1>5
<1>7. NextBusyRxUnit = CHOOSE k \in Line : Busy(k) /\ \A m \in Line : Busy(m) => Dist(k) <= Dist(m)
  BY DEF NextBusyRxUnit
<1> HIDE DEF Dist
<1> QED
  BY <1>5, <1>6, <1>7

-----------------------------------------------------------------------------
(* What a step leaves alone.                                                *)

LEMMA RoomFrame ==
  ASSUME Room, pc' = pc, blk' = blk, rbuf' = rbuf, fLastFuse' = fLastFuse,
         fRxQlim' = fRxQlim, aux'.nak = aux.nak, aux'.looped = aux.looped
  PROVE  Room'
BY DEF Room, NoOverrun, Nmax, Given

LEMMA FetchFrame ==
  ASSUME Fetch, pc' = pc, blk' = blk, tbuf' = tbuf, fTxQueBusy' = fTxQueBusy,
         fuses' = fuses, lam => lam'
  PROVE  Fetch'
BY DEF Fetch, TxNotStranded, Reads, LastSeen

LEMMA RefillFrame ==
  ASSUME Refill, pc' = pc, blk' = blk, rbuf' = rbuf, fLastFuse' = fLastFuse, prim' = prim,
         fRcvQueue' = fRcvQueue, lam => lam', aux.mute => aux'.mute
  PROVE  Refill'
BY DEF Refill, Reads, Quiet, Busy, ToRead

LEMMA CalFrame ==
  ASSUME Cal, fCur' = fCur, Held' = Held, tbuf' = tbuf, reg'.q = reg.q,
         reg'.mse = reg.mse, reg'.maint = reg.maint, reg'.rxon = reg.rxon,
         aux'.clean => aux.clean
  PROVE  Cal'
<1>1. Believed' = Believed
  BY DEF Believed
<1> QED
  BY <1>1 DEF Cal

LEMMA TransmittedFrame ==
  ASSUME Transmitted, out' = out, Held' = Held, tbuf' = tbuf, txn' = txn
  PROVE  Transmitted'
BY DEF Transmitted, Sent

LEMMA ReceivedFrame ==
  ASSUME Received, got' = got, rbuf' = rbuf, Given' = Given, fRcvQueue' = fRcvQueue,
         rxn' = rxn, aux.dropped => aux'.dropped
  PROVE  Received'
BY DEF Received, All

\* The blocks are sequences of entries.
LEMMA BlockTypes ==
  ASSUME Types
  PROVE  /\ Held \in Seq(Entry) /\ Given \in Seq(Entry)
         /\ \A l \in Line : /\ out[l] \in Seq(Nat) /\ got[l] \in Seq(Nat)
                            /\ fRcvQueue[l] \in Seq(Nat)
                            /\ txn[l] \in Nat /\ rxn[l] \in Nat
                            /\ ChrsOf(Held, l) \in Seq(Nat) /\ ChrsOf(Given, l) \in Seq(Nat)
                            /\ ChrsOf(tbuf, l) \in Seq(Nat) /\ ChrsOf(rbuf, l) \in Seq(Nat)
<1>1. Held \in Seq(Entry) /\ Given \in Seq(Entry)
  BY DEF Held, Given, Types
<1> QED
  BY <1>1, ChrsType DEF Types

-----------------------------------------------------------------------------
(* Writes to the transmit fifo.                                             *)

LEMMA AppendCat ==
  ASSUME NEW S, NEW a \in Seq(S), NEW b \in Seq(S), NEW e \in S
  PROVE  a \o Append(b, e) = Append(a \o b, e)
<1> DEFINE x == a \o Append(b, e)
           y == Append(a \o b, e)
<1>1. x \in Seq(S) /\ y \in Seq(S) /\ Len(x) = Len(y) /\ Len(x) = Len(a) + Len(b) + 1
      /\ Len(a) \in Nat /\ Len(b) \in Nat
  OBVIOUS
<1>2. ASSUME NEW i \in 1 .. Len(x) PROVE x[i] = y[i]
  <2>1. CASE i <= Len(a)
    BY <1>1, <2>1
  <2>2. CASE i > Len(a) /\ i <= Len(a) + Len(b)
    BY <1>1, <2>2
  <2>3. CASE i = Len(a) + Len(b) + 1
    BY <1>1, <2>3
  <2> QED
    BY <1>1, <2>1, <2>2, <2>3
<1> HIDE DEF x, y
<1>3. x = y
  BY <1>1, <1>2, SeqEqual
<1> QED
  BY <1>3 DEF x, y

LEMMA WriteFacts ==
  ASSUME Types, NEW e \in Entry, ~Full(tbuf), TbufWrite(e)
  PROVE  /\ tbuf' \in Seq(Entry) /\ Len(tbuf') <= Fsize /\ tbuf' # <<>>
         /\ lam' \in BOOLEAN /\ (lam => lam')
<1>1. Fsize \in Nat /\ tbuf \in Seq(Entry) /\ Len(tbuf) \in Nat /\ lam \in BOOLEAN
  BY Sizes DEF Types
<1>2. lam' \in BOOLEAN /\ (lam => lam')
  BY <1>1 DEF TbufWrite
<1>3. tbuf' = Append(tbuf, e) /\ Len(tbuf) < Fsize
  BY <1>1 DEF TbufWrite, Full
<1> QED
  BY <1>1, <1>2, <1>3

LEMMA FetchWrite ==
  ASSUME Types, Fetch, NEW e, TbufWrite(e), pc' = pc, blk' = blk, fuses' = fuses,
         fTxQueBusy' = fTxQueBusy
  PROVE  Fetch'
<1>1. CASE tbuf = <<>>
  <2>1. lam'
    BY <1>1 DEF TbufWrite
  <2> QED
    BY <2>1 DEF Fetch, TxNotStranded
<1>2. CASE tbuf # <<>>
  <2>1. lam => lam'
    BY DEF TbufWrite
  <2> QED
    BY <1>2, <2>1 DEF Fetch, TxNotStranded, Reads, LastSeen
<1> QED
  BY <1>1, <1>2

LEMMA BelievedWrite ==
  ASSUME Types, NEW e \in Entry, TbufWrite(e), fCur' = fCur, Held' = Held
  PROVE  Believed' = ProcessCal(Believed, e) /\ Believed \in Views
<1>1. Held \in Seq(Entry) /\ tbuf \in Seq(Entry) /\ fCur \in Views
  BY BlockTypes DEF Types
<1>2. tbuf' = Append(tbuf, e)
  BY DEF TbufWrite
<1>3. Held \o Append(tbuf, e) = Append(Held \o tbuf, e)
  BY <1>1, AppendCat
<1>4. Held \o tbuf \in Seq(Entry)
  BY <1>1
<1> DEFINE b == Held \o tbuf
<1>5. Believed' = CalView(fCur, Append(b, e)) /\ Believed = CalView(fCur, b)
  BY <1>2, <1>3 DEF Believed
<1> HIDE DEF b
<1>6. b \in Seq(Entry)
  BY <1>4 DEF b
<1> QED
  BY <1>1, <1>5, <1>6, CalAppend, CalType

LEMMA SentWrite ==
  ASSUME Types, NEW e \in Entry, TbufWrite(e), out' = out, Held' = Held, NEW l \in Line
  PROVE  Sent(l)' = IF IsChr(e, l) THEN Append(Sent(l), e.v) ELSE Sent(l)
<1>1. out[l] \in Seq(Nat) /\ ChrsOf(Held, l) \in Seq(Nat) /\ ChrsOf(tbuf, l) \in Seq(Nat)
      /\ tbuf \in Seq(Entry)
  BY BlockTypes DEF Types
<1>2. ChrsOf(tbuf', l) = IF IsChr(e, l) THEN Append(ChrsOf(tbuf, l), e.v) ELSE ChrsOf(tbuf, l)
  BY <1>1, ChrsAppend DEF TbufWrite
<1>3. Sent(l)' = (out[l] \o ChrsOf(Held, l)) \o ChrsOf(tbuf', l)
  BY DEF Sent
<1>4. CASE IsChr(e, l)
  <2> DEFINE a == out[l] \o ChrsOf(Held, l)
             b == ChrsOf(tbuf, l)
  <2>1. e.v \in Nat /\ a \in Seq(Nat) /\ b \in Seq(Nat)
    BY <1>1, <1>4, ChrValue DEF IsChr
  <2>2. a \o Append(b, e.v) = Append(a \o b, e.v)
    <3> HIDE DEF a, b
    <3> QED
      BY <2>1, AppendCat
  <2> QED
    BY <1>2, <1>3, <1>4, <2>2 DEF Sent
<1>5. CASE ~IsChr(e, l)
  BY <1>2, <1>3, <1>5 DEF Sent
<1> QED
  BY <1>4, <1>5

-----------------------------------------------------------------------------
(* The FPGA and the CPU.                                                    *)

LEMMA LinesIn == Lines \subseteq Line
<1>1. NLine \in Nat /\ NLine # 0
  BY Sizes
<1>2. 0 \in Line
  BY <1>1 DEF Line
<1> QED
  BY <1>2 DEF Lines

LEMMA ScanStep ==
  ASSUME Inv, Scan
  PROVE  Inv'
<1> USE DEF Scan, host, rx, tx, job, ends
<1>1. PICK l \in Lines : reg' = [reg EXCEPT !.rdy = l]
  OBVIOUS
<1>2. kind' = kind /\ Lines \subseteq Line /\ reg \in Regs /\ reg.rdy \in Lines \cup {NoLine}
  BY LinesIn DEF Inv, Types
<1>3. reg' \in Regs /\ reg'.rdy = l /\ reg'.q = reg.q /\ reg'.mse = reg.mse
      /\ reg'.maint = reg.maint /\ reg'.rxon = reg.rxon
  BY <1>1, <1>2 DEF Regs
<1>4. Lines' = Lines /\ Held' = Held /\ Given' = Given
  BY DEF Lines, Held, Given, Reads
<1>5. Types'
  BY <1>3, <1>4 DEF Inv, Types
<1>6. Room' /\ Fetch'
  BY RoomFrame, FetchFrame DEF Inv
<1>7. Refill'
  BY <1>3, RefillFrame DEF Inv, Refill
<1>8. Cal'
  BY <1>3, <1>4, CalFrame DEF Inv
<1>9. Transmitted' /\ Received'
  BY <1>4, TransmittedFrame, ReceivedFrame DEF Inv
<1> QED
  BY <1>5, <1>6, <1>7, <1>8, <1>9 DEF Inv

LEMMA CalPutStep ==
  ASSUME Inv, CalPut
  PROVE  Inv'
<1> USE DEF host, rx, tx, job, ends
<1>1. pc' = pc /\ blk' = blk /\ fuses' = fuses /\ prim' = prim /\ kind' = kind /\ rbuf' = rbuf
      /\ fRcvQueue' = fRcvQueue /\ fRxQlim' = fRxQlim /\ fRxCurUnit' = fRxCurUnit
      /\ fLastFuse' = fLastFuse /\ fTxRblkSize' = fTxRblkSize /\ primSize' = primSize
      /\ fTxQueBusy' = fTxQueBusy /\ fCur' = fCur /\ txn' = txn /\ rxn' = rxn /\ out' = out
      /\ got' = got /\ aux' = aux
  BY DEF CalPut
<1>2. reg \in Regs /\ Types /\ Cal
  BY DEF Inv, Types
<1>3. Lines' = Lines /\ Held' = Held /\ Given' = Given
  BY <1>1 DEF Lines, Held, Given, Reads
<1>4. ASSUME NEW e \in Entry, TbufWrite(e), e.t # "chr", ~Full(tbuf), reg' \in Regs,
             reg'.rdy = reg.rdy, reg'.mse = reg.mse, reg'.maint = reg.maint,
             reg'.rxon = reg.rxon, Cal'
      PROVE  Inv'
  <2>1. tbuf' \in Seq(Entry) /\ Len(tbuf') <= Fsize /\ lam' \in BOOLEAN /\ (lam => lam')
    BY <1>2, <1>4, WriteFacts
  <2>2. Types'
    BY <1>1, <1>2, <1>3, <1>4, <2>1 DEF Types
  <2>3. Room' /\ Refill'
    BY <1>1, <1>4, <2>1, RoomFrame, RefillFrame DEF Inv, Refill
  <2>4. Fetch'
    BY <1>1, <1>2, <1>4, FetchWrite DEF Inv
  <2>5. Transmitted'
    <3>1. ASSUME NEW l \in Line PROVE Sent(l)' = Sent(l)
      BY <1>1, <1>2, <1>3, <1>4, SentWrite DEF IsChr
    <3> QED
      BY <1>1, <3>1 DEF Transmitted, Inv
  <2>6. Received'
    BY <1>1, <1>3, ReceivedFrame DEF Inv
  <2> QED
    BY <1>4, <2>2, <2>3, <2>4, <2>5, <2>6 DEF Inv
<1>7. CASE "brk" \in reg.q
  <2> DEFINE e == [t |-> "brk"]
  <2>1. TbufWrite(e) /\ reg' = [reg EXCEPT !.q = @ \ {"brk"}] /\ ~Full(tbuf)
    BY <1>7 DEF CalPut
  <2>2. e \in Entry /\ e.t = "brk"
    BY DEF Entry
  <2>3. reg' \in Regs /\ reg'.rdy = reg.rdy /\ reg'.mse = reg.mse /\ reg'.maint = reg.maint
        /\ reg'.rxon = reg.rxon /\ reg'.q = reg.q \ {"brk"}
    BY <1>2, <2>1 DEF Regs
  <2> HIDE DEF e
  <2>4. Believed' = ProcessCal(Believed, e) /\ Believed \in Views
    BY <1>1, <1>2, <1>3, <2>1, <2>2, BelievedWrite
  <2>5. Believed' = Believed
    BY <2>2, <2>4 DEF ProcessCal
  <2>6. Cal'
    BY <1>1, <1>2, <2>3, <2>5 DEF Cal
  <2> QED
    BY <1>4, <2>1, <2>2, <2>3, <2>6
<1>5. CASE "brk" \notin reg.q /\ "rxon" \in reg.q
  <2> DEFINE e == [t |-> "rxon", rxon |-> reg.rxon]
  <2>1. TbufWrite(e) /\ reg' = [reg EXCEPT !.q = @ \ {"rxon"}] /\ ~Full(tbuf)
    BY <1>5 DEF CalPut
  <2>2. e \in Entry /\ e.t = "rxon" /\ e.rxon = reg.rxon
    BY <1>2 DEF Regs, Entry
  <2>3. reg' \in Regs /\ reg'.rdy = reg.rdy /\ reg'.mse = reg.mse /\ reg'.maint = reg.maint
        /\ reg'.rxon = reg.rxon /\ reg'.q = reg.q \ {"rxon"}
    BY <1>2, <2>1 DEF Regs
  <2> HIDE DEF e
  <2>4. Believed' = ProcessCal(Believed, e) /\ Believed \in Views
    BY <1>1, <1>2, <1>3, <2>1, <2>2, BelievedWrite
  <2>5. Believed'.mse = Believed.mse /\ Believed'.maint = Believed.maint
        /\ Believed'.rxon = reg.rxon
    BY <2>2, <2>4 DEF ProcessCal, Views
  <2>6. Cal'
    BY <1>1, <1>2, <1>5, <2>3, <2>5 DEF Cal
  <2> QED
    BY <1>4, <2>1, <2>2, <2>3, <2>6
<1>6. CASE "brk" \notin reg.q /\ "rxon" \notin reg.q
  <2> DEFINE e == [t |-> "csr", mse |-> reg.mse, maint |-> reg.maint, clr |-> "clr" \in reg.q]
  <2>1. TbufWrite(e) /\ reg' = [reg EXCEPT !.q = {}] /\ ~Full(tbuf)
    BY <1>6 DEF CalPut
  <2>2. e \in Entry /\ e.t = "csr" /\ e.mse = reg.mse /\ e.maint = reg.maint
    BY <1>2 DEF Regs, Entry
  <2>3. e.clr <=> "clr" \in reg.q
    OBVIOUS
  <2>4. reg' \in Regs /\ reg'.rdy = reg.rdy /\ reg'.mse = reg.mse /\ reg'.maint = reg.maint
        /\ reg'.rxon = reg.rxon /\ reg'.q = {}
    BY <1>2, <2>1 DEF Regs
  <2> HIDE DEF e
  <2>5. Believed' = ProcessCal(Believed, e) /\ Believed \in Views
    BY <1>1, <1>2, <1>3, <2>1, <2>2, BelievedWrite
  <2>6. Believed'.mse = reg.mse /\ Believed'.maint = reg.maint
        /\ Believed'.rxon = IF e.clr THEN {} ELSE Believed.rxon
    BY <2>2, <2>5 DEF ProcessCal, Views
  <2>7. Cal'
    BY <1>1, <1>2, <1>6, <2>3, <2>4, <2>6 DEF Cal
  <2> QED
    BY <1>4, <2>1, <2>2, <2>4, <2>7
<1> QED
  BY <1>5, <1>6, <1>7

LEMMA CpuTxStep ==
  ASSUME Inv, CpuTx
  PROVE  Inv'
<1> USE DEF host, rx, tx, job
<1>1. pc' = pc /\ blk' = blk /\ fuses' = fuses /\ prim' = prim /\ kind' = kind
      /\ fRcvQueue' = fRcvQueue /\ fRxQlim' = fRxQlim /\ fRxCurUnit' = fRxCurUnit
      /\ fLastFuse' = fLastFuse /\ fTxRblkSize' = fTxRblkSize /\ primSize' = primSize
      /\ fTxQueBusy' = fTxQueBusy /\ fCur' = fCur /\ rxn' = rxn /\ out' = out /\ got' = got
  BY DEF CpuTx
<1>2. reg \in Regs /\ Types /\ Cal /\ aux \in Auxs
  BY DEF Inv, Types
<1>3. Lines' = Lines /\ Held' = Held /\ Given' = Given
  BY <1>1 DEF Lines, Held, Given, Reads
<1>4. reg' \in Regs /\ reg'.q = reg.q /\ reg'.mse = reg.mse /\ reg'.maint = reg.maint
      /\ reg'.rxon = reg.rxon /\ reg'.rdy = NoLine
  BY <1>2 DEF CpuTx, Regs
<1>5. reg.rdy \in Line
  <2>1. reg.rdy # NoLine /\ reg.rdy \in Line \cup {NoLine}
    BY <1>2 DEF CpuTx, Regs
  <2> QED
    BY <2>1
<1>6. CASE UNCHANGED <<tbuf, rbuf, lam, txn, aux>>
  <2>1. Types'
    BY <1>1, <1>2, <1>3, <1>4, <1>6 DEF Types
  <2>2. Room' /\ Fetch'
    BY <1>1, <1>6, RoomFrame, FetchFrame DEF Inv
  <2>3. Refill'
    BY <1>1, <1>4, <1>6, RefillFrame DEF Inv, Refill
  <2>4. Cal'
    BY <1>1, <1>3, <1>4, <1>6, CalFrame DEF Inv
  <2>5. Transmitted' /\ Received'
    BY <1>1, <1>3, <1>6, TransmittedFrame, ReceivedFrame DEF Inv
  <2> QED
    BY <2>1, <2>2, <2>3, <2>4, <2>5 DEF Inv
<1>9. CASE /\ ~Full(tbuf) /\ TbufWrite([t |-> "ferr", line |-> reg.rdy])
           /\ UNCHANGED <<rbuf, txn, aux>>
  <2> DEFINE e == [t |-> "ferr", line |-> reg.rdy]
  <2>1. TbufWrite(e)
    BY <1>9
  <2>2. e \in Entry /\ e.t = "ferr"
    BY <1>5 DEF Entry
  <2> HIDE DEF e
  <2>3. tbuf' \in Seq(Entry) /\ Len(tbuf') <= Fsize /\ lam' \in BOOLEAN /\ (lam => lam')
    BY <1>2, <1>9, <2>1, <2>2, WriteFacts
  <2>4. Types'
    BY <1>1, <1>2, <1>3, <1>4, <1>9, <2>3 DEF Types
  <2>5. Room' /\ Refill'
    BY <1>1, <1>4, <1>9, <2>3, RoomFrame, RefillFrame DEF Inv
  <2>6. Fetch'
    BY <1>1, <1>2, <2>1, FetchWrite DEF Inv
  <2>7. Cal'
    <3>1. Believed' = ProcessCal(Believed, e)
      BY <1>1, <1>2, <1>3, <2>1, <2>2, BelievedWrite
    <3>2. Believed' = Believed
      BY <2>2, <3>1 DEF ProcessCal
    <3> QED
      BY <1>2, <1>4, <1>9, <3>2 DEF Cal
  <2>8. Transmitted'
    <3>1. ASSUME NEW l \in Line PROVE Sent(l)' = Sent(l)
      BY <1>1, <1>2, <1>3, <2>1, <2>2, SentWrite DEF IsChr
    <3> QED
      BY <1>9, <3>1 DEF Transmitted, Inv
  <2>9. Received'
    BY <1>1, <1>3, <1>9, ReceivedFrame DEF Inv
  <2> QED
    BY <2>4, <2>5, <2>6, <2>7, <2>8, <2>9 DEF Inv
<1>7. CASE /\ ~reg.maint /\ ~Full(tbuf)
           /\ txn' = [txn EXCEPT ![reg.rdy] = @ + 1]
           /\ TbufWrite(Chr(reg.rdy, txn'[reg.rdy])) /\ UNCHANGED <<rbuf, aux>>
  <2> DEFINE n == txn[reg.rdy]
             e == Chr(reg.rdy, n + 1)
  <2>1. n \in Nat /\ txn' \in [Line -> Nat] /\ txn'[reg.rdy] = n + 1
        /\ \A l \in Line : l # reg.rdy => txn'[l] = txn[l]
    <3>1. txn \in [Line -> Nat]
      BY <1>2 DEF Types
    <3> QED
      BY <1>5, <1>7, <3>1
  <2>2. TbufWrite(e)
    BY <1>7, <2>1
  <2> HIDE DEF n
  <2>3. e \in Entry /\ e.t = "chr" /\ e.v = n + 1 /\ \A l \in Line : IsChr(e, l) <=> l = reg.rdy
    BY <1>5, <2>1 DEF Chr, Entry, IsChr, Loop
  <2> HIDE DEF e
  <2>4. tbuf' \in Seq(Entry) /\ Len(tbuf') <= Fsize /\ lam' \in BOOLEAN /\ (lam => lam')
    BY <1>2, <1>7, <2>2, <2>3, WriteFacts
  <2>5. Types'
    BY <1>1, <1>2, <1>3, <1>4, <1>7, <2>1, <2>4 DEF Types
  <2>6. Room' /\ Refill'
    BY <1>1, <1>4, <1>7, <2>4, RoomFrame, RefillFrame DEF Inv, Refill
  <2>7. Fetch'
    BY <1>1, <1>2, <2>2, FetchWrite DEF Inv
  <2>8. Cal'
    <3>1. Believed' = ProcessCal(Believed, e)
      BY <1>1, <1>2, <1>3, <2>2, <2>3, BelievedWrite
    <3>2. Believed' = Believed
      BY <2>3, <3>1 DEF ProcessCal
    <3> QED
      BY <1>2, <1>4, <1>7, <3>2 DEF Cal
  <2>9. Transmitted'
    <3> SUFFICES ASSUME NEW l \in Line PROVE Sent(l)' = Count(txn'[l])
      BY DEF Transmitted
    <3>1. Sent(l)' = IF IsChr(e, l) THEN Append(Sent(l), e.v) ELSE Sent(l)
      BY <1>1, <1>2, <1>3, <2>2, <2>3, SentWrite
    <3>2. Sent(l) = Count(txn[l])
      BY DEF Inv, Transmitted
    <3>3. CASE l = reg.rdy
      BY <2>1, <2>3, <3>1, <3>2, <3>3, CountOne DEF n
    <3>4. CASE l # reg.rdy
      BY <2>1, <2>3, <3>1, <3>2, <3>4
    <3> QED
      BY <3>3, <3>4
  <2>10. Received'
    BY <1>1, <1>3, <1>7, ReceivedFrame DEF Inv
  <2> QED
    BY <2>5, <2>6, <2>7, <2>8, <2>9, <2>10 DEF Inv
<1>8. CASE /\ reg.maint /\ ~Full(rbuf) /\ reg.rdy \in reg.rxon
           /\ rbuf' = Append(rbuf, Chr(reg.rdy, Loop))
           /\ aux' = [aux EXCEPT !.looped = TRUE, !.mute = FALSE]
           /\ UNCHANGED <<tbuf, lam, txn>>
  <2> DEFINE e == Chr(reg.rdy, Loop)
  <2>1. aux' \in Auxs /\ aux'.looped /\ aux'.dropped = aux.dropped /\ aux'.nak = aux.nak
        /\ aux'.clean = aux.clean
    BY <1>2, <1>8 DEF Auxs
  <2>2. e \in Entry /\ \A l \in Line : ~IsChr(e, l)
    BY <1>5 DEF Chr, Entry, IsChr, Loop
  <2>3. rbuf' = Append(rbuf, e) /\ rbuf \in Seq(Entry) /\ Len(rbuf) < Fsize
    <3>1. rbuf \in Seq(Entry)
      BY <1>2 DEF Types
    <3>2. Len(rbuf) \in Nat /\ Fsize \in Nat
      BY <3>1, Sizes, LenProperties
    <3> QED
      BY <1>8, <3>1, <3>2 DEF Full
  <2> HIDE DEF e
  <2>4. rbuf' \in Seq(Entry) /\ Len(rbuf') <= Fsize /\ rbuf' # <<>>
    BY <2>2, <2>3, Sizes, AppendProperties, LenProperties
  <2>5. Types'
    BY <1>1, <1>2, <1>3, <1>4, <1>8, <2>1, <2>4 DEF Types
  <2>6. Room'
    <3>1. pc' = "rx" /\ blk' # <<>> => Len(blk') <= Nmax'
      BY <1>1 DEF Inv, Room, Nmax
    <3>2. e \in Chars /\ rbuf \in Seq(Chars)
      BY <1>5 DEF e, Chr, Chars, Loop, Inv, Room
    <3>3. rbuf' \in Seq(Chars)
      BY <2>3, <3>2
    <3>4. Given' \in Seq(Chars)
      BY <1>3 DEF Inv, Room
    <3> QED
      BY <2>1, <3>1, <3>3, <3>4 DEF Room, NoOverrun
  <2>7. Fetch'
    BY <1>1, <1>8, FetchFrame DEF Inv
  <2>8. Refill'
    BY <2>4 DEF Refill, ToRead
  <2>9. Cal'
    BY <1>1, <1>3, <1>4, <1>8, <2>1, CalFrame DEF Inv
  <2>10. Transmitted'
    BY <1>1, <1>3, <1>8, TransmittedFrame DEF Inv
  <2>11. Received'
    <3>1. ASSUME NEW l \in Line PROVE All(l)' = All(l)
      <4>1. ChrsOf(rbuf', l) = ChrsOf(rbuf, l)
        BY <2>2, <2>3, ChrsAppend
      <4> QED
        BY <1>1, <1>3, <4>1 DEF All
    <3> QED
      BY <1>1, <2>1, <3>1 DEF Inv, Received
  <2> QED
    BY <2>5, <2>6, <2>7, <2>8, <2>9, <2>10, <2>11 DEF Inv
<1> QED
  BY <1>6, <1>7, <1>8, <1>9 DEF CpuTx

LEMMA CharsEntry == Chars \subseteq Entry
BY DEF Chars, Entry

LEMMA CpuRxStep ==
  ASSUME Inv, CpuRx
  PROVE  Inv'
<1> USE DEF host, rx, tx, job
<1>1. pc' = pc /\ blk' = blk /\ fuses' = fuses /\ prim' = prim /\ kind' = kind /\ tbuf' = tbuf
      /\ reg' = reg /\ fRcvQueue' = fRcvQueue /\ fRxQlim' = fRxQlim /\ fRxCurUnit' = fRxCurUnit
      /\ fLastFuse' = fLastFuse /\ fTxRblkSize' = fTxRblkSize /\ primSize' = primSize
      /\ fTxQueBusy' = fTxQueBusy /\ fCur' = fCur /\ txn' = txn /\ rxn' = rxn /\ out' = out
  BY DEF CpuRx
<1>15. aux \in Auxs /\ aux' \in Auxs /\ aux'.dropped = aux.dropped /\ aux'.nak = aux.nak
       /\ aux'.looped = aux.looped /\ aux'.clean = aux.clean
       /\ (aux'.mute <=> Len(rbuf) = 1 /\ reg.maint)
  <2>1. aux \in Auxs
    BY DEF Inv, Types
  <2>2. aux' = [aux EXCEPT !.mute = (Len(rbuf) = 1 /\ reg.maint)]
    BY DEF CpuRx
  <2> QED
    BY <2>1, <2>2 DEF Auxs
<1>2. Types /\ Room /\ rbuf \in Seq(Chars) /\ rbuf \in Seq(Entry) /\ rbuf # <<>> /\ rbuf' = Tail(rbuf)
  BY DEF Inv, Types, Room, CpuRx
<1>3. Lines' = Lines /\ Held' = Held /\ Given' = Given
  BY <1>1 DEF Lines, Held, Given, Reads
<1> DEFINE e == Head(rbuf)
<1>4. e \in Chars /\ rbuf' \in Seq(Chars) /\ rbuf' \in Seq(Entry) /\ Len(rbuf') = Len(rbuf) - 1
      /\ Len(rbuf) \in Nat
  BY <1>2, HeadTailProperties, LenProperties
<1>5. e.line \in Line /\ e.v \in Nat /\ e.t = "chr" /\ e \in Entry
  BY <1>4, CharsEntry DEF Chars
<1>6. got' = IF e.v = Loop THEN got ELSE [got EXCEPT ![e.line] = Append(@, e.v)]
  BY DEF CpuRx
<1> HIDE DEF e
<1>7. got \in [Line -> Seq(Nat)] /\ got' \in [Line -> Seq(Nat)]
  <2>1. got \in [Line -> Seq(Nat)]
    BY <1>2 DEF Types
  <2>2. Append(got[e.line], e.v) \in Seq(Nat)
    BY <1>5, <2>1
  <2> QED
    BY <1>5, <1>6, <2>1, <2>2
<1>8. lam' \in BOOLEAN /\ (lam => lam') /\ (Len(rbuf) = 1 /\ ~reg.maint => lam')
  BY DEF CpuRx
<1>9. Types'
  <2>1. Len(rbuf') <= Fsize
    <3>1. Len(rbuf) <= Fsize
      BY <1>2 DEF Types
    <3> QED
      BY <1>4, <3>1, Sizes
  <2> QED
    BY <1>1, <1>2, <1>3, <1>4, <1>7, <1>8, <1>15, <2>1 DEF Types
<1>10. Room'
  <2>1. Fsize \in Nat /\ fLastFuse \in Nat /\ Len(blk) \in Nat
    BY <1>2, Sizes DEF Types
  <2> QED
    BY <1>1, <1>2, <1>3, <1>4, <1>15, <2>1 DEF Room, NoOverrun, Nmax
<1>11. Fetch'
  BY <1>1, <1>8, FetchFrame DEF Inv
<1>12. Refill'
  <2>1. ~aux'.mute => rbuf' # <<>> \/ lam'
    <3>1. rbuf' = <<>> => Len(rbuf) = 1
      BY <1>4
    <3> QED
      BY <1>8, <1>15, <3>1
  <2> QED
    BY <2>1 DEF Refill, ToRead
<1>13. Cal' /\ Transmitted'
  BY <1>1, <1>3, <1>15, CalFrame, TransmittedFrame DEF Inv
<1>14. Received'
  <2>1. ASSUME NEW l \in Line PROVE All(l)' = All(l)
    <3> DEFINE a == got[l]
               r == ChrsOf(rbuf', l)
               h == IF IsChr(e, l) THEN <<e.v>> ELSE <<>>
    <3>1. a \in Seq(Nat) /\ r \in Seq(Nat) /\ h \in Seq(Nat)
      BY <1>4, <1>5, <1>7, ChrsType
    <3>2. ChrsOf(rbuf, l) = h \o r
      BY <1>2, ChrsHead DEF e
    <3>3. got'[l] = a \o h
      <4>1. CASE IsChr(e, l)
        BY <1>5, <1>6, <1>7, <3>1, <4>1, AppendIsConcat DEF IsChr
      <4>2. CASE ~IsChr(e, l)
        <5>1. got'[l] = a /\ h = <<>>
          BY <1>5, <1>6, <1>7, <4>2 DEF IsChr
        <5> QED
          BY <3>1, <5>1, ConcatEmptySeq
      <4> QED
        BY <4>1, <4>2
    <3> HIDE DEF a, r, h
    <3>4. got'[l] \o ChrsOf(rbuf', l) = got[l] \o ChrsOf(rbuf, l)
      <4>1. (a \o h) \o r = a \o (h \o r)
        BY <3>1, Assoc
      <4> QED
        BY <3>2, <3>3, <4>1 DEF a, r
    <3> QED
      BY <1>1, <1>3, <3>4 DEF All
  <2> QED
    BY <1>1, <1>15, <2>1 DEF Inv, Received
<1> QED
  BY <1>9, <1>10, <1>11, <1>12, <1>13, <1>14 DEF Inv

\* A write to a register of the DZ11, or a bus reset, leaves fifos and handlers alone.
LEMMA RegStep ==
  ASSUME Inv, UNCHANGED <<kind, tbuf, rbuf, lam, host, txn, rxn, out, got>>, Cal',
         reg' \in Regs, reg'.rdy \in Lines \cup {NoLine}, aux' \in Auxs,
         aux.dropped => aux'.dropped, aux.mute => aux'.mute,
         aux'.nak = aux.nak, aux'.looped = aux.looped
  PROVE  Inv'
<1> USE DEF host, rx, tx, job
<1>1. Lines' = Lines /\ Held' = Held /\ Given' = Given
  BY DEF Lines, Held, Given, Reads
<1>2. Types'
  BY <1>1 DEF Inv, Types
<1>3. Room' /\ Fetch' /\ Refill'
  BY RoomFrame, FetchFrame, RefillFrame DEF Inv
<1>4. Transmitted' /\ Received'
  BY <1>1, TransmittedFrame, ReceivedFrame DEF Inv
<1> QED
  BY <1>2, <1>3, <1>4 DEF Inv

LEMMA BelievedSame ==
  ASSUME UNCHANGED <<kind, tbuf, rbuf, lam, host, txn, rxn, out, got>>
  PROVE  Believed' = Believed
BY DEF Believed, Held, Reads, host, rx, tx, job

LEMMA CpuCsrStep ==
  ASSUME Inv, NEW mse \in BOOLEAN, NEW maint \in BOOLEAN, NEW clr \in BOOLEAN,
         CpuCsr(mse, maint, clr)
  PROVE  Inv'
<1>1. UNCHANGED <<kind, tbuf, rbuf, lam, host, txn, rxn, out, got>>
  BY DEF CpuCsr, ends
<1>2. reg \in Regs /\ reg.rdy \in Lines \cup {NoLine} /\ aux \in Auxs
  BY DEF Inv, Types
<1>3. aux' = aux
  BY DEF CpuCsr, ends
<1>5. Believed' = Believed
  BY <1>1, BelievedSame
<1>6. CASE clr
  <2>1. reg' = [mse |-> FALSE, maint |-> FALSE, rxon |-> {}, brk |-> {}, rdy |-> NoLine,
                q |-> {"clr"}]
    BY <1>6 DEF CpuCsr, Device, Cleared
  <2>2. reg' \in Regs /\ reg'.rdy = NoLine /\ reg'.maint = FALSE /\ reg'.rxon = {}
        /\ reg'.q = {"clr"}
    BY <2>1 DEF Regs
  <2>3. Cal'
    BY <2>2 DEF Cal
  <2> QED
    BY <1>1, <1>2, <1>3, <2>2, <2>3, RegStep
<1>7. CASE ~clr
  <2>1. reg' = [reg EXCEPT !.mse = mse, !.maint = maint,
                             !.rdy = IF mse THEN @ ELSE NoLine,
                             !.q = IF <<mse, maint>> = <<reg.mse, reg.maint>> THEN @
                                   ELSE @ \cup {"csr"}]
    BY <1>7 DEF CpuCsr
  <2>2. reg'.mse = mse /\ reg'.maint = maint /\ reg'.rxon = reg.rxon
    BY <1>2, <2>1 DEF Regs
  <2>3. reg'.rdy \in Lines \cup {NoLine}
    BY <1>2, <2>1 DEF Regs
  <2>4. (mse = reg.mse /\ maint = reg.maint /\ reg'.q = reg.q) \/ reg'.q = reg.q \cup {"csr"}
    BY <1>2, <2>1 DEF Regs
  <2>5. reg' \in Regs
    <3>1. reg'.rdy \in Line \cup {NoLine}
      BY <2>3, LinesIn
    <3>2. reg'.q \in SUBSET {"brk", "rxon", "csr", "clr"}
      BY <1>2, <2>4 DEF Regs
    <3>3. reg' = [mse |-> reg'.mse, maint |-> reg'.maint, rxon |-> reg'.rxon,
                  brk |-> reg'.brk, rdy |-> reg'.rdy, q |-> reg'.q]
      BY <1>2, <2>1 DEF Regs
    <3>4. reg'.mse \in BOOLEAN /\ reg'.maint \in BOOLEAN /\ reg'.rxon \in SUBSET Line
          /\ reg'.brk \in SUBSET Line
      BY <1>2, <2>1, <2>2 DEF Regs
    <3> QED
      BY <3>1, <3>2, <3>3, <3>4 DEF Regs
  <2>6. Cal'
    BY <1>3, <1>5, <2>2, <2>4 DEF Inv, Cal
  <2> QED
    BY <1>1, <1>2, <1>3, <2>2, <2>3, <2>5, <2>6, RegStep
<1> QED
  BY <1>6, <1>7

LEMMA CpuLprStep ==
  ASSUME Inv, NEW l \in Line, CpuLpr(l)
  PROVE  Inv'
<1>1. UNCHANGED <<kind, tbuf, rbuf, lam, host, txn, rxn, out, got>>
  BY DEF CpuLpr
<1>2. reg \in Regs /\ reg.rdy \in Lines \cup {NoLine} /\ aux \in Auxs
  BY DEF Inv, Types
<1>3. aux' \in Auxs /\ aux'.dropped = aux.dropped /\ aux'.nak = aux.nak
      /\ aux'.looped = aux.looped /\ (aux'.clean => aux.clean /\ "clr" \notin reg.q)
      /\ aux'.mute = aux.mute
  BY <1>2 DEF CpuLpr, Auxs
<1>4. SymDiff(reg.rxon, {l}) \in SUBSET Line
  BY <1>2 DEF SymDiff, Regs
<1>5. reg' = [reg EXCEPT !.rxon = SymDiff(reg.rxon, {l}), !.q = reg.q \cup {"rxon"}]
  BY <1>2 DEF CpuLpr, Regs
<1>6. reg' \in Regs /\ reg'.rdy = reg.rdy /\ reg'.mse = reg.mse /\ reg'.maint = reg.maint
      /\ reg'.q = reg.q \cup {"rxon"}
  BY <1>2, <1>4, <1>5 DEF Regs
<1>7. Believed' = Believed
  BY <1>1, BelievedSame
<1>8. Cal'
  BY <1>3, <1>6, <1>7 DEF Inv, Cal
<1> QED
  BY <1>1, <1>2, <1>3, <1>6, <1>8, RegStep

LEMMA CpuBrkStep ==
  ASSUME Inv, NEW b \in SUBSET Line, CpuBrk(b)
  PROVE  Inv'
<1>1. UNCHANGED <<kind, tbuf, rbuf, lam, host, txn, rxn, out, got>> /\ aux' = aux
  BY DEF CpuBrk, ends
<1>2. reg \in Regs /\ reg.rdy \in Lines \cup {NoLine} /\ aux \in Auxs
  BY DEF Inv, Types
<1>3. reg' = [reg EXCEPT !.brk = b, !.q = reg.q \cup {"brk"}]
  BY <1>2 DEF CpuBrk, Regs
<1>4. reg' \in Regs /\ reg'.rdy = reg.rdy /\ reg'.mse = reg.mse /\ reg'.maint = reg.maint
      /\ reg'.rxon = reg.rxon /\ reg'.q = reg.q \cup {"brk"}
  BY <1>2, <1>3 DEF Regs
<1>5. Believed' = Believed
  BY <1>1, BelievedSame
<1>6. Cal'
  BY <1>1, <1>4, <1>5 DEF Inv, Cal
<1> QED
  BY <1>1, <1>2, <1>4, <1>6, RegStep

LEMMA BresetStep ==
  ASSUME Inv, Breset
  PROVE  Inv'
<1>1. UNCHANGED <<kind, tbuf, rbuf, lam, host, txn, rxn, out, got>>
  BY DEF Breset
<1>2. reg \in Regs /\ reg.rdy \in Lines \cup {NoLine} /\ aux \in Auxs
  BY DEF Inv, Types
<1>3. aux' \in Auxs /\ aux'.dropped = aux.dropped /\ aux'.nak = aux.nak
      /\ aux'.looped = aux.looped /\ ~aux'.clean /\ aux'.mute = aux.mute
  BY <1>2 DEF Breset, Auxs
<1>4. Cal'
  BY <1>3 DEF Cal
<1>5. CASE kind = "dl"
  <2>1. reg' = [reg EXCEPT !.rdy = 0] /\ 0 \in Lines /\ 0 \in Line
    BY <1>5, LinesIn DEF Breset, Lines
  <2>2. reg' \in Regs /\ reg'.rdy = 0 /\ reg'.maint = reg.maint
    BY <1>2, <2>1 DEF Regs
  <2> QED
    BY <1>1, <1>3, <1>4, <2>1, <2>2, RegStep
<1>6. CASE kind # "dl"
  <2>1. reg' = [mse |-> FALSE, maint |-> FALSE, rxon |-> {}, brk |-> {},
                rdy |-> NoLine, q |-> reg.q \cap {"clr"}]
    BY <1>6 DEF Breset, Device, Cleared
  <2>2. reg' \in Regs /\ reg'.rdy = NoLine /\ reg'.maint = FALSE
    BY <2>1 DEF Regs
  <2> QED
    BY <1>1, <1>3, <1>4, <2>2, RegStep
<1> QED
  BY <1>5, <1>6

-----------------------------------------------------------------------------
(* The handlers: transmit side.                                             *)

LEMMA AttnReadStep ==
  ASSUME Inv, AttnRead
  PROVE  Inv'
<1> USE DEF AttnRead, rx, tx, ends
<1>1. pc = "idle" /\ pc' = "rblk" /\ blk = <<>> /\ blk' = <<>> /\ fuses = {} /\ fuses' = {}
  BY DEF Inv, Types
<1>2. Lines' = Lines /\ Held' = Held /\ Given' = Given /\ prim' = TRUE /\ lam' = FALSE
  BY <1>1 DEF Lines, Held, Given, Reads
<1>3. Types'
  BY <1>1, <1>2 DEF Inv, Types
<1>4. Room'
  BY <1>1, <1>2 DEF Inv, Room, NoOverrun
<1>5. Fetch'
  BY <1>1 DEF Fetch, TxNotStranded, LastSeen
<1>6. Refill'
  BY <1>1, <1>2 DEF Inv, Refill
<1>7. Cal' /\ Transmitted' /\ Received'
  BY <1>2, CalFrame, TransmittedFrame, ReceivedFrame DEF Inv
<1> QED
  BY <1>3, <1>4, <1>5, <1>6, <1>7 DEF Inv

LEMMA TxRcvHandlerStep ==
  ASSUME Inv, TxRcvHandler
  PROVE  Inv'
<1> USE DEF TxRcvHandler, fpga, rx, ends
<1>1. pc = "idle" /\ pc' = "rblk" /\ blk = <<>> /\ blk' = <<>> /\ fuses = {} /\ fuses' = {}
  BY DEF Inv, Types
<1>2. Lines' = Lines /\ Held' = Held /\ Given' = Given /\ prim' = FALSE /\ fTxQueBusy' = FALSE
  BY <1>1 DEF Lines, Held, Given, Reads
<1>3. Types'
  BY <1>1, <1>2 DEF Inv, Types
<1>4. Room'
  BY <1>1, <1>2 DEF Inv, Room, NoOverrun
<1>5. Fetch'
  BY <1>1 DEF Fetch, TxNotStranded, LastSeen
<1>6. Refill'
  BY <1>1, <1>2 DEF Inv, Refill, Quiet, Busy, ToRead
<1>7. Cal' /\ Transmitted' /\ Received'
  BY <1>2, CalFrame, TransmittedFrame, ReceivedFrame DEF Inv
<1> QED
  BY <1>3, <1>4, <1>5, <1>6, <1>7 DEF Inv

\* Moving the head of a sequence to the end of the one before changes nothing.
LEMMA MoveHead ==
  ASSUME NEW S, NEW s \in Seq(S), NEW t \in Seq(S), t # <<>>
  PROVE  Append(s, Head(t)) \o Tail(t) = s \o t
<1> DEFINE x == Append(s, Head(t)) \o Tail(t)
           y == s \o t
<1>1. x \in Seq(S) /\ y \in Seq(S) /\ Len(x) = Len(y)
  OBVIOUS
<1>2. \A i \in 1 .. Len(x) : x[i] = y[i]
  OBVIOUS
<1> QED
  BY <1>1, <1>2, SeqEqual

LEMMA SentForm ==
  ASSUME Types, NEW l \in Line
  PROVE  Sent(l) = out[l] \o ChrsOf(Held \o tbuf, l)
<1>1. out[l] \in Seq(Nat) /\ ChrsOf(Held, l) \in Seq(Nat) /\ ChrsOf(tbuf, l) \in Seq(Nat)
      /\ Held \in Seq(Entry) /\ tbuf \in Seq(Entry)
  BY BlockTypes DEF Types
<1>2. ChrsOf(Held \o tbuf, l) = ChrsOf(Held, l) \o ChrsOf(tbuf, l)
  BY <1>1, ChrsCat
<1>3. (out[l] \o ChrsOf(Held, l)) \o ChrsOf(tbuf, l) = out[l] \o (ChrsOf(Held, l) \o ChrsOf(tbuf, l))
  BY <1>1, Assoc
<1> QED
  BY <1>2, <1>3 DEF Sent

LEMMA RblkNextStep ==
  ASSUME Inv, RblkNext
  PROVE  Inv'
<1> USE DEF rx, tx, ends
<1>1. kind' = kind /\ rbuf' = rbuf /\ lam' = lam /\ reg' = reg /\ pc' = pc /\ prim' = prim
      /\ fRcvQueue' = fRcvQueue /\ fRxQlim' = fRxQlim /\ fRxCurUnit' = fRxCurUnit
      /\ fLastFuse' = fLastFuse /\ fTxRblkSize' = fTxRblkSize /\ primSize' = primSize
      /\ fTxQueBusy' = fTxQueBusy /\ fCur' = fCur /\ txn' = txn /\ rxn' = rxn /\ out' = out
      /\ got' = got /\ aux' = aux
  BY DEF RblkNext
<1>2. Types /\ tbuf \in Seq(Entry) /\ blk \in Seq(Entry) /\ tbuf # <<>> /\ pc = "rblk"
      /\ blk' = Append(blk, Head(tbuf)) /\ tbuf' = Tail(tbuf) /\ fuses' = fuses \cup {Len(tbuf)}
      /\ Len(blk) < RblkSize
  BY DEF Inv, Types, RblkNext
<1>3. Head(tbuf) \in Entry /\ tbuf' \in Seq(Entry) /\ Len(tbuf') = Len(tbuf) - 1
      /\ Len(tbuf) \in Nat /\ Len(tbuf) # 0
  BY <1>2, HeadTailProperties, LenProperties, EmptySeq
<1>4. RblkSize \in Nat /\ RblkSize <= Fsize /\ Fsize \in Nat
  <2>1. fTxRblkSize \in MinRblk .. Fsize /\ primSize \in MinRblk .. Fsize
    BY <1>2 DEF Types
  <2>2. MinRblk \in Nat /\ Fsize \in Nat
    BY Sizes
  <2> QED
    BY <2>1, <2>2 DEF RblkSize
<1>5. blk' \in Seq(Entry) /\ Len(blk') <= Fsize
  BY <1>2, <1>3, <1>4
<1>6. Lines' = Lines /\ Held' = blk' /\ Held = blk /\ Given' = Given /\ Given = <<>>
  BY <1>1, <1>2 DEF Lines, Held, Given, Reads
<1>7. fuses' \subseteq 1 .. Fsize /\ Len(tbuf') <= Fsize
  <2>1. fuses \subseteq 1 .. Fsize /\ Len(tbuf) <= Fsize
    BY <1>2 DEF Types
  <2>2. Len(tbuf) \in 1 .. Fsize /\ Len(tbuf') <= Fsize
    BY <1>3, <1>4, <2>1
  <2>3. fuses' = fuses \cup {Len(tbuf)}
    BY <1>2
  <2> QED
    BY <2>1, <2>2, <2>3
<1>8. Types'
  BY <1>1, <1>2, <1>3, <1>5, <1>6, <1>7 DEF Types
<1>9. Room'
  BY <1>1, <1>2, <1>6 DEF Inv, Room, NoOverrun
<1>10. Fetch'
  <2>1. 1 \in fuses' /\ tbuf' # <<>> => lam
    <3>1. tbuf' # <<>> => Len(tbuf) # 1
      BY <1>3
    <3> QED
      BY <1>2, <3>1 DEF Inv, Fetch, Reads, LastSeen
  <2> QED
    BY <1>1, <1>2, <2>1 DEF Fetch, TxNotStranded, LastSeen
<1>11. Refill'
  BY <1>1, <1>2 DEF Inv, Refill, Reads, Quiet, Busy, ToRead
<1>12. Held' \o tbuf' = Held \o tbuf
  BY <1>2, <1>6, MoveHead
<1>13. Cal'
  <2>1. Believed' = Believed
    BY <1>1, <1>12 DEF Believed
  <2> QED
    BY <1>1, <2>1 DEF Inv, Cal
<1>14. Transmitted'
  <2>1. ASSUME NEW l \in Line PROVE Sent(l)' = Sent(l)
    <3>1. Sent(l) = out[l] \o ChrsOf(Held \o tbuf, l)
      BY <1>2, SentForm
    <3>2. Sent(l)' = (out[l] \o ChrsOf(Held \o tbuf, l))'
      <4>1. out'[l] \in Seq(Nat) /\ Held' \in Seq(Entry) /\ tbuf' \in Seq(Entry)
        BY <1>1, <1>2, <1>3, <1>5, <1>6 DEF Types
      <4> DEFINE a == out'[l]
                 b == ChrsOf(Held', l)
                 c == ChrsOf(tbuf', l)
      <4>2. a \in Seq(Nat) /\ b \in Seq(Nat) /\ c \in Seq(Nat)
        BY <4>1, ChrsType
      <4>3. ChrsOf(Held' \o tbuf', l) = b \o c
        BY <4>1, ChrsCat
      <4>4. (a \o b) \o c = a \o (b \o c)
        <5> HIDE DEF a, b, c
        <5> QED
          BY <4>2, Assoc
      <4> QED
        BY <4>3, <4>4 DEF Sent
    <3> QED
      BY <1>1, <1>12, <3>1, <3>2
  <2> QED
    BY <1>1, <2>1 DEF Inv, Transmitted
<1>15. Received'
  BY <1>1, <1>6, ReceivedFrame DEF Inv
<1> QED
  BY <1>8, <1>9, <1>10, <1>11, <1>13, <1>14, <1>15 DEF Inv

LEMMA RblkEndStep ==
  ASSUME Inv, RblkEnd
  PROVE  Inv'
<1> USE DEF RblkEnd, fpga, rx, tx, ends
<1>1. pc = "rblk" /\ pc' = "fuse" /\ blk' = blk /\ fuses' = fuses /\ tbuf' = tbuf /\ lam' = lam
      /\ (tbuf = <<>> \/ Len(blk) = RblkSize)
  OBVIOUS
<1>2. Lines' = Lines /\ Held' = Held /\ Given' = Given
  BY <1>1 DEF Lines, Held, Given, Reads
<1>3. Types'
  BY <1>1, <1>2 DEF Inv, Types
<1>4. Room'
  BY <1>1, <1>2 DEF Inv, Room, NoOverrun
<1>5. Fetch'
  <2>1. RblkSize \in MinRblk .. Fsize /\ MinRblk \in Nat /\ MinRblk # 0
    BY Sizes DEF Inv, Types, RblkSize
  <2>2. tbuf # <<>> => blk # <<>>
    BY <1>1, <2>1
  <2>3. LastSeen /\ tbuf # <<>> => lam
    BY <1>1 DEF Inv, Fetch, Reads
  <2> QED
    BY <1>1, <2>2, <2>3 DEF Fetch, TxNotStranded, LastSeen
<1>6. Refill'
  BY <1>1 DEF Inv, Refill, Reads, Quiet, Busy, ToRead
<1>7. Cal' /\ Transmitted' /\ Received'
  BY <1>2, CalFrame, TransmittedFrame, ReceivedFrame DEF Inv
<1> QED
  BY <1>3, <1>4, <1>5, <1>6, <1>7 DEF Inv

LEMMA FuseReadStep ==
  ASSUME Inv, FuseRead
  PROVE  Inv'
<1> USE DEF fpga
<1>1. kind' = kind /\ tbuf' = tbuf /\ rbuf' = rbuf /\ lam' = lam /\ reg' = reg /\ prim' = prim
      /\ fRcvQueue' = fRcvQueue /\ fRxQlim' = fRxQlim /\ fRxCurUnit' = fRxCurUnit
      /\ fLastFuse' = Len(rbuf) /\ txn' = txn /\ rxn' = rxn /\ got' = got
      /\ pc = "fuse" /\ blk' = <<>> /\ fuses' = {}
      /\ pc' = (IF prim THEN "rx" ELSE "idle") /\ TxProcess
  BY DEF FuseRead
<1>15. aux' \in Auxs /\ aux'.dropped = aux.dropped /\ aux'.nak = aux.nak
       /\ aux'.looped = aux.looped /\ aux'.clean = aux.clean /\ (~prim => aux'.mute = aux.mute)
  <2>1. aux \in Auxs /\ prim \in BOOLEAN
    BY DEF Inv, Types
  <2>2. aux' = [aux EXCEPT !.mute = (aux.mute /\ ~prim)]
    BY <2>1 DEF FuseRead, Auxs
  <2> QED
    BY <2>1, <2>2 DEF Auxs
<1>2. Types /\ tbuf \in Seq(Entry) /\ blk \in Seq(Entry) /\ fCur \in Views
      /\ rbuf \in Seq(Entry) /\ Len(rbuf) \in Nat
  BY DEF Inv, Types
<1>3. Held = blk /\ Held' = <<>> /\ Given = <<>> /\ Given' = <<>> /\ Lines' = Lines
  BY <1>1 DEF Held, Given, Reads, Lines
<1>4. /\ fTxRblkSize' \in MinRblk .. Fsize /\ primSize' \in MinRblk .. Fsize
      /\ fTxQueBusy' \in BOOLEAN /\ (fTxQueBusy => fTxQueBusy')
      /\ (blk # <<>> /\ ~LastSeen => fTxQueBusy')
  <2>1. CASE blk = <<>>
    BY <1>1, <1>2, <2>1 DEF TxProcess, tx, Types
  <2>2. CASE blk # <<>>
    <3>1. fTxRblkSize' \in MinRblk .. Fsize /\ primSize' \in MinRblk .. Fsize
      BY <1>1, <1>2, <2>2, NextSize DEF TxProcess, Types
    <3>2. fTxQueBusy' = (fTxQueBusy \/ ~LastSeen)
      BY <1>1, <2>2 DEF TxProcess
    <3> QED
      BY <3>1, <3>2
  <2> QED
    BY <2>1, <2>2
<1>5. fCur' = CalView(fCur, blk)
  <2>1. CASE blk = <<>>
    BY <1>1, <1>2, <2>1, CalEmpty DEF TxProcess, tx
  <2>2. CASE blk # <<>>
    BY <1>1, <2>2 DEF TxProcess
  <2> QED
    BY <2>1, <2>2
<1>6. fCur' \in Views
  BY <1>2, <1>5, CalType
<1>7. out' \in [Line -> Seq(Nat)] /\ \A l \in Line : out'[l] = out[l] \o ChrsOf(blk, l)
  <2>1. out \in [Line -> Seq(Nat)] /\ \A l \in Line : ChrsOf(blk, l) \in Seq(Nat)
    BY <1>2, ChrsType DEF Types
  <2>2. CASE blk = <<>>
    <3>1. out' = out
      BY <1>1, <2>2 DEF TxProcess
    <3>2. \A l \in Line : out[l] \o <<>> = out[l]
      BY <2>1, ConcatEmptySeq
    <3> QED
      BY <2>1, <2>2, <3>1, <3>2, ChrsEmpty
  <2>3. CASE blk # <<>>
    <3>1. out' = [l \in Line |-> out[l] \o ChrsOf(blk, l)]
      BY <1>1, <2>3 DEF TxProcess, Snd
    <3>2. \A l \in Line : out[l] \o ChrsOf(blk, l) \in Seq(Nat)
      BY <2>1
    <3> QED
      BY <3>1, <3>2
  <2> QED
    BY <2>2, <2>3
<1>8. Types'
  <2>1. fLastFuse' \in 0 .. Fsize
    BY <1>1, <1>2, Sizes DEF Types
  <2>2. blk' \in Seq(Entry) /\ Len(blk') <= Fsize
    BY <1>1, Sizes
  <2> QED
    BY <1>1, <1>2, <1>3, <1>4, <1>6, <1>7, <1>15, <2>1, <2>2 DEF Types
<1>9. Room'
  BY <1>1, <1>2, <1>3, <1>15 DEF Inv, Room, NoOverrun
<1>10. Fetch'
  <2>1. tbuf # <<>> => lam \/ fTxQueBusy'
    BY <1>1, <1>4 DEF Inv, Fetch, TxNotStranded, Reads
  <2> QED
    BY <1>1, <2>1 DEF Fetch, TxNotStranded, Reads
<1>11. Refill'
  <2>1. fLastFuse' # 0 => rbuf # <<>>
    BY <1>1, <1>2
  <2>2. ~prim /\ ~aux'.mute => Quiet \/ ToRead
    BY <1>1, <1>15 DEF Inv, Refill, Reads
  <2>3. Quiet' = Quiet /\ ToRead' = ToRead
    BY <1>1 DEF Quiet, Busy, ToRead
  <2>5. fLastFuse' # 0 => ToRead
    BY <2>1 DEF ToRead
  <2> QED
    BY <1>1, <2>2, <2>3, <2>5 DEF Refill, Reads
<1>12. Cal'
  <2>1. Believed' = Believed
    <3>1. Held' \o tbuf' = tbuf
      BY <1>1, <1>2, <1>3, ConcatEmptySeq
    <3>2. CalView(fCur, blk \o tbuf) = CalView(CalView(fCur, blk), tbuf)
      BY <1>2, CalCat
    <3> QED
      BY <1>3, <1>5, <3>1, <3>2 DEF Believed
  <2> QED
    BY <1>1, <1>15, <2>1 DEF Inv, Cal
<1>13. Transmitted'
  <2>1. ASSUME NEW l \in Line PROVE Sent(l)' = Sent(l)
    <3>1. ChrsOf(Held', l) = <<>>
      BY <1>3, ChrsEmpty
    <3>2. out'[l] \o <<>> = out'[l]
      BY <1>7, ConcatEmptySeq
    <3> QED
      BY <1>1, <1>3, <1>7, <3>1, <3>2 DEF Sent
  <2> QED
    BY <1>1, <2>1 DEF Inv, Transmitted
<1>14. Received'
  BY <1>1, <1>3, <1>15, ReceivedFrame DEF Inv
<1> QED
  BY <1>8, <1>9, <1>10, <1>11, <1>12, <1>13, <1>14 DEF Inv

-----------------------------------------------------------------------------
(* The handlers: receive side.                                              *)

\* The pieces of All(l) are sequences of numbers.
LEMMA AllTypes ==
  ASSUME Types, NEW l \in Line
  PROVE  /\ got[l] \in Seq(Nat) /\ ChrsOf(rbuf, l) \in Seq(Nat) /\ ChrsOf(Given, l) \in Seq(Nat)
         /\ fRcvQueue[l] \in Seq(Nat) /\ rxn[l] \in Nat
         /\ got[l] \o ChrsOf(rbuf, l) \in Seq(Nat)
         /\ (got[l] \o ChrsOf(rbuf, l)) \o ChrsOf(Given, l) \in Seq(Nat)
         /\ All(l) \in Seq(Nat)
<1>1. got[l] \in Seq(Nat) /\ ChrsOf(rbuf, l) \in Seq(Nat) /\ ChrsOf(Given, l) \in Seq(Nat)
      /\ fRcvQueue[l] \in Seq(Nat) /\ rxn[l] \in Nat
  BY BlockTypes
<1>2. got[l] \o ChrsOf(rbuf, l) \in Seq(Nat)
  BY <1>1
<1>3. (got[l] \o ChrsOf(rbuf, l)) \o ChrsOf(Given, l) \in Seq(Nat)
  BY <1>1, <1>2
<1> QED
  BY <1>1, <1>2, <1>3 DEF All

LEMMA RcvCallbackStep ==
  ASSUME Inv, NEW l \in Line, NEW n \in 1 .. 2, RcvCallback(l, n)
  PROVE  Inv'
<1> USE DEF fpga, tx
<1>1. kind' = kind /\ tbuf' = tbuf /\ rbuf' = rbuf /\ lam' = lam /\ reg' = reg /\ prim' = prim
      /\ fRxQlim' = fRxQlim /\ fRxCurUnit' = fRxCurUnit /\ fLastFuse' = fLastFuse
      /\ fTxRblkSize' = fTxRblkSize /\ primSize' = primSize /\ fTxQueBusy' = fTxQueBusy
      /\ fCur' = fCur /\ blk' = blk /\ fuses' = fuses /\ txn' = txn /\ out' = out /\ got' = got
      /\ aux' = aux /\ pc = "idle"
  BY DEF RcvCallback
<1>2. pc' \in {"idle", "wake"} /\ (pc' = "idle" => Busy(l))
  BY <1>1 DEF RcvCallback, Busy
<1>3. Types /\ blk = <<>> /\ fuses = {} /\ n \in Nat /\ rxn[l] \in Nat
      /\ fRcvQueue \in [Line -> Seq(Nat)] /\ rxn \in [Line -> Nat]
  <2>1. Types /\ blk = <<>> /\ fuses = {}
        /\ fRcvQueue \in [Line -> Seq(Nat)] /\ rxn \in [Line -> Nat]
    BY <1>1 DEF Inv, Types
  <2> QED
    BY <2>1
<1>4. Held' = Held /\ Given' = Given /\ Lines' = Lines
  BY <1>1, <1>2, <1>3 DEF Held, Given, Reads, Lines
<1>5. rxn' = [rxn EXCEPT ![l] = rxn[l] + n]
      /\ fRcvQueue' = [fRcvQueue EXCEPT ![l] = fRcvQueue[l] \o Fresh(rxn[l], n)]
  BY <1>3 DEF RcvCallback, Fresh
<1>6. Fresh(rxn[l], n) \in Seq(Nat)
  BY <1>3, FreshType
<1>7. fRcvQueue[l] \o Fresh(rxn[l], n) \in Seq(Nat)
  BY <1>3, <1>6
<1>8. fRcvQueue' \in [Line -> Seq(Nat)] /\ rxn' \in [Line -> Nat]
  BY <1>3, <1>5, <1>7
<1>9. Types'
  BY <1>1, <1>2, <1>3, <1>4, <1>8 DEF Types
<1>10. Room'
  BY <1>1, <1>2, <1>3, <1>4 DEF Inv, Room, NoOverrun
<1>11. Fetch'
  BY <1>1, <1>2 DEF Inv, Fetch, TxNotStranded, Reads
<1>12. Refill'
  BY <1>1, <1>2 DEF Inv, Refill, Reads, Quiet, ToRead
<1>13. Cal' /\ Transmitted'
  BY <1>1, <1>4, CalFrame, TransmittedFrame DEF Inv
<1>14. Received'
  <2> SUFFICES ASSUME NEW m \in Line
               PROVE  Rising(All(m)', rxn'[m]) /\ (~aux.dropped => All(m)' = Count(rxn'[m]))
    BY <1>1 DEF Received
  <2>1. Rising(All(m), rxn[m]) /\ (~aux.dropped => All(m) = Count(rxn[m]))
    BY DEF Inv, Received
  <2>2. CASE m # l
    <3>1. fRcvQueue'[m] = fRcvQueue[m] /\ rxn'[m] = rxn[m]
      BY <1>3, <1>5, <2>2
    <3>2. All(m)' = All(m)
      BY <1>1, <1>4, <3>1 DEF All
    <3> QED
      BY <2>1, <3>1, <3>2
  <2>3. CASE m = l
    <3> DEFINE x == (got[l] \o ChrsOf(rbuf, l)) \o ChrsOf(Given, l)
               q == fRcvQueue[l]
               f == Fresh(rxn[l], n)
    <3>1. x \in Seq(Nat) /\ q \in Seq(Nat) /\ f \in Seq(Nat) /\ All(l) = x \o q /\ All(l) \in Seq(Nat)
      BY <1>3, <1>6, AllTypes DEF All
    <3>2. fRcvQueue'[l] = q \o f /\ rxn'[l] = rxn[l] + n
      BY <1>3, <1>5
    <3>3. All(l)' = x \o (q \o f)
      BY <1>1, <1>4, <3>2 DEF All
    <3> HIDE DEF x, q
    <3>4. All(l)' = All(l) \o f
      <4> HIDE DEF f
      <4>1. (x \o q) \o f = x \o (q \o f)
        BY <3>1, Assoc
      <4> QED
        BY <3>1, <3>3, <4>1
    <3>5. Rising(All(l) \o f, rxn[l] + n)
      BY <1>3, <2>1, <2>3, <3>1, RisingAdd
    <3>6. ~aux.dropped => All(l) \o f = Count(rxn[l] + n)
      BY <1>3, <2>1, <2>3, CountAdd
    <3> QED
      BY <2>3, <3>2, <3>4, <3>5, <3>6
  <2> QED
    BY <2>2, <2>3
<1> QED
  BY <1>9, <1>10, <1>11, <1>12, <1>13, <1>14 DEF Inv

LEMMA WakeupStep ==
  ASSUME Inv, Wakeup
  PROVE  Inv'
<1> USE DEF Wakeup, fpga, tx, ends
<1>1. pc = "wake" /\ pc' = "rx" /\ blk = <<>> /\ blk' = <<>> /\ fuses = {} /\ fuses' = {}
      /\ fLastFuse' \in {fLastFuse, Len(rbuf)}
  BY DEF Inv, Types
<1>2. Held' = Held /\ Given' = Given /\ Lines' = Lines /\ Given = <<>>
  BY <1>1 DEF Held, Given, Reads, Lines
<1>3. Len(rbuf) \in 0 .. Fsize /\ Len(rbuf) \in Nat /\ rbuf \in Seq(Entry)
  BY Sizes DEF Inv, Types
<1>4. Types'
  BY <1>1, <1>2, <1>3 DEF Inv, Types
<1>5. Room'
  BY <1>1, <1>2, <1>3 DEF Inv, Room, NoOverrun
<1>6. Fetch'
  BY <1>1 DEF Inv, Fetch, TxNotStranded, Reads
<1>7. Refill'
  <2>1. ~aux.mute /\ fLastFuse' # 0 => ToRead
    <3>1. Len(rbuf) # 0 => rbuf # <<>>
      BY <1>3
    <3> QED
      BY <1>1, <3>1 DEF Inv, Refill, ToRead
  <2>3. ToRead' = ToRead
    BY DEF ToRead
  <2> QED
    BY <1>1, <2>1, <2>3 DEF Refill, Reads
<1>8. Cal' /\ Transmitted' /\ Received'
  BY <1>2, CalFrame, TransmittedFrame, ReceivedFrame DEF Inv
<1> QED
  BY <1>4, <1>5, <1>6, <1>7, <1>8 DEF Inv

LEMMA RxCollectedStep ==
  ASSUME Inv, RxCollected
  PROVE  Inv'
<1> USE DEF fpga, rx, tx, ends
<1>1. kind' = kind /\ tbuf' = tbuf /\ rbuf' = rbuf /\ lam' = lam /\ reg' = reg /\ prim' = prim
      /\ fRcvQueue' = fRcvQueue /\ fRxQlim' = fRxQlim /\ fRxCurUnit' = fRxCurUnit
      /\ fLastFuse' = fLastFuse /\ fTxRblkSize' = fTxRblkSize /\ primSize' = primSize
      /\ fTxQueBusy' = fTxQueBusy /\ fCur' = fCur /\ blk' = blk /\ fuses' = fuses
      /\ txn' = txn /\ rxn' = rxn /\ out' = out /\ got' = got /\ aux' = aux
      /\ pc = "rx" /\ pc' = (IF blk = <<>> THEN "idle" ELSE "wblk")
      /\ (fLastFuse >= fRxQlim \/ Len(blk) >= Nmax \/ Quiet)
  BY DEF RxCollected, Quiet
<1>2. Types /\ fuses = {} /\ fLastFuse \in Nat /\ fRxQlim \in Nat /\ fRxQlim # 0
      /\ fRxQlim <= Fsize /\ Fsize \in Nat /\ Len(blk) \in Nat /\ Len(rbuf) \in Nat
  <2>1. Types
    BY DEF Inv
  <2>2. fuses = {} /\ fLastFuse \in 0 .. Fsize /\ fRxQlim \in 1 .. Fsize /\ Len(blk) \in Nat
        /\ Len(rbuf) \in Nat
    BY <1>1, <2>1 DEF Types
  <2>3. Fsize \in Nat
    BY Sizes
  <2> QED
    BY <2>1, <2>2, <2>3
<1>3. Held' = Held /\ Given' = Given /\ Lines' = Lines
  BY <1>1 DEF Held, Given, Reads, Lines
<1>4. Types'
  BY <1>1, <1>2, <1>3 DEF Types
<1>5. Room'
  <2>1. CASE blk = <<>>
    BY <1>1, <1>3, <2>1 DEF Inv, Room, NoOverrun
  <2>2. CASE blk # <<>>
    <3>1. ~aux.looped => Len(rbuf) + Len(blk) <= Fsize
      BY <1>1, <1>2, <2>2 DEF Inv, Room, Nmax
    <3> QED
      BY <1>1, <1>3, <2>2, <3>1 DEF Inv, Room, NoOverrun
  <2> QED
    BY <2>1, <2>2
<1>6. Fetch'
  BY <1>1 DEF Inv, Fetch, TxNotStranded, Reads
<1>7. Refill'
  <2>1. ToRead' = ToRead /\ Quiet' = Quiet
    BY <1>1 DEF ToRead, Quiet, Busy
  <2>2. ~aux.mute /\ blk = <<>> => Quiet \/ ToRead
    <3>1. blk = <<>> => Quiet \/ fLastFuse # 0
      BY <1>1, <1>2 DEF Nmax
    <3> QED
      BY <1>1, <3>1 DEF Inv, Refill
  <2>3. ~aux.mute /\ fLastFuse # 0 => ToRead
    BY <1>1 DEF Inv, Refill
  <2> QED
    BY <1>1, <2>1, <2>2, <2>3 DEF Refill, Reads
<1>8. Cal' /\ Transmitted' /\ Received'
  BY <1>1, <1>3, CalFrame, TransmittedFrame, ReceivedFrame DEF Inv
<1> QED
  BY <1>4, <1>5, <1>6, <1>7, <1>8 DEF Inv

LEMMA WblkEndStep ==
  ASSUME Inv, WblkEnd
  PROVE  Inv'
<1> USE DEF WblkEnd, fpga, tx, ends
<1>1. pc = "wblk" /\ pc' = "idle" /\ blk = <<>> /\ blk' = <<>> /\ fuses = {} /\ fuses' = {}
      /\ fLastFuse' = Len(rbuf)
  BY DEF Inv, Types
<1>2. Held' = Held /\ Given' = Given /\ Lines' = Lines /\ Given = <<>>
  BY <1>1 DEF Held, Given, Reads, Lines
<1>3. Len(rbuf) \in 0 .. Fsize /\ Len(rbuf) \in Nat /\ rbuf \in Seq(Entry)
  BY Sizes DEF Inv, Types
<1>4. Types'
  BY <1>1, <1>2, <1>3 DEF Inv, Types
<1>5. Room'
  BY <1>1, <1>2, <1>3 DEF Inv, Room, NoOverrun
<1>6. Fetch'
  BY <1>1 DEF Inv, Fetch, TxNotStranded, Reads
<1>7. Refill'
  <2>1. ~aux.mute => ToRead
    BY <1>1 DEF Inv, Refill
  <2>3. ToRead' = ToRead
    BY DEF ToRead
  <2> QED
    BY <1>1, <2>1, <2>3 DEF Refill, Reads
<1>8. Cal' /\ Transmitted' /\ Received'
  BY <1>2, CalFrame, TransmittedFrame, ReceivedFrame DEF Inv
<1> QED
  BY <1>4, <1>5, <1>6, <1>7, <1>8 DEF Inv

LEMMA SetRxQlimStep ==
  ASSUME Inv, NEW q \in Qlims, SetRxQlim(q)
  PROVE  Inv'
<1> USE DEF SetRxQlim, fpga, tx, job, ends
<1>1. pc = "idle" /\ pc' = "idle" /\ q \in 1 .. Fsize
  BY TermAssumption
<1>2. Held' = Held /\ Given' = Given /\ Lines' = Lines
  BY <1>1 DEF Held, Given, Reads, Lines
<1>3. Types'
  BY <1>1, <1>2 DEF Inv, Types
<1>4. Room'
  BY <1>1, <1>2 DEF Inv, Room, NoOverrun
<1>5. Fetch' /\ Refill'
  BY FetchFrame, RefillFrame DEF Inv, Refill
<1>6. Cal' /\ Transmitted' /\ Received'
  BY <1>2, CalFrame, TransmittedFrame, ReceivedFrame DEF Inv
<1> QED
  BY <1>3, <1>4, <1>5, <1>6 DEF Inv

\* The first n elements of a queue, and the rest.
LEMMA PopFacts ==
  ASSUME NEW q \in Seq(Nat), NEW n \in 0 .. Len(q)
  PROVE  /\ First(q, n) \in Seq(Nat) /\ Pop(q, n) \in Seq(Nat)
         /\ q = First(q, n) \o Pop(q, n)
<1>1. Len(q) \in Nat /\ n \in Nat /\ \A i \in 1 .. Len(q) : q[i] \in Nat
  BY LenProperties, ElementOfSeq
<1>2. First(q, n) \in Seq(Nat) /\ Len(First(q, n)) = n /\ \A i \in 1 .. n : First(q, n)[i] = q[i]
  BY <1>1 DEF First
<1>3. Pop(q, n) \in Seq(Nat) /\ Len(Pop(q, n)) = Len(q) - n
      /\ \A i \in 1 .. Len(q) - n : Pop(q, n)[i] = q[n + i]
  BY <1>1 DEF Pop
<1> DEFINE x == First(q, n)
           y == Pop(q, n)
<1>4. x \o y \in Seq(Nat) /\ Len(x \o y) = Len(q)
  BY <1>1, <1>2, <1>3
<1>5. ASSUME NEW i \in 1 .. Len(q) PROVE q[i] = (x \o y)[i]
  <2> HIDE DEF x, y
  <2>1. CASE i <= n
    <3>1. i \in 1 .. Len(x) /\ x[i] = q[i]
      BY <1>1, <1>2, <2>1 DEF x
    <3> QED
      BY <1>2, <1>3, <3>1, NatCat DEF x, y
  <2>2. CASE i > n
    <3>1. i - n \in 1 .. Len(y) /\ y[i - n] = q[n + (i - n)] /\ n + (i - n) = i
      BY <1>1, <1>3, <2>2 DEF y
    <3>2. (x \o y)[Len(x) + (i - n)] = y[i - n] /\ Len(x) = n
      BY <1>2, <1>3, <3>1, NatCat DEF x, y
    <3> QED
      BY <3>1, <3>2
  <2>3. i \in Nat /\ n \in Nat
    BY <1>1
  <2>4. i <= n \/ i > n
    BY <2>3
  <2> QED
    BY <2>1, <2>2, <2>4, Zenon
<1> HIDE DEF x, y
<1>6. q = x \o y
  BY <1>4, <1>5, SeqEqual
<1> QED
  BY <1>2, <1>3, <1>6 DEF x, y

LEMMA RxCollectStep ==
  ASSUME Inv, RxCollect
  PROVE  Inv'
<1> USE DEF fpga, tx
<1> DEFINE l == NextBusyRxUnit
           q == fRcvQueue[l]
           n == MinOf(Len(q), Nmax - Len(blk))
           keep == fCur.mse /\ ~fCur.maint /\ l \in fCur.rxon
           b == Block(l, q, n)
<1>1. kind' = kind /\ tbuf' = tbuf /\ rbuf' = rbuf /\ lam' = lam /\ reg' = reg /\ prim' = prim
      /\ fRxQlim' = fRxQlim /\ fLastFuse' = fLastFuse
      /\ fTxRblkSize' = fTxRblkSize /\ primSize' = primSize /\ fTxQueBusy' = fTxQueBusy
      /\ fCur' = fCur /\ fuses' = fuses /\ pc' = pc /\ txn' = txn /\ rxn' = rxn /\ out' = out
      /\ got' = got /\ pc = "rx" /\ Len(blk) < Nmax /\ \E k \in Line : Busy(k)
  BY DEF RxCollect
<1>2. fRxCurUnit' = l /\ fRcvQueue' = [fRcvQueue EXCEPT ![l] = Pop(@, n)]
      /\ blk' = (IF keep THEN blk \o b ELSE blk) /\ aux' = [aux EXCEPT !.dropped = @ \/ ~keep]
  BY DEF RxCollect, Block
<1>3. Types /\ blk \in Seq(Entry) /\ aux \in Auxs /\ fRcvQueue \in [Line -> Seq(Nat)]
      /\ fuses = {}
  BY <1>1 DEF Inv, Types
<1>4. l \in Line /\ Busy(l)
  BY <1>1, <1>3, NextBusy
<1>5. Fsize \in Nat /\ fRxQlim \in 1 .. Fsize /\ fLastFuse \in 0 .. Fsize /\ Len(blk) \in Nat
  BY <1>3, Sizes DEF Types
<1> HIDE DEF l
<1>6. Nmax \in Int /\ Nmax <= Fsize /\ Len(blk) < Nmax
  BY <1>1, <1>5 DEF Nmax
<1>7. q \in Seq(Nat) /\ q # <<>> /\ Len(q) \in Nat /\ Len(q) # 0
  <2>1. q \in Seq(Nat) /\ q # <<>>
    BY <1>3, <1>4 DEF Busy
  <2> HIDE DEF q
  <2> QED
    BY <2>1
<1> HIDE DEF q
<1>8. n \in 1 .. Len(q) /\ n <= Nmax - Len(blk) /\ n \in 0 .. Len(q)
  BY <1>5, <1>6, <1>7 DEF MinOf
<1> HIDE DEF n
<1>9. First(q, n) \in Seq(Nat) /\ Pop(q, n) \in Seq(Nat) /\ q = First(q, n) \o Pop(q, n)
  BY <1>7, <1>8, PopFacts
<1>10. fRcvQueue' \in [Line -> Seq(Nat)] /\ fRcvQueue'[l] = Pop(q, n)
       /\ \A m \in Line : m # l => fRcvQueue'[m] = fRcvQueue[m]
  BY <1>2, <1>3, <1>4, <1>9 DEF q
<1> DEFINE x(m) == (got[m] \o ChrsOf(rbuf, m)) \o ChrsOf(Given, m)
<1>11. ASSUME NEW m \in Line
       PROVE  x(m) \in Seq(Nat) /\ All(m) = x(m) \o fRcvQueue[m] /\ Rising(All(m), rxn[m])
              /\ (~aux.dropped => All(m) = Count(rxn[m])) /\ rxn[m] \in Nat
              /\ fRcvQueue[m] \in Seq(Nat)
  BY <1>3, AllTypes DEF All, Inv, Received
<1>12. NoLoop(q, n)
  <2>1. \A i \in 1 .. Len(q) : q[i] # Loop
    <3>1. x(l) \in Seq(Nat) /\ q \in Seq(Nat) /\ Rising(x(l) \o q, rxn[l]) /\ rxn[l] \in Nat
      BY <1>4, <1>11 DEF q
    <3> HIDE DEF x
    <3> QED
      BY <3>1, RisingParts
  <2> QED
    BY <1>7, <1>8, <2>1 DEF NoLoop
<1>13. b \in Seq(Entry) /\ \A m \in Line : ChrsOf(b, m) = IF m = l THEN First(q, n) ELSE <<>>
  <2>1. ASSUME NEW m \in Line
        PROVE  b \in Seq(Entry) /\ ChrsOf(b, m) = IF m = l THEN First(q, n) ELSE <<>>
    BY <1>4, <1>7, <1>8, <1>12, ChrsBlock
  <2> HIDE DEF b
  <2> QED
    BY <1>4, <2>1
<1>14. b \in Seq(Chars) /\ Len(b) = n
  <2>1. n \in Nat /\ \A i \in 1 .. n : Chr(l, q[i]) \in Chars
    BY <1>4, <1>7, <1>8, ElementOfSeq DEF Chr, Chars
  <2> QED
    BY <2>1 DEF Block
<1> HIDE DEF b
<1>15. Given = blk /\ Given' = blk' /\ Held = <<>> /\ Held' = <<>> /\ Lines' = Lines
  BY <1>1 DEF Given, Held, Reads, Lines
<1>16. blk \in Seq(Chars)
  BY <1>15 DEF Inv, Room
<1>17. aux' \in Auxs /\ aux'.nak = aux.nak /\ aux'.looped = aux.looped /\ aux'.clean = aux.clean
       /\ (aux.dropped => aux'.dropped) /\ (~keep => aux'.dropped)
       /\ (keep => aux'.dropped = aux.dropped) /\ aux'.mute = aux.mute
  BY <1>2, <1>3 DEF Auxs
<1>18. blk' \in Seq(Entry) /\ blk' \in Seq(Chars) /\ Len(blk') <= Nmax
  <2>1. CASE keep
    <3>1. blk' = blk \o b
      BY <1>2, <2>1
    <3>2. Len(blk') = Len(blk) + n /\ n \in Nat
      <4>1. Len(blk \o b) = Len(blk) + Len(b)
        BY <1>3, <1>13, ConcatProperties
      <4>2. n \in Nat
        BY <1>7, <1>8
      <4> QED
        BY <1>14, <3>1, <4>1, <4>2
    <3>3. blk' \in Seq(Entry)
      BY <1>3, <1>13, <3>1, ConcatProperties
    <3>4. blk' \in Seq(Chars)
      BY <1>14, <1>16, <3>1, ConcatProperties
    <3> QED
      BY <1>5, <1>6, <1>8, <3>2, <3>3, <3>4
  <2>2. CASE ~keep
    BY <1>2, <1>3, <1>5, <1>6, <1>16, <2>2
  <2> QED
    BY <2>1, <2>2
<1> HIDE DEF keep
<1>19. Types'
  <2>1. Len(blk') <= Fsize
    BY <1>5, <1>6, <1>18
  <2> QED
    BY <1>1, <1>2, <1>3, <1>4, <1>10, <1>15, <1>17, <1>18, <2>1 DEF Types
<1>20. Room'
  <2>1. Nmax' = Nmax
    BY <1>1 DEF Nmax
  <2> QED
    BY <1>1, <1>15, <1>17, <1>18, <2>1 DEF Inv, Room, NoOverrun
<1>21. Fetch'
  BY <1>1 DEF Inv, Fetch, TxNotStranded, Reads
<1>22. Refill'
  BY <1>1, <1>17 DEF Inv, Refill, Reads, ToRead
<1>23. Cal' /\ Transmitted'
  BY <1>1, <1>15, <1>17, CalFrame, TransmittedFrame DEF Inv
<1>24. Received'
  <2> SUFFICES ASSUME NEW m \in Line
               PROVE  Rising(All(m)', rxn[m]) /\ (~aux'.dropped => All(m)' = Count(rxn[m]))
    BY <1>1 DEF Received
  <2> DEFINE a == got[m] \o ChrsOf(rbuf, m)
             c == ChrsOf(Given, m)
  <2>1. a \in Seq(Nat) /\ c \in Seq(Nat) /\ x(m) = a \o c
    BY <1>3, AllTypes
  <2>2. All(m)' = (a \o ChrsOf(blk', m)) \o fRcvQueue'[m]
    BY <1>1, <1>15 DEF All
  <2>3. All(m) = (a \o c) \o fRcvQueue[m]
    BY <1>11, <2>1
  <2>4. CASE keep
    <3>1. ChrsOf(blk', m) = c \o ChrsOf(b, m)
      BY <1>2, <1>3, <1>13, <1>15, <2>4, ChrsCat
    <3> HIDE DEF a, c, x
    <3>2. All(m)' = All(m)
      <4>1. CASE m = l
        <5> DEFINE f == First(q, n)
                   r == Pop(q, n)
        <5>1. f \in Seq(Nat) /\ r \in Seq(Nat) /\ ChrsOf(b, m) = f /\ fRcvQueue'[m] = r
              /\ fRcvQueue[m] = f \o r
          BY <1>4, <1>9, <1>10, <1>13, <4>1 DEF q
        <5> HIDE DEF f, r
        <5>2. (a \o c) \o f = a \o (c \o f)
          BY <2>1, <5>1, Assoc
        <5>3. a \o c \in Seq(Nat)
          BY <2>1
        <5>4. ((a \o c) \o f) \o r = (a \o c) \o (f \o r)
          <6> DEFINE y == a \o c
          <6>1. y \in Seq(Nat)
            BY <5>3
          <6> HIDE DEF y
          <6>2. (y \o f) \o r = y \o (f \o r)
            BY <5>1, <6>1, Assoc
          <6> QED
            BY <6>2 DEF y
        <5> QED
          BY <2>2, <2>3, <3>1, <5>1, <5>2, <5>4
      <4>2. CASE m # l
        <5>1. c \o <<>> = c
          BY <2>1, ConcatEmptySeq
        <5> QED
          BY <1>10, <1>13, <2>2, <2>3, <3>1, <4>2, <5>1
      <4> QED
        BY <4>1, <4>2
    <3> QED
      BY <1>11, <1>17, <2>4, <3>2
  <2>5. CASE ~keep
    <3>1. ChrsOf(blk', m) = c /\ aux'.dropped
      BY <1>2, <1>15, <1>17, <2>5 DEF keep
    <3>2. Rising(All(m)', rxn[m])
      <4>1. CASE m = l
        <5> DEFINE f == First(q, n)
                   r == Pop(q, n)
                   y == a \o c
        <5>1. f \in Seq(Nat) /\ r \in Seq(Nat) /\ fRcvQueue'[m] = r /\ fRcvQueue[m] = f \o r
              /\ y \in Seq(Nat)
          BY <1>4, <1>9, <1>10, <2>1, <4>1 DEF q
        <5>2. All(m) = y \o (f \o r) /\ All(m)' = y \o r
          BY <2>2, <2>3, <3>1, <5>1
        <5> HIDE DEF f, r, y
        <5>3. (y \o f) \o r = y \o (f \o r)
          BY <5>1, Assoc
        <5>4. Rising((y \o f) \o r, rxn[m]) /\ rxn[m] \in Nat
          BY <1>11, <5>2, <5>3
        <5> QED
          BY <5>1, <5>2, <5>4, RisingDrop
      <4>2. CASE m # l
        <5>1. All(m)' = All(m)
          BY <1>10, <2>2, <2>3, <3>1, <4>2
        <5> QED
          BY <1>11, <5>1
      <4> QED
        BY <4>1, <4>2
    <3> QED
      BY <3>1, <3>2
  <2> QED
    BY <2>4, <2>5
<1> QED
  BY <1>19, <1>20, <1>21, <1>22, <1>23, <1>24 DEF Inv

LEMMA WblkNextStep ==
  ASSUME Inv, WblkNext
  PROVE  Inv'
<1> USE DEF rx, tx
<1>1. kind' = kind /\ tbuf' = tbuf /\ reg' = reg /\ prim' = prim /\ fRcvQueue' = fRcvQueue
      /\ fRxQlim' = fRxQlim /\ fRxCurUnit' = fRxCurUnit /\ fLastFuse' = fLastFuse
      /\ fTxRblkSize' = fTxRblkSize /\ primSize' = primSize /\ fTxQueBusy' = fTxQueBusy
      /\ fCur' = fCur /\ fuses' = fuses /\ pc' = pc /\ txn' = txn /\ rxn' = rxn /\ out' = out
      /\ got' = got /\ pc = "wblk" /\ blk # <<>>
  BY DEF WblkNext
<1>2. Types /\ blk \in Seq(Entry) /\ aux \in Auxs /\ rbuf \in Seq(Entry) /\ fuses = {}
      /\ lam \in BOOLEAN /\ Len(blk) <= Fsize /\ Len(rbuf) <= Fsize
  BY <1>1 DEF Inv, Types
<1>3. Given = blk /\ Given' = blk' /\ Held = <<>> /\ Held' = <<>> /\ Lines' = Lines
  BY <1>1 DEF Given, Held, Reads, Lines
<1>4. blk \in Seq(Chars) /\ rbuf \in Seq(Chars) /\ Fsize \in Nat
  BY <1>3, Sizes DEF Inv, Room
<1> DEFINE e == Head(blk)
<1>5. e \in Entry /\ e \in Chars /\ Tail(blk) \in Seq(Entry) /\ Tail(blk) \in Seq(Chars)
      /\ Len(Tail(blk)) = Len(blk) - 1 /\ Len(blk) \in Nat /\ Len(blk) # 0 /\ Len(rbuf) \in Nat
  BY <1>1, <1>2, <1>4, HeadTailProperties, EmptySeq, LenProperties
<1> HIDE DEF e
<1> DEFINE h(m) == IF IsChr(e, m) THEN <<e.v>> ELSE <<>>
           x(m) == got[m] \o ChrsOf(rbuf, m)
           r(m) == ChrsOf(Tail(blk), m)
<1>6. ASSUME NEW m \in Line
      PROVE  /\ h(m) \in Seq(Nat) /\ r(m) \in Seq(Nat) /\ ChrsOf(blk, m) = h(m) \o r(m)
             /\ x(m) \in Seq(Nat) /\ fRcvQueue[m] \in Seq(Nat) /\ rxn[m] \in Nat
             /\ All(m) = (x(m) \o (h(m) \o r(m))) \o fRcvQueue[m]
             /\ Rising(All(m), rxn[m]) /\ (~aux.dropped => All(m) = Count(rxn[m]))
  <2>1. h(m) \in Seq(Nat)
    BY <1>5 DEF Chars
  <2>2. r(m) \in Seq(Nat)
    BY <1>5, ChrsType
  <2>3. ChrsOf(blk, m) = h(m) \o r(m)
    BY <1>1, <1>2, ChrsHead DEF e
  <2>4. x(m) \in Seq(Nat) /\ fRcvQueue[m] \in Seq(Nat) /\ rxn[m] \in Nat
    BY <1>2, AllTypes
  <2>5. All(m) = (x(m) \o ChrsOf(blk, m)) \o fRcvQueue[m]
    BY <1>3 DEF All
  <2>6. Rising(All(m), rxn[m]) /\ (~aux.dropped => All(m) = Count(rxn[m]))
    BY DEF Inv, Received
  <2> HIDE DEF h, x, r
  <2> QED
    BY <2>1, <2>2, <2>3, <2>4, <2>5, <2>6
<1>7. Transmitted'
  BY <1>1, <1>3, TransmittedFrame DEF Inv
<1>8. CASE /\ Full(rbuf) /\ blk' = <<>>
           /\ aux' = [aux EXCEPT !.nak = TRUE, !.dropped = TRUE] /\ UNCHANGED <<rbuf, lam>>
  <2>1. aux' \in Auxs /\ aux'.nak /\ aux'.dropped /\ aux'.looped = aux.looped
        /\ aux'.clean = aux.clean
    BY <1>2, <1>8 DEF Auxs
  <2>2. Types'
    BY <1>1, <1>2, <1>3, <1>4, <1>8, <2>1 DEF Types
  <2>3. aux.looped
    <3>1. ~aux.looped => Len(rbuf) + Len(blk) <= Fsize
      BY <1>1 DEF Inv, Room
    <3>2. Len(rbuf) >= Fsize
      BY <1>8 DEF Full
    <3> QED
      BY <1>4, <1>5, <3>1, <3>2
  <2>4. Room'
    BY <1>1, <1>3, <1>4, <1>8, <2>1, <2>3 DEF Room, NoOverrun
  <2>5. Fetch' /\ Refill'
    <3>1. rbuf' # <<>>
      BY <1>2, <1>4, <1>8, Sizes DEF Full
    <3> QED
      BY <1>1, <1>8, <2>1, <3>1 DEF Inv, Fetch, TxNotStranded, Reads, Refill, ToRead
  <2>6. Cal'
    BY <1>1, <1>3, <2>1, CalFrame DEF Inv
  <2>7. Received'
    <3> SUFFICES ASSUME NEW m \in Line PROVE Rising(All(m)', rxn[m])
      BY <1>1, <2>1 DEF Received
    <3> DEFINE y == x(m)
               z == h(m) \o r(m)
               q == fRcvQueue[m]
    <3>1. y \in Seq(Nat) /\ z \in Seq(Nat) /\ q \in Seq(Nat) /\ rxn[m] \in Nat
          /\ Rising((y \o z) \o q, rxn[m])
      <4>1. All(m) = (y \o z) \o q /\ Rising(All(m), rxn[m])
        BY <1>6
      <4>2. h(m) \in Seq(Nat) /\ r(m) \in Seq(Nat) /\ y \in Seq(Nat) /\ q \in Seq(Nat)
            /\ rxn[m] \in Nat
        BY <1>6
      <4>3. z \in Seq(Nat)
        BY <4>2
      <4> HIDE DEF y, z, q
      <4> QED
        BY <4>1, <4>2, <4>3
    <3>2. All(m)' = (y \o <<>>) \o q
      BY <1>1, <1>3, <1>8, ChrsEmpty DEF All
    <3> HIDE DEF y, z, q
    <3>3. y \o <<>> = y
      BY <3>1, ConcatEmptySeq
    <3> QED
      BY <3>1, <3>2, <3>3, RisingDrop
  <2> QED
    BY <1>7, <2>2, <2>4, <2>5, <2>6, <2>7 DEF Inv
<1>9. CASE /\ ~Full(rbuf) /\ reg.mse /\ ~reg.maint /\ Head(blk).line \in reg.rxon
           /\ rbuf' = Append(rbuf, Head(blk)) /\ blk' = Tail(blk)
           /\ aux' = [aux EXCEPT !.mute = FALSE] /\ UNCHANGED lam
  <2>9. aux' \in Auxs /\ aux'.nak = aux.nak /\ aux'.dropped = aux.dropped
        /\ aux'.looped = aux.looped /\ aux'.clean = aux.clean
    BY <1>2, <1>9 DEF Auxs
  <2>1. rbuf' = Append(rbuf, e) /\ Len(rbuf) < Fsize
    BY <1>4, <1>5, <1>9 DEF e, Full
  <2>2. rbuf' \in Seq(Entry) /\ rbuf' \in Seq(Chars) /\ Len(rbuf') = Len(rbuf) + 1 /\ rbuf' # <<>>
    BY <1>2, <1>4, <1>5, <2>1, AppendProperties
  <2>3. Types'
    <3>1. Len(rbuf') <= Fsize /\ Len(blk') <= Fsize
      BY <1>2, <1>4, <1>5, <1>9, <2>1, <2>2
    <3> QED
      BY <1>1, <1>2, <1>3, <1>5, <1>9, <2>2, <2>9, <3>1 DEF Types
  <2>4. Room'
    <3>1. ~aux.looped => Len(rbuf') + Len(blk') <= Fsize
      BY <1>1, <1>4, <1>5, <1>9, <2>2 DEF Inv, Room
    <3> QED
      BY <1>1, <1>3, <1>5, <1>9, <2>2, <2>9, <3>1 DEF Inv, Room, NoOverrun
  <2>5. Fetch'
    BY <1>1, <1>9 DEF Inv, Fetch, TxNotStranded, Reads
  <2>6. Refill'
    BY <2>2 DEF Refill, ToRead
  <2>7. Cal'
    BY <1>1, <1>3, <2>9, CalFrame DEF Inv
  <2>8. Received'
    <3> SUFFICES ASSUME NEW m \in Line PROVE All(m)' = All(m)
      BY <1>1, <2>9 DEF Inv, Received
    <3>1. ChrsOf(rbuf', m) = ChrsOf(rbuf, m) \o h(m)
      <4>1. ChrsOf(rbuf', m) = IF IsChr(e, m) THEN Append(ChrsOf(rbuf, m), e.v) ELSE ChrsOf(rbuf, m)
        BY <1>2, <1>5, <2>1, ChrsAppend
      <4>2. ChrsOf(rbuf, m) \in Seq(Nat) /\ e.v \in Nat
        BY <1>2, <1>5, ChrsType DEF Chars
      <4>3. CASE IsChr(e, m)
        BY <4>1, <4>2, <4>3, AppendIsConcat
      <4>4. CASE ~IsChr(e, m)
        BY <4>1, <4>2, <4>4, ConcatEmptySeq
      <4> QED
        BY <4>3, <4>4
    <3> DEFINE a == got[m]
               b == ChrsOf(rbuf, m)
               c == h(m)
               d == r(m)
               q == fRcvQueue[m]
    <3>2. a \in Seq(Nat) /\ b \in Seq(Nat) /\ c \in Seq(Nat) /\ d \in Seq(Nat) /\ q \in Seq(Nat)
      BY <1>2, <1>6, AllTypes
    <3>3. All(m) = ((a \o b) \o (c \o d)) \o q
      BY <1>6
    <3>4. All(m)' = ((a \o (b \o c)) \o d) \o q
      BY <1>1, <1>3, <1>9, <3>1 DEF All
    <3> HIDE DEF a, b, c, d, q
    <3>5. (a \o b) \o c = a \o (b \o c)
      <4>1. a \in Seq(Nat) /\ b \in Seq(Nat) /\ c \in Seq(Nat)
        BY <3>2
      <4> QED
        BY <4>1, Assoc
    <3>6. ((a \o b) \o c) \o d = (a \o b) \o (c \o d)
      <4> DEFINE y == a \o b
      <4>1. y \in Seq(Nat)
        BY <3>2
      <4> HIDE DEF y
      <4>2. (y \o c) \o d = y \o (c \o d)
        BY <3>2, <4>1, Assoc
      <4> QED
        BY <4>2 DEF y
    <3> QED
      BY <3>3, <3>4, <3>5, <3>6
  <2> QED
    BY <1>7, <2>3, <2>4, <2>5, <2>6, <2>7, <2>8 DEF Inv
<1>10. CASE /\ lam' = (lam \/ (reg.mse /\ ~reg.maint /\ rbuf # <<>>)) /\ blk' = Tail(blk)
            /\ aux' = [aux EXCEPT !.dropped = TRUE, !.mute = @ \/ rbuf = <<>>] /\ UNCHANGED rbuf
  <2>1. aux' \in Auxs /\ aux'.nak = aux.nak /\ aux'.dropped /\ aux'.looped = aux.looped
        /\ aux'.clean = aux.clean /\ (rbuf = <<>> => aux'.mute)
    BY <1>2, <1>10 DEF Auxs
  <2>2. lam' \in BOOLEAN /\ (lam => lam')
    BY <1>10
  <2>3. Types'
    <3>1. Len(blk') <= Fsize
      BY <1>2, <1>4, <1>5, <1>10
    <3> QED
      BY <1>1, <1>2, <1>3, <1>5, <1>10, <2>1, <2>2, <3>1 DEF Types
  <2>4. Room'
    <3>1. ~aux.looped => Len(rbuf') + Len(blk') <= Fsize
      BY <1>1, <1>4, <1>5, <1>10 DEF Inv, Room
    <3> QED
      BY <1>1, <1>3, <1>4, <1>5, <1>10, <2>1, <3>1 DEF Inv, Room, NoOverrun
  <2>5. Fetch'
    BY <1>1, <2>2 DEF Inv, Fetch, TxNotStranded, Reads
  <2>6. Refill'
    BY <1>1, <1>10, <2>1 DEF Refill, Reads, ToRead
  <2>7. Cal'
    BY <1>1, <1>3, <2>1, CalFrame DEF Inv
  <2>8. Received'
    <3> SUFFICES ASSUME NEW m \in Line PROVE Rising(All(m)', rxn[m])
      BY <1>1, <2>1 DEF Received
    <3> DEFINE y == x(m)
               c == h(m)
               d == r(m)
               q == fRcvQueue[m]
    <3>1. y \in Seq(Nat) /\ c \in Seq(Nat) /\ d \in Seq(Nat) /\ q \in Seq(Nat) /\ rxn[m] \in Nat
          /\ Rising((y \o (c \o d)) \o q, rxn[m])
      BY <1>6
    <3>2. All(m)' = (y \o d) \o q
      BY <1>1, <1>3, <1>10 DEF All
    <3> HIDE DEF y, c, d, q
    <3>3. (y \o (c \o d)) \o q = (y \o c) \o (d \o q)
      <4>1. (y \o c) \o d = y \o (c \o d)
        BY <3>1, Assoc
      <4> DEFINE z == y \o c
      <4> HIDE DEF z
      <4>2. z \in Seq(Nat)
        BY <3>1 DEF z
      <4>3. (z \o d) \o q = z \o (d \o q)
        BY <3>1, <4>2, Assoc
      <4> QED
        BY <4>1, <4>3 DEF z
    <3>4. (y \o d) \o q = y \o (d \o q)
      BY <3>1, Assoc
    <3> DEFINE s == d \o q
    <3>5. Rising((y \o c) \o s, rxn[m]) /\ All(m)' = y \o s
      BY <3>1, <3>2, <3>3, <3>4
    <3>6. s \in Seq(Nat)
      BY <3>1
    <3> HIDE DEF s
    <3> QED
      BY <3>1, <3>5, <3>6, RisingDrop
  <2> QED
    BY <1>7, <2>3, <2>4, <2>5, <2>6, <2>7, <2>8 DEF Inv
<1> QED
  BY <1>8, <1>9, <1>10 DEF WblkNext

-----------------------------------------------------------------------------
(* The invariant and what follows from it.                                  *)

LEMMA InvInit == Init => Inv
<1> SUFFICES ASSUME Init PROVE Inv
  OBVIOUS
<1> USE DEF Init
<1>1. NLine \in Nat /\ NLine # 0 /\ Fsize \in Nat /\ Fsize # 0 /\ MinRblk \in Nat /\ MinRblk <= Fsize
  BY Sizes
<1>2. Line \subseteq Int /\ 0 \in Line /\ <<>> \in Seq(Entry) /\ <<>> \in Seq(Nat) /\ <<>> \in Seq(Chars)
  BY <1>1 DEF Line
<1>3. fCur \in Views
  <2>1. fCur = Running \/ fCur = Cleared
    OBVIOUS
  <2>2. Running \in Views /\ Cleared \in Views
    BY DEF Running, Cleared, Views
  <2> QED
    BY <2>1, <2>2
<1>4. reg = [mse |-> fCur.mse, maint |-> fCur.maint, rxon |-> fCur.rxon, brk |-> {},
             rdy |-> IF kind = "dl" THEN 0 ELSE NoLine, q |-> {}]
  BY DEF Device
<1>5. reg \in Regs /\ reg.rdy \in Lines \cup {NoLine} /\ reg.q = {} /\ reg.mse = fCur.mse
      /\ reg.maint = fCur.maint /\ reg.rxon = fCur.rxon
  BY <1>2, <1>3, <1>4 DEF Views, Regs, Lines
<1>7. Held = <<>> /\ Given = <<>>
  BY DEF Held, Given, Reads
<1>8. Types
  <2>1. fRxQlim \in 1 .. Fsize /\ fLastFuse \in 0 .. Fsize /\ fTxRblkSize \in MinRblk .. Fsize
        /\ primSize \in MinRblk .. Fsize
    BY <1>1
  <2>2. Len(tbuf) <= Fsize /\ Len(rbuf) <= Fsize /\ Len(blk) <= Fsize
    BY <1>1
  <2>3. aux \in Auxs
    BY DEF Auxs
  <2>4. txn \in [Line -> Nat] /\ rxn \in [Line -> Nat] /\ out \in [Line -> Seq(Nat)]
        /\ got \in [Line -> Seq(Nat)] /\ fRcvQueue \in [Line -> Seq(Nat)]
    BY <1>2
  <2> QED
    BY <1>2, <1>3, <1>5, <2>1, <2>2, <2>3, <2>4 DEF Types
<1>9. Room
  BY <1>2, <1>7 DEF Room, NoOverrun
<1>10. Fetch
  BY DEF Fetch, TxNotStranded, Reads
<1>11. Refill
  BY DEF Refill, Quiet, Busy
<1>12. Cal
  <2>1. Held \o tbuf = <<>>
    BY <1>2, <1>7, ConcatEmptySeq
  <2>2. Believed = fCur
    BY <1>3, <2>1, CalEmpty DEF Believed
  <2> QED
    BY <1>5, <2>2 DEF Cal
<1>13. Count(0) = <<>> /\ <<>> \o <<>> = <<>>
  BY <1>2, ConcatEmptySeq DEF Count
<1>14. Transmitted
  <2> SUFFICES ASSUME NEW l \in Line PROVE Sent(l) = Count(txn[l])
    BY DEF Transmitted
  <2>1. out[l] = <<>> /\ txn[l] = 0 /\ ChrsOf(Held, l) = <<>> /\ ChrsOf(tbuf, l) = <<>>
    BY <1>7, ChrsEmpty
  <2> QED
    BY <1>13, <2>1 DEF Sent
<1>15. Received
  <2> SUFFICES ASSUME NEW l \in Line PROVE All(l) = Count(rxn[l]) /\ Rising(All(l), rxn[l])
    BY DEF Received
  <2>1. got[l] = <<>> /\ rxn[l] = 0 /\ ChrsOf(Given, l) = <<>> /\ ChrsOf(rbuf, l) = <<>>
        /\ fRcvQueue[l] = <<>>
    BY <1>7, ChrsEmpty
  <2>2. All(l) = <<>>
    BY <1>13, <2>1 DEF All
  <2>3. Rising(<<>>, 0)
    BY DEF Rising
  <2> QED
    BY <1>13, <2>1, <2>2, <2>3
<1> QED
  BY <1>8, <1>9, <1>10, <1>11, <1>12, <1>14, <1>15 DEF Inv

LEMMA InvStep == Inv /\ [Next]_vars => Inv'
<1> SUFFICES ASSUME Inv, [Next]_vars PROVE Inv'
  OBVIOUS
<1>1. CASE UNCHANGED vars
  <2> USE <1>1 DEF vars, fpga, host, rx, tx, job, ends
  <2>1. Lines' = Lines /\ Held' = Held /\ Given' = Given
    BY DEF Lines, Held, Given, Reads
  <2>2. Types'
    BY <2>1 DEF Inv, Types
  <2>3. Room' /\ Fetch'
    BY RoomFrame, FetchFrame DEF Inv
  <2>4. Refill'
    BY RefillFrame DEF Inv, Refill
  <2>5. Cal' /\ Transmitted' /\ Received'
    BY <2>1, CalFrame, TransmittedFrame, ReceivedFrame DEF Inv
  <2> QED
    BY <2>2, <2>3, <2>4, <2>5 DEF Inv
<1>2. CASE Scan \/ CalPut
  BY <1>2, ScanStep, CalPutStep
<1>3. CASE Cpu
  BY <1>3, CpuTxStep, CpuRxStep, BresetStep, CpuCsrStep, CpuLprStep, CpuBrkStep DEF Cpu
<1>4. CASE Host
  BY <1>4, AttnReadStep, TxRcvHandlerStep, RblkNextStep, RblkEndStep, FuseReadStep, WakeupStep,
     RxCollectStep, RxCollectedStep, WblkNextStep, WblkEndStep DEF Host
<1>5. CASE User
  BY <1>5, RcvCallbackStep, SetRxQlimStep DEF User
<1> QED
  BY <1>1, <1>2, <1>3, <1>4, <1>5 DEF Next

LEMMA Invariant == Spec => []Inv
BY InvInit, InvStep, PTL DEF Spec

\* The handlers' picture of the device is safe to act on: fifos and blocks keep
\* within the fifo size, RxProcess() writes no block that the receive fifo refuses
\* unless maintenance mode has filled it, and the view of the lines built from the
\* CAL words is the DZ11's once they are processed.
THEOREM PictureSafe == Spec => []TermInv
<1>1. Inv => TermInv
  <2> SUFFICES ASSUME Inv PROVE TermInv
    OBVIOUS
  <2>1. TypeOK
    BY DEF Inv, Types, TypeOK, Regs, Views
  <2>2. NoOverrun
    BY DEF Inv, Room
  <2>3. CalCoherent
    <3> SUFFICES ASSUME Told, aux.clean PROVE InView
      BY DEF CalCoherent
    <3>1. Held = <<>> /\ tbuf = <<>> /\ fCur \in Views
      BY DEF Told, Held, Reads, Inv, Types
    <3>2. Held \o tbuf = <<>>
      BY <3>1, EmptySeq, ConcatEmptySeq
    <3>3. Believed = fCur
      BY <3>1, <3>2, CalEmpty DEF Believed
    <3>4. fCur.mse = reg.mse /\ fCur.maint = reg.maint /\ fCur.rxon = reg.rxon
      BY <3>3 DEF Inv, Cal, Told
    <3> QED
      BY <3>1, <3>4 DEF InView, Views
  <2> QED
    BY <2>1, <2>2, <2>3 DEF TermInv
<1> QED
  BY Invariant, <1>1, PTL

\* Every character that the transmit fifo took from a line not in break reaches the
\* terminal of its line, in order and once, and nothing else does: those sent in break
\* are discarded, however they, attentions, queued reads and CAL words interleave.
THEOREM TransmitExact == Spec => []TxExact
<1>1. Inv => TxExact
  <2> SUFFICES ASSUME Inv, NEW l \in Line
               PROVE  out[l] \o Reading(l) \o ChrsOf(tbuf, l) = Count(txn[l])
    BY DEF TxExact
  <2>1. Reading(l) = ChrsOf(Held, l)
    BY ChrsEmpty DEF Reading, Held, Reads
  <2> QED
    BY <2>1 DEF Inv, Transmitted, Sent
<1> QED
  BY Invariant, <1>1, PTL

\* Every character of a terminal reaches the CPU, in order and once, unless the
\* DZ11 was, or was believed to be, switched off; then the rest still is in order.
THEOREM ReceiveExact == Spec => []RxExact
<1>1. Inv => RxExact
  <2> SUFFICES ASSUME Inv, NEW l \in Line
               PROVE  LET all == got[l] \o ChrsOf(rbuf, l) \o Writing(l) \o fRcvQueue[l]
                      IN /\ \A i \in 1 .. Len(all) - 1 : all[i] < all[i + 1]
                         /\ ~aux.dropped => all = Count(rxn[l])
    BY DEF RxExact
  <2>1. Writing(l) = ChrsOf(Given, l)
    BY ChrsEmpty DEF Writing, Given
  <2>2. All(l) = got[l] \o ChrsOf(rbuf, l) \o Writing(l) \o fRcvQueue[l]
    BY <2>1 DEF All
  <2>3. Rising(All(l), rxn[l]) /\ (~aux.dropped => All(l) = Count(rxn[l]))
    BY DEF Inv, Received
  <2>4. All(l) \in Seq(Nat) /\ Len(All(l)) \in Nat
    BY AllTypes, LenProperties DEF Inv
  <2>5. \A i \in 1 .. Len(All(l)) - 1 : All(l)[i] < All(l)[i + 1]
    BY <2>3, <2>4 DEF Rising
  <2> QED
    BY <2>2, <2>3, <2>5
<1> QED
  BY Invariant, <1>1, PTL

\* Nothing waits in a fifo or a queue without an attention, a queued read or a
\* handler at work that gets it moved, except behind a character that the DZ11 dropped
\* on an empty receive fifo, or a last one read in maintenance mode: no attention
\* follows these until the fifo takes a character or AttnHandler() runs.
THEOREM TermNotStranded == Spec => []NotStranded
<1>1. Inv => NotStranded
  BY DEF Inv, Fetch, Refill, NotStranded, RxNotStranded, Quiet, ToRead
<1> QED
  BY Invariant, <1>1, PTL
=============================================================================
