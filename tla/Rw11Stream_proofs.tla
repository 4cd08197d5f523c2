-------------------------- MODULE Rw11Stream_proofs --------------------------
(***************************************************************************)
(* Printer, punch and reader lose, double and swap no character, no block  *)
(* for the reader overruns its fifo and no character waits for ever, for   *)
(* every fifo size, queue limit, tape length and bound.  Four facts carry  *)
(* the proof: a handler that read the last entry of the output fifo leaves *)
(* an attention behind for whatever came after it (Fetch); the usage that  *)
(* AttnHandler() read can only have shrunk (Block); the reader is offline  *)
(* exactly when nothing is left to give out (Reader); an empty reader fifo *)
(* comes with an attention or with a handler that refills it, or the last  *)
(* handler came too early (Refill).                                        *)
(***************************************************************************)
EXTENDS Rw11Stream, SequenceTheorems, WellFoundedInduction, TLAPS

Regs == [perr : BOOLEAN, prdy : BOOLEAN, rerr : BOOLEAN, rbusy : BOOLEAN, rdone : BOOLEAN]
Tapes == [att : BOOLEAN, err : BOOLEAN, eof : BOOLEAN, len : Nat, pos : Nat]
Snaps == [rbusy : BOOLEAN, rfuse : 0 .. Fsize]
Read == [c : Nat, fuse : 1 .. Fsize]
Handed == [c : Nat, written : BOOLEAN]

Types ==
  /\ kind \in {"lp", "pc"} /\ lam \in BOOLEAN /\ queBusy \in BOOLEAN /\ prim \in BOOLEAN
  /\ pbuf \in Seq(Nat) /\ Len(pbuf) <= Fsize /\ rbuf \in Seq(Nat) /\ Len(rbuf) <= Fsize
  /\ reg \in Regs /\ pp \in [att : BOOLEAN, err : BOOLEAN] /\ pr \in Tapes /\ failed \in BOOLEAN
  /\ fPrDrain \in {"idle", "pend", "done"} /\ fPrQlim \in Qlims
  /\ rblkSize \in MinRblk .. Fsize /\ primSize \in MinRblk .. Fsize
  /\ pc \in {"idle", "rblk", "out", "read", "wblk"} /\ snap \in Snaps
  /\ sent \in Seq(Nat) /\ out \in Seq(Handed) /\ got \in Seq(Nat) /\ nout \in Nat

\* The block under way, and the room for it.
Block ==
  /\ pc \in {"rblk", "out"} => blk \in Seq(Read) /\ Len(blk) <= RblkSize
  /\ pc = "wblk" => blk \in Seq(Nat) /\ blk # <<>> /\ Len(rbuf) + Len(blk) <= fPrQlim
  /\ pc \in {"idle", "read"} => blk = <<>>
  /\ pc = "read" => Len(rbuf) <= snap.rfuse

\* The way of the output.
Output ==
  /\ OutputExact
  /\ reg.prdy /\ ~failed => Len(pbuf) < Fsize

\* What fetches the characters of the output fifo.
Fetch ==
  /\ OutputNotStranded
  /\ pc \in {"rblk", "out"} /\ LastSeen /\ pbuf # <<>> => lam
  /\ pc = "out" /\ pbuf # <<>> => lam \/ (blk # <<>> /\ ~LastSeen)

\* The block that PrProcessBuf() writes.
Rest == IF pc = "wblk" THEN blk ELSE <<>>

\* The reader, its tape and the state of its end.
Reader ==
  /\ kind = "lp" => reg.rerr /\ ~reg.rbusy
  /\ pc \in {"read", "wblk"} => kind = "pc"
  /\ pc = "wblk" => pr.att /\ ~reg.rerr
  /\ ~pr.att => reg.rerr /\ pr.pos = 0 /\ pr.len = 0
  /\ pr.pos <= pr.len
  /\ reg.rerr => rbuf = <<>>
  /\ fPrDrain = "done" => reg.rerr
  /\ pr.att /\ reg.rerr => fPrDrain = "done"
  /\ pr.att /\ fPrDrain # "idle" => (pr.eof \/ pr.err) /\ (pr.err \/ pr.pos = pr.len)
  /\ pr.att => got \o rbuf \o Rest = [i \in 1 .. pr.pos |-> i]

\* What refills the reader's fifo.
Refill ==
  /\ ~reg.rerr /\ rbuf = <<>> /\ ~AskedTooLate =>
       lam \/ pc \in {"read", "wblk"} \/ (pc \in {"rblk", "out"} /\ prim)
  /\ pc = "read" /\ rbuf = <<>> /\ snap.rfuse # 0 /\ ~reg.rerr => lam

Inv == Types /\ Block /\ Output /\ Fetch /\ Reader /\ Refill

-----------------------------------------------------------------------------
(* Sequences and maxima.                                                    *)

\* A non-empty set of numbers has a least element.
LEMMA Least ==
  ASSUME NEW T, T \subseteq Nat, T # {}
  PROVE  \E m \in T : \A k \in T : m <= k
<1> DEFINE R == OpToRel(<, Nat)
<1>1. IsWellFoundedOn(R, Nat)
  BY NatLessThanWellFounded
<1>2. PICK m \in T : \A k \in T : ~(<<k, m>> \in R)
  BY <1>1, WFMin
<1>3. \A k \in T : ~(k < m)
  BY <1>2 DEF OpToRel
<1> QED
  BY <1>3

\* The maximum of a non-empty set within a bound is in the set.
LEMMA MaxInSet ==
  ASSUME NEW N \in Nat, NEW T, T \subseteq 0 .. N, T # {}
  PROVE  Max(T) \in T /\ \A y \in T : y <= Max(T)
<1> DEFINE D == {d \in 0 .. N : N - d \in T}
<1>1. D \subseteq Nat /\ \A y \in T : N - y \in D
  OBVIOUS
<1>2. PICK m \in D : \A k \in D : m <= k
  BY <1>1, Least
<1>3. \A y \in T : N - m >= y
  BY <1>1, <1>2
<1> QED
  BY <1>2, <1>3 DEF Max

\* The size of the next block read is at least the minimum and fits the fifo.
LEMMA NextSize ==
  ASSUME blk \in Seq(Read), Len(blk) <= Fsize
  PROVE  NextRblkSize \in MinRblk .. Fsize
<1> DEFINE T == {MinRblk, Len(blk)} \cup {blk[i].fuse : i \in DOMAIN blk}
<1>1. \A i \in DOMAIN blk : blk[i].fuse \in 1 .. Fsize
  <2>1. \A i \in DOMAIN blk : blk[i] \in Read
    BY ElementOfSeq, LenProperties
  <2> QED
    BY <2>1 DEF Read
<1>2. T \subseteq 0 .. Fsize /\ MinRblk \in T /\ Fsize \in Nat
  BY <1>1, StreamAssumption, LenProperties
<1>3. Max(T) \in T /\ MinRblk <= Max(T)
  BY <1>2, MaxInSet
<1> QED
  BY <1>2, <1>3, StreamAssumption DEF NextRblkSize

\* Moving the head of a sequence to the end of the one before changes nothing.
LEMMA MoveHead ==
  ASSUME NEW s \in Seq(Nat), NEW t \in Seq(Nat), NEW u \in Seq(Nat), t # <<>>
  PROVE  Append(s, Head(t)) \o Tail(t) \o u = s \o t \o u
<1> DEFINE l == Append(s, Head(t)) \o Tail(t) \o u
           r == s \o t \o u
<1>1. l \in Seq(Nat) /\ r \in Seq(Nat) /\ Len(l) = Len(r)
  OBVIOUS
<1>2. \A i \in 1 .. Len(l) : l[i] = r[i]
  OBVIOUS
<1> QED
  BY <1>1, <1>2, SeqEqual

\* The same with the sequences on either side.
LEMMA MoveHeadBehind ==
  ASSUME NEW s \in Seq(Nat), NEW t \in Seq(Nat), NEW u \in Seq(Nat), u # <<>>
  PROVE  s \o Append(t, Head(u)) \o Tail(u) = s \o t \o u
<1> DEFINE l == s \o Append(t, Head(u)) \o Tail(u)
           r == s \o t \o u
<1>1. l \in Seq(Nat) /\ r \in Seq(Nat) /\ Len(l) = Len(r)
  OBVIOUS
<1>2. \A i \in 1 .. Len(l) : l[i] = r[i]
  OBVIOUS
<1> QED
  BY <1>1, <1>2, SeqEqual

\* What is appended to the last of three sequences is appended to all.
LEMMA AppendLast ==
  ASSUME NEW s \in Seq(Nat), NEW t \in Seq(Nat), NEW u \in Seq(Nat), NEW e \in Nat
  PROVE  s \o t \o Append(u, e) = Append(s \o t \o u, e)
<1> DEFINE l == s \o t \o Append(u, e)
           r == Append(s \o t \o u, e)
<1>1. l \in Seq(Nat) /\ r \in Seq(Nat) /\ Len(l) = Len(r)
  OBVIOUS
<1>2. \A i \in 1 .. Len(l) : l[i] = r[i]
  OBVIOUS
<1> QED
  BY <1>1, <1>2, SeqEqual

\* Sequences one by one.
LEMMA SeqFacts ==
  ASSUME NEW S, NEW s \in Seq(S), NEW e \in S
  PROVE  /\ Append(s, e) \in Seq(S) /\ Len(Append(s, e)) = Len(s) + 1 /\ Append(s, e) # <<>>
         /\ s # <<>> => /\ Head(s) \in S /\ Tail(s) \in Seq(S) /\ Len(Tail(s)) = Len(s) - 1
                        /\ Len(s) >= 1
         /\ Len(s) \in Nat /\ (Len(s) = 0 <=> s = <<>>) /\ s \o <<>> = s /\ <<>> \o s = s
<1>1. s # <<>> => Head(s) \in S /\ Tail(s) \in Seq(S) /\ Len(Tail(s)) = Len(s) - 1
  BY HeadTailProperties
<1> QED
  <2>1. Append(s, e) \in Seq(S) /\ Len(Append(s, e)) = Len(s) + 1 /\ Append(s, e) # <<>>
    BY AppendProperties
  <2>2. Len(s) \in Nat /\ (Len(s) = 0 <=> s = <<>>)
    BY EmptySeq, LenProperties
  <2>3. s \o <<>> = s /\ <<>> \o s = s
    BY ConcatEmptySeq
  <2> QED
    BY <1>1, <2>1, <2>2, <2>3

\* The fifos: their lengths and what is taken out.
LEMMA NatSeq ==
  ASSUME NEW s \in Seq(Nat)
  PROVE  /\ s # <<>> => /\ Head(s) \in Nat /\ Tail(s) \in Seq(Nat) /\ Len(Tail(s)) = Len(s) - 1
                        /\ Len(s) >= 1
         /\ Len(s) \in Nat /\ (Len(s) = 0 <=> s = <<>>) /\ s \o <<>> = s /\ <<>> \o s = s
  BY SeqFacts, 0 \in Nat

\* The fifos: what is put in.
LEMMA NatAppend ==
  ASSUME NEW s \in Seq(Nat), NEW e \in Nat
  PROVE  Append(s, e) \in Seq(Nat) /\ Len(Append(s, e)) = Len(s) + 1 /\ Append(s, e) # <<>>
  BY AppendProperties

\* The characters of a block, as read from the fifo or as handed to WriteChar().
LEMMA CharsFacts ==
  ASSUME NEW S \in {Read, Handed}, NEW b \in Seq(S)
  PROVE  /\ Chars(b) \in Seq(Nat) /\ Len(Chars(b)) = Len(b)
         /\ \A i \in 1 .. Len(b) : Chars(b)[i] = b[i].c
<1>1. \A i \in 1 .. Len(b) : b[i] \in S
  BY ElementOfSeq
<1>2. \A x \in S : x.c \in Nat
  <2>1. CASE S = Read
    BY <2>1 DEF Read
  <2>2. CASE S = Handed
    BY <2>2 DEF Handed
  <2> QED
    BY <2>1, <2>2
<1>3. DOMAIN b = 1 .. Len(b) /\ Len(b) \in Nat
  BY LenProperties
<1>4. Chars(b) \in [1 .. Len(b) -> Nat]
  BY <1>1, <1>2, <1>3 DEF Chars
<1>5. Chars(b) \in Seq(Nat) /\ Len(Chars(b)) = Len(b)
  BY <1>3, <1>4, IsASeq, LenProperties
<1> QED
  BY <1>3, <1>5 DEF Chars

\* The characters of an empty block.
LEMMA CharsEmpty == Chars(<<>>) = <<>>
  BY EmptySeq DEF Chars

\* The characters of a block that grows.
LEMMA CharsAppend ==
  ASSUME NEW b \in Seq(Read), NEW e \in Read
  PROVE  Chars(Append(b, e)) = Append(Chars(b), e.c)
<1> DEFINE l == Chars(Append(b, e))
           r == Append(Chars(b), e.c)
<1>1. e.c \in Nat
  BY DEF Read
<1>2. Append(b, e) \in Seq(Read)
  BY AppendProperties
<1>3. Chars(b) \in Seq(Nat) /\ Len(Chars(b)) = Len(b)
      /\ \A i \in 1 .. Len(b) : Chars(b)[i] = b[i].c
  BY CharsFacts
<1>4. l \in Seq(Nat) /\ Len(l) = Len(Append(b, e))
      /\ \A i \in 1 .. Len(Append(b, e)) : l[i] = Append(b, e)[i].c
  BY <1>2, CharsFacts
<1>5. r \in Seq(Nat) /\ Len(l) = Len(r)
  BY <1>1, <1>3, <1>4, AppendProperties
<1>6. \A i \in 1 .. Len(l) : l[i] = r[i]
  <2> SUFFICES ASSUME NEW i \in 1 .. Len(l) PROVE l[i] = r[i]
    OBVIOUS
  <2>1. Len(b) \in Nat /\ Len(Append(b, e)) = Len(b) + 1
    BY AppendProperties, LenProperties
  <2>2. CASE i = Len(b) + 1
    <3>1. Append(b, e)[i] = e /\ r[i] = e.c
      BY <2>1, <2>2, <1>1, <1>3, AppendProperties
    <3> QED
      BY <3>1, <1>4
  <2>3. CASE i # Len(b) + 1
    <3>1. i \in 1 .. Len(b)
      BY <2>1, <2>3, <1>4
    <3>2. Append(b, e)[i] = b[i] /\ r[i] = Chars(b)[i]
      BY <2>1, <3>1, <1>1, <1>3, AppendProperties
    <3> QED
      BY <3>1, <3>2, <1>3, <1>4
  <2> QED
    BY <2>2, <2>3
<1> QED
  BY <1>4, <1>5, <1>6, SeqEqual

\* Joining two sequences of characters.
LEMMA NatConcat ==
  ASSUME NEW p \in Seq(Nat), NEW q \in Seq(Nat)
  PROVE  /\ p \o q \in Seq(Nat) /\ Len(p \o q) = Len(p) + Len(q)
         /\ \A i \in 1 .. Len(p) + Len(q) :
              (p \o q)[i] = IF i <= Len(p) THEN p[i] ELSE q[i - Len(p)]
  BY ConcatProperties

\* The characters handed over after another block.
LEMMA CharsConcat ==
  ASSUME NEW b \in Seq(Handed), NEW d \in Seq(Handed)
  PROVE  Chars(b \o d) = Chars(b) \o Chars(d)
<1> DEFINE l == Chars(b \o d)
           r == Chars(b) \o Chars(d)
<1>1. /\ b \o d \in Seq(Handed) /\ Len(b \o d) = Len(b) + Len(d)
      /\ \A i \in 1 .. Len(b) + Len(d) : (b \o d)[i] = IF i <= Len(b) THEN b[i] ELSE d[i - Len(b)]
  BY ConcatProperties
<1>2. /\ Chars(b) \in Seq(Nat) /\ Len(Chars(b)) = Len(b)
      /\ \A i \in 1 .. Len(b) : Chars(b)[i] = b[i].c
  BY CharsFacts
<1>3. /\ Chars(d) \in Seq(Nat) /\ Len(Chars(d)) = Len(d)
      /\ \A i \in 1 .. Len(d) : Chars(d)[i] = d[i].c
  BY CharsFacts
<1>4. l \in Seq(Nat) /\ Len(l) = Len(b \o d) /\ \A i \in 1 .. Len(b \o d) : l[i] = (b \o d)[i].c
  BY <1>1, CharsFacts
<1>5. /\ r \in Seq(Nat) /\ Len(r) = Len(b) + Len(d)
      /\ \A i \in 1 .. Len(b) + Len(d) :
           r[i] = IF i <= Len(b) THEN Chars(b)[i] ELSE Chars(d)[i - Len(b)]
  <2> HIDE DEF r
  <2>1. /\ r \in Seq(Nat) /\ Len(r) = Len(Chars(b)) + Len(Chars(d))
        /\ \A i \in 1 .. Len(Chars(b)) + Len(Chars(d)) :
             r[i] = IF i <= Len(Chars(b)) THEN Chars(b)[i] ELSE Chars(d)[i - Len(Chars(b))]
    BY <1>2, <1>3, NatConcat, Zenon DEF r
  <2> QED
    BY <2>1, <1>2, <1>3
<1>6. \A i \in 1 .. Len(l) : l[i] = r[i]
  <2> SUFFICES ASSUME NEW i \in 1 .. Len(l) PROVE l[i] = r[i]
    OBVIOUS
  <2>1. Len(b) \in Nat /\ Len(d) \in Nat
    BY LenProperties
  <2>2. CASE i <= Len(b)
    <3>1. i \in 1 .. Len(b) /\ i \in 1 .. Len(b) + Len(d)
      BY <2>1, <2>2, <1>1, <1>4
    <3>2. (b \o d)[i] = b[i] /\ r[i] = Chars(b)[i] /\ Chars(b)[i] = b[i].c
      BY <2>2, <3>1, <1>1, <1>2, <1>5
    <3> QED
      BY <3>2, <1>4
  <2>3. CASE ~(i <= Len(b))
    <3>1. i - Len(b) \in 1 .. Len(d)
      BY <2>1, <2>3, <1>1, <1>4
    <3> QED
      BY <2>1, <2>3, <3>1, <1>1, <1>3, <1>4, <1>5
  <2> QED
    BY <2>2, <2>3
<1> QED
  BY <1>1, <1>4, <1>5, <1>6, SeqEqual

\* The tape's characters 1 to p followed by the next n.
LEMMA TapeGoesOn ==
  ASSUME NEW s \in Seq(Nat), NEW p \in Nat, NEW n \in Nat, s = [i \in 1 .. p |-> i]
  PROVE  s \o [i \in 1 .. n |-> p + i] = [i \in 1 .. p + n |-> i]
<1> DEFINE b == [i \in 1 .. n |-> p + i]
           r == [i \in 1 .. p + n |-> i]
<1>1. b \in Seq(Nat) /\ Len(b) = n /\ r \in Seq(Nat) /\ Len(r) = p + n
  BY IsASeq, LenProperties
<1>2. Len(s) = p
  BY LenProperties
<1>3. s \o b \in Seq(Nat) /\ Len(s \o b) = p + n
      /\ \A i \in 1 .. p + n : (s \o b)[i] = IF i <= p THEN s[i] ELSE b[i - p]
  BY <1>1, <1>2, ConcatProperties
<1>4. \A i \in 1 .. p + n : (s \o b)[i] = r[i]
  BY <1>3
<1> QED
  BY <1>1, <1>3, <1>4, SeqEqual

\* What the handler holds of the two streams.
LEMMA HeldTypes ==
  ASSUME Types, Block
  PROVE  Taken \in Seq(Nat) /\ Rest \in Seq(Nat) /\ Chars(out) \in Seq(Nat)
<1>1. Chars(out) \in Seq(Nat)
  BY CharsFacts DEF Types
<1>2. Rest \in Seq(Nat)
  BY DEF Block, Rest
<1>3. Taken \in Seq(Nat)
  BY CharsFacts DEF Block, Taken
<1> QED
  BY <1>1, <1>2, <1>3

\* WriteChars() may set the output offline; the reader is not concerned.
LEMMA WriteFacts ==
  ASSUME Types, NEW written \in [DOMAIN blk -> BOOLEAN], WriteChars(written)
  PROVE  /\ pp' \in [att : BOOLEAN, err : BOOLEAN] /\ reg' \in Regs /\ failed' \in BOOLEAN
         /\ pbuf' \in {pbuf, <<>>} /\ reg'.rerr = reg.rerr /\ reg'.rbusy = reg.rbusy
         /\ ~failed' => /\ pbuf' = pbuf /\ ~failed /\ reg'.prdy = reg.prdy
                            /\ \A i \in DOMAIN blk : written[i] = ~Swallowed(blk[i].c)
<1> DEFINE fails == {i \in DOMAIN blk : ~written[i] /\ ~Swallowed(blk[i].c)}
<1>1. CASE fails = {}
  <2>1. UNCHANGED <<pp, pbuf, reg, failed>>
    BY <1>1 DEF WriteChars
  <2>2. \A i \in DOMAIN blk : written[i] => ~Swallowed(blk[i].c)
    BY DEF WriteChars
  <2>3. \A i \in DOMAIN blk : Swallowed(blk[i].c) \in BOOLEAN
    BY DEF Swallowed
  <2>4. \A i \in DOMAIN blk : written[i] = ~Swallowed(blk[i].c)
    BY <1>1, <2>2, <2>3
  <2> QED
    BY <2>1, <2>4 DEF Types
<1>2. CASE fails # {}
  <2>1. /\ pp' = [pp EXCEPT !.err = pp.att] /\ SetPerr(pp')
        /\ failed' = TRUE
    BY <1>2 DEF WriteChars
  <2>2. pp' \in [att : BOOLEAN, err : BOOLEAN]
    BY <2>1 DEF Types
  <2>3. failed' \in BOOLEAN /\ failed'
    BY <2>1 DEF Types
  <2>4. reg' \in Regs /\ reg'.rerr = reg.rerr /\ reg'.rbusy = reg.rbusy /\ pbuf' \in {pbuf, <<>>}
    BY <2>1, <2>2 DEF Types, Regs, SetPerr
  <2> QED
    BY <2>2, <2>3, <2>4
<1> QED
  BY <1>1, <1>2

\* The characters of a block as they are handed to WriteChar().
LEMMA HandFacts ==
  ASSUME Types, blk \in Seq(Read), NEW written \in [DOMAIN blk -> BOOLEAN], WriteChars(written)
  PROVE  /\ out' \in Seq(Handed) /\ Chars(out') = Chars(out) \o Chars(blk)
         /\ (\A i \in DOMAIN out : out[i].written = ~Swallowed(out[i].c))
              /\ (\A i \in DOMAIN blk : written[i] = ~Swallowed(blk[i].c))
            => \A i \in DOMAIN out' : out'[i].written = ~Swallowed(out'[i].c)
<1> DEFINE d == [i \in DOMAIN blk |-> [c |-> blk[i].c, written |-> written[i]]]
<1>1. DOMAIN blk = 1 .. Len(blk) /\ Len(blk) \in Nat
  BY LenProperties
<1>2. \A i \in 1 .. Len(blk) : blk[i].c \in Nat
  <2>1. \A i \in 1 .. Len(blk) : blk[i] \in Read
    BY ElementOfSeq
  <2> QED
    BY <2>1 DEF Read
<1>3. d \in [1 .. Len(blk) -> Handed]
  BY <1>1, <1>2 DEF Handed
<1>4. d \in Seq(Handed) /\ Len(d) = Len(blk)
  BY <1>1, <1>3, IsASeq, LenProperties
<1>5. \A i \in 1 .. Len(blk) : d[i].c = blk[i].c /\ d[i].written = written[i]
  BY <1>1
<1>6. Chars(d) = Chars(blk)
  BY <1>1, <1>3, <1>5 DEF Chars
<1>7. out' = out \o d /\ out \in Seq(Handed)
  BY DEF WriteChars, Types
<1> HIDE DEF d
<1>8. out' \in Seq(Handed) /\ Chars(out') = Chars(out) \o Chars(blk)
  BY <1>4, <1>6, <1>7, CharsConcat, ConcatProperties
<1>9. ASSUME \A i \in DOMAIN out : out[i].written = ~Swallowed(out[i].c),
             \A i \in DOMAIN blk : written[i] = ~Swallowed(blk[i].c),
             NEW i \in DOMAIN out'
      PROVE  out'[i].written = ~Swallowed(out'[i].c)
  <2>1. /\ Len(out) \in Nat /\ DOMAIN out = 1 .. Len(out)
        /\ DOMAIN out' = 1 .. Len(out) + Len(blk)
        /\ out'[i] = IF i <= Len(out) THEN out[i] ELSE d[i - Len(out)]
    <3>1. Len(out) \in Nat /\ DOMAIN out = 1 .. Len(out)
      BY <1>7, LenProperties
    <3>2. Len(out \o d) = Len(out) + Len(d) /\ \A j \in 1 .. Len(out) + Len(d) :
            (out \o d)[j] = IF j <= Len(out) THEN out[j] ELSE d[j - Len(out)]
      BY <1>4, <1>7, ConcatProperties
    <3>3. DOMAIN out' = 1 .. Len(out')
      BY <1>8, LenProperties
    <3> QED
      BY <3>1, <3>2, <3>3, <1>4, <1>7, <1>9
  <2>2. CASE i <= Len(out)
    BY <2>1, <2>2, <1>9
  <2>3. CASE ~(i <= Len(out))
    <3>1. i - Len(out) \in 1 .. Len(blk) /\ out'[i] = d[i - Len(out)]
      BY <2>1, <2>3, <1>1
    <3> QED
      BY <3>1, <1>1, <1>5, <1>9
  <2> QED
    BY <2>2, <2>3
<1> QED
  BY <1>8, <1>9

-----------------------------------------------------------------------------
(* The actions.                                                             *)

\* The output becomes ready when its fifo has room.
LEMMA ReadyStep ==
  ASSUME Inv, Ready
  PROVE  Inv'
<1> USE DEF fpga, units, reads, job, ends
<1>1. Types'
  <2>1. reg' \in Regs
    BY DEF Inv, Types, Ready, Regs
  <2> QED
    BY <2>1, StreamAssumption DEF Inv, Types, Ready
<1>2. Block'
  BY DEF Inv, Types, Block, RblkSize, Ready
<1>3. Output'
  BY DEF Inv, Types, Regs, Output, OutputExact, Taken, Swallowed, Ready
<1>4. Fetch'
  BY EmptySeq DEF Inv, Types, Block, Fetch, OutputNotStranded, LastSeen, Ready
<1>5. Reader'
  BY DEF Inv, Types, Block, Regs, Tapes, Reader, Rest, Ready
<1>6. Refill'
  BY DEF Inv, Types, Regs, Snaps, Reader, Refill, AskedTooLate, Ready
<1> QED
  BY <1>1, <1>2, <1>3, <1>4, <1>5, <1>6 DEF Inv

\* A character enters the output fifo, or is discarded offline.
LEMMA CpuOutStep ==
  ASSUME Inv, NEW c \in Nat, CpuOut(c)
  PROVE  Inv'
<1> USE DEF fpga, units, reads, job, ends
<1>a. (lam => lam') /\ (pbuf = <<>> /\ ~reg.perr => lam') /\ (reg.perr => pbuf' = pbuf /\ sent' = sent)
  <2>1. ~reg.perr => lam' = (lam \/ pbuf = <<>>)
    BY DEF CpuOut
  <2>2. reg.perr => pbuf' = pbuf /\ lam' = lam /\ sent' = sent
    BY DEF CpuOut
  <2>3. reg.perr \in BOOLEAN
    BY DEF Inv, Types, Regs
  <2>4. CASE reg.perr
    BY <2>2, <2>4
  <2>5. CASE ~reg.perr
    <3>1. lam' = (lam \/ pbuf = <<>>)
      BY <2>1, <2>5
    <3>2. (lam => lam') /\ (pbuf = <<>> => lam')
      BY <3>1
    <3> QED
      BY <3>2, <2>5
  <2> QED
    BY <2>3, <2>4, <2>5
<1>1. Types'
  <2>1. reg' \in Regs
    BY DEF Inv, Types, CpuOut, Regs
  <2>2. pbuf' \in Seq(Nat) /\ Len(pbuf') <= Fsize /\ sent' \in Seq(Nat)
    <3>1. CASE reg.perr
      BY <3>1, <1>a DEF Inv, Types
    <3>2. CASE ~reg.perr
      <4>1. Append(pbuf, c) \in Seq(Nat) /\ Len(Append(pbuf, c)) = Len(pbuf) + 1
            /\ Append(sent, c) \in Seq(Nat) /\ Len(pbuf) \in Nat
        BY NatSeq, NatAppend DEF Inv, Types
      <4>2. sent' = Append(sent, c) /\ pbuf' = IF Len(pbuf) < Fsize THEN Append(pbuf, c) ELSE pbuf
        BY <3>2 DEF CpuOut
      <4> QED
        BY <4>1, <4>2, StreamAssumption DEF Inv, Types
    <3> QED
      BY <3>1, <3>2
  <2>3. lam' \in BOOLEAN
    <3>1. lam' = lam \/ lam' = (lam \/ pbuf = <<>>)
      BY DEF CpuOut
    <3> QED
      BY <3>1, Zenon DEF Inv, Types
  <2>4. nout' \in Nat
    BY SMTT(30) DEF Inv, Types, CpuOut
  <2> QED
    BY <2>1, <2>2, <2>3, <2>4 DEF Inv, Types, CpuOut
<1>2. Block'
  BY DEF Inv, Types, Block, RblkSize, CpuOut
<1>3. Output'
  <2>1. CASE reg.perr
    <3>1. reg'.prdy => reg.prdy
      BY <2>1 DEF Inv, Types, Regs, CpuOut
    <3> QED
      BY <2>1, <1>a, <3>1 DEF Inv, Output, OutputExact, Taken, Swallowed, CpuOut
  <2>2. CASE ~reg.perr
    <3>1. ~reg'.prdy
      BY <2>2 DEF Inv, Types, Regs, CpuOut
    <3>2. ASSUME ~failed PROVE Chars(out) \o Taken \o pbuf' = sent'
      <4>1. Len(pbuf) < Fsize /\ Chars(out) \o Taken \o pbuf = sent
        BY <3>2 DEF Inv, Output, OutputExact, CpuOut
      <4>2. pbuf' = Append(pbuf, c) /\ sent' = Append(sent, c)
        BY <2>2, <4>1 DEF CpuOut
      <4> QED
        <5>1. Chars(out) \in Seq(Nat) /\ Taken \in Seq(Nat) /\ pbuf \in Seq(Nat)
          BY HeldTypes DEF Inv, Types
        <5>2. Chars(out) \o Taken \o Append(pbuf, c) = Append(Chars(out) \o Taken \o pbuf, c)
          BY <5>1, AppendLast
        <5> QED
          BY <4>1, <4>2, <5>2
    <3> QED
      BY <3>1, <3>2 DEF Inv, Output, OutputExact, Taken, Swallowed, CpuOut
  <2> QED
    BY <2>1, <2>2
<1>4. Fetch'
  <2>1. (pbuf' # <<>> => pbuf # <<>> \/ lam')
    BY <1>a
  <2> QED
    BY <2>1, <1>a DEF Inv, Fetch, OutputNotStranded, LastSeen, CpuOut
<1>5. Reader'
  BY DEF Inv, Types, Block, Regs, Tapes, Reader, Rest, CpuOut
<1>6. Refill'
  <2>1. reg'.rerr = reg.rerr
    BY DEF Inv, Types, Regs, CpuOut
  <2> QED
    BY <2>1, <1>a DEF Inv, Refill, AskedTooLate, CpuOut
<1> QED
  BY <1>1, <1>2, <1>3, <1>4, <1>5, <1>6 DEF Inv

\* The CPU asks for a character.
LEMMA CpuEnableStep ==
  ASSUME Inv, CpuEnable
  PROVE  Inv'
<1> USE DEF fpga, units, reads, job, ends
<1>1. Types'
  <2>1. reg' \in Regs
    BY DEF Inv, Types, CpuEnable, Regs
  <2> QED
    BY <2>1, StreamAssumption DEF Inv, Types, CpuEnable
<1>2. Block'
  BY DEF Inv, Types, Block, RblkSize, CpuEnable
<1>3. Output'
  BY DEF Inv, Types, Regs, Output, OutputExact, Taken, Swallowed, CpuEnable
<1>4. Fetch'
  BY EmptySeq DEF Inv, Types, Block, Fetch, OutputNotStranded, LastSeen, CpuEnable
<1>5. Reader'
  BY DEF Inv, Types, Block, Regs, Tapes, Reader, Rest, CpuEnable
<1>6. Refill'
  BY DEF Inv, Types, Regs, Snaps, Reader, Refill, AskedTooLate, CpuEnable
<1> QED
  BY <1>1, <1>2, <1>3, <1>4, <1>5, <1>6 DEF Inv

\* The request is met.
LEMMA ReaderDoneStep ==
  ASSUME Inv, ReaderDone
  PROVE  Inv'
<1> USE DEF fpga, units, reads, job, ends
<1>1. Types'
  <2>1. reg' \in Regs
    BY DEF Inv, Types, ReaderDone, Regs
  <2> QED
    BY <2>1, StreamAssumption DEF Inv, Types, ReaderDone
<1>2. Block'
  BY DEF Inv, Types, Block, RblkSize, ReaderDone
<1>3. Output'
  BY DEF Inv, Types, Regs, Output, OutputExact, Taken, Swallowed, ReaderDone
<1>4. Fetch'
  BY EmptySeq DEF Inv, Types, Block, Fetch, OutputNotStranded, LastSeen, ReaderDone
<1>5. Reader'
  BY DEF Inv, Types, Block, Regs, Tapes, Reader, Rest, ReaderDone
<1>6. Refill'
  BY DEF Inv, Types, Regs, Snaps, Reader, Refill, AskedTooLate, ReaderDone
<1> QED
  BY <1>1, <1>2, <1>3, <1>4, <1>5, <1>6 DEF Inv

\* The CPU takes a character, and the last one raises the attention.
LEMMA CpuReadStep ==
  ASSUME Inv, CpuRead
  PROVE  Inv'
<1> USE DEF fpga, units, reads, job, ends
<1>1. reg' \in Regs /\ reg'.rerr = reg.rerr /\ reg'.rbusy = reg.rbusy /\ reg'.prdy = reg.prdy
  BY DEF Inv, Types, CpuRead, Regs
<1>2. Output' /\ Fetch'
  <2>1. lam => lam'
    BY DEF CpuRead
  <2>2. Output'
    BY <1>1 DEF Inv, Output, OutputExact, Taken, Swallowed, CpuRead
  <2>3. Fetch'
    BY <2>1 DEF Inv, Fetch, OutputNotStranded, LastSeen, CpuRead
  <2> QED
    BY <2>2, <2>3
<1>3. CASE rbuf = <<>>
  <2>1. UNCHANGED <<rbuf, got, lam>>
    BY <1>3 DEF CpuRead
  <2>2. Types' /\ Block'
    BY <2>1, <1>1 DEF Inv, Types, Block, RblkSize, CpuRead
  <2>3. Reader' /\ Refill'
    BY <2>1, <1>1 DEF Inv, Reader, Rest, Refill, AskedTooLate, CpuRead
  <2> QED
    BY <2>2, <2>3, <1>2 DEF Inv
<1>4. CASE rbuf # <<>>
  <2>1. rbuf' = Tail(rbuf) /\ got' = Append(got, Head(rbuf)) /\ lam' = (lam \/ Len(rbuf) = 1)
    BY <1>4 DEF CpuRead, LastValue
  <2>2. /\ Head(rbuf) \in Nat /\ rbuf' \in Seq(Nat) /\ Len(rbuf') = Len(rbuf) - 1
        /\ Len(rbuf) \in Nat /\ (rbuf' = <<>> <=> Len(rbuf') = 0)
    BY <2>1, <1>4, NatSeq DEF Inv, Types
  <2>3. got' \in Seq(Nat) /\ lam' \in BOOLEAN
    BY <2>1, <2>2, NatAppend DEF Inv, Types
  <2>4. (lam => lam') /\ (rbuf' = <<>> => lam')
    <3>1. rbuf' = <<>> => Len(rbuf) = 1
      BY <2>2
    <3> QED
      BY <2>1, <3>1, Zenon
  <2>5. Types'
    BY <2>2, <2>3, <1>1, StreamAssumption DEF Inv, Types, CpuRead
  <2>6. Block'
    <3>1. UNCHANGED <<pc, prim, blk, snap, primSize, rblkSize, fPrQlim>>
      BY DEF CpuRead
    <3>2. pc = "wblk" => Len(rbuf') + Len(blk) <= fPrQlim
      <4>1. pc = "wblk" => Len(blk) \in Nat /\ Len(rbuf) + Len(blk) <= fPrQlim /\ fPrQlim \in Nat
        BY StreamAssumption, NatSeq DEF Inv, Types, Block
      <4> QED
        BY <2>2, <4>1
    <3>3. pc = "read" => Len(rbuf') <= snap.rfuse
      BY <2>2 DEF Inv, Types, Snaps, Block
    <3> QED
      BY <3>1, <3>2, <3>3 DEF Inv, Block, RblkSize
  <2>7. Rest' = Rest /\ got' \o rbuf' \o Rest = got \o rbuf \o Rest
    BY ZenonT(30), <2>1, <1>4, HeldTypes, MoveHead DEF Inv, Types, Rest, CpuRead
  <2>8. Reader'
    BY <2>7, <1>1, <1>4 DEF Inv, Reader, CpuRead
  <2>9. Refill'
    BY <2>4, <1>1 DEF Inv, Refill, AskedTooLate, CpuRead
  <2> QED
    BY <2>5, <2>6, <2>8, <2>9, <1>2 DEF Inv
<1> QED
  BY <1>3, <1>4

\* The bus reset makes the output ready.
LEMMA BresetStep ==
  ASSUME Inv, Breset
  PROVE  Inv'
<1> USE DEF fpga, units, reads, job, ends
<1>1. Types'
  <2>1. reg' \in Regs /\ failed' \in BOOLEAN
    BY DEF Inv, Types, Breset, Regs
  <2> QED
    BY <2>1, StreamAssumption DEF Inv, Types, Breset
<1>2. Block'
  BY DEF Inv, Types, Block, RblkSize, Breset
<1>3. Output'
  <2>1. ~failed' => ~failed /\ Len(pbuf) # Fsize
    BY DEF Inv, Types, Breset
  <2>2. Len(pbuf) \in Nat /\ Len(pbuf) <= Fsize
    BY NatSeq DEF Inv, Types
  <2> QED
    BY <2>1, <2>2, StreamAssumption DEF Inv, Output, OutputExact, Taken, Swallowed, Breset
<1>4. Fetch'
  BY EmptySeq DEF Inv, Types, Block, Fetch, OutputNotStranded, LastSeen, Breset
<1>5. Reader'
  BY DEF Inv, Types, Block, Regs, Tapes, Reader, Rest, Breset
<1>6. Refill'
  BY DEF Inv, Types, Regs, Snaps, Reader, Refill, AskedTooLate, Breset
<1> QED
  BY <1>1, <1>2, <1>3, <1>4, <1>5, <1>6 DEF Inv

\* The primary list takes the attention and starts its block.
LEMMA AttnReadStep ==
  ASSUME Inv, AttnRead
  PROVE  Inv'
<1> USE DEF fpga, units, reads, job, ends
<1>1. Types'
  BY DEF Inv, Types, AttnRead
<1>2. Block'
  BY CharsEmpty, EmptySeq, StreamAssumption DEF Inv, Types, Block, RblkSize, AttnRead
<1>3. Output'
  <2>1. Taken' = <<>> /\ Taken = <<>>
    BY CharsEmpty DEF Inv, Block, Taken, AttnRead
  <2> QED
    BY <2>1 DEF Inv, Output, OutputExact, Swallowed, AttnRead
<1>4. Fetch'
  BY EmptySeq DEF Inv, Types, Block, Fetch, OutputNotStranded, LastSeen, AttnRead
<1>5. Reader'
  BY DEF Inv, Types, Block, Regs, Tapes, Reader, Rest, AttnRead
<1>6. Refill'
  BY DEF Inv, Types, Regs, Snaps, Reader, Refill, AskedTooLate, AttnRead
<1> QED
  BY <1>1, <1>2, <1>3, <1>4, <1>5, <1>6 DEF Inv

\* The queued read starts its block.
LEMMA RcvHandlerStep ==
  ASSUME Inv, RcvHandler
  PROVE  Inv'
<1> USE DEF fpga, units, reads, job, ends
<1>1. Types'
  BY DEF Inv, Types, RcvHandler
<1>2. Block'
  BY CharsEmpty, EmptySeq, StreamAssumption DEF Inv, Types, Block, RblkSize, RcvHandler
<1>3. Output'
  <2>1. Taken' = <<>> /\ Taken = <<>>
    BY CharsEmpty DEF Inv, Block, Taken, RcvHandler
  <2> QED
    BY <2>1 DEF Inv, Output, OutputExact, Swallowed, RcvHandler
<1>4. Fetch'
  BY EmptySeq DEF Inv, Types, Block, Fetch, OutputNotStranded, LastSeen, RcvHandler
<1>5. Reader'
  BY DEF Inv, Types, Block, Regs, Tapes, Reader, Rest, RcvHandler
<1>6. Refill'
  BY DEF Inv, Types, Regs, Snaps, Reader, Refill, AskedTooLate, RcvHandler
<1> QED
  BY <1>1, <1>2, <1>3, <1>4, <1>5, <1>6 DEF Inv

\* One character goes from the fifo to the block.
LEMMA RblkNextStep ==
  ASSUME Inv, RblkNext
  PROVE  Inv'
<1> USE DEF fpga, units, reads, job, ends
<1> DEFINE e == [c |-> Head(pbuf), fuse |-> Len(pbuf)]
<1>a. e \in Read /\ e.c = Head(pbuf) /\ e.fuse = Len(pbuf)
  BY NatSeq, StreamAssumption DEF Inv, Types, Read, RblkNext
<1>b. blk \in Seq(Read) /\ blk' = Append(blk, e) /\ pbuf' = Tail(pbuf) /\ pbuf # <<>>
  BY DEF Inv, Block, RblkNext
<1>c. /\ blk' \in Seq(Read) /\ Len(blk') = Len(blk) + 1 /\ Len(blk) \in Nat
      /\ blk'[Len(blk) + 1] = e /\ \A i \in 1 .. Len(blk) : blk'[i] = blk[i]
  BY <1>a, <1>b, AppendProperties, LenProperties
<1>d. DOMAIN blk = 1 .. Len(blk) /\ DOMAIN blk' = 1 .. Len(blk) + 1
  BY <1>b, <1>c, LenProperties
<1>1. Types'
  <2>1. pbuf' \in Seq(Nat) /\ Len(pbuf') <= Fsize
    BY SeqFacts, StreamAssumption DEF Inv, Types, RblkNext
  <2> QED
    BY <2>1, StreamAssumption DEF Inv, Types, RblkNext
<1>2. Block'
  BY <1>b, <1>c, StreamAssumption DEF Inv, Types, Block, RblkSize, RblkNext
<1>3. Output'
  <2>1. Taken = Chars(blk) /\ Taken' = Append(Chars(blk), Head(pbuf))
    BY <1>a, <1>b, CharsAppend DEF Taken, RblkNext
  <2>2. Chars(out) \o Taken' \o pbuf' = Chars(out) \o Taken \o pbuf
    <3>1. Chars(out) \in Seq(Nat) /\ Taken \in Seq(Nat) /\ pbuf \in Seq(Nat)
      BY HeldTypes DEF Inv, Types
    <3>2. Chars(out) \o Append(Taken, Head(pbuf)) \o Tail(pbuf) = Chars(out) \o Taken \o pbuf
      BY <3>1, <1>b, MoveHeadBehind
    <3> QED
      BY <2>1, <3>2, <1>b
  <2>3. Len(pbuf') < Len(pbuf) /\ Len(pbuf) \in Nat /\ Len(pbuf') \in Nat
    BY <1>b, NatSeq DEF Inv, Types
  <2> QED
    <3>1. OutputExact'
      BY <2>2 DEF Inv, Output, OutputExact, Swallowed, RblkNext
    <3>2. reg'.prdy /\ ~failed' => Len(pbuf') < Fsize
      BY <2>3, StreamAssumption DEF Inv, Output, RblkNext
    <3> QED
      BY <3>1, <3>2 DEF Output
<1>4. Fetch'
  <2>1. pbuf' # <<>> => Len(pbuf) # 1
    <3>1. pbuf' \in Seq(Nat) /\ Len(pbuf') = Len(pbuf) - 1
      BY <1>b, NatSeq DEF Inv, Types
    <3> QED
      BY <3>1, NatSeq
  <2>2. LastSeen' /\ pbuf' # <<>> => LastSeen
    BY <2>1, <1>a, <1>c, <1>d DEF LastSeen
  <2> QED
    BY <2>2, <1>b DEF Inv, Fetch, OutputNotStranded, RblkNext
<1>5. Reader'
  BY DEF Inv, Types, Block, Regs, Tapes, Reader, Rest, RblkNext
<1>6. Refill'
  BY DEF Inv, Types, Regs, Snaps, Reader, Refill, AskedTooLate, RblkNext
<1> QED
  BY <1>1, <1>2, <1>3, <1>4, <1>5, <1>6 DEF Inv

\* A block read ends.
LEMMA RblkEndStep ==
  ASSUME Inv, RblkEnd
  PROVE  Inv'
<1> USE DEF fpga, units, reads, job, ends
<1>1. Types'
  BY DEF Inv, Types, RblkEnd
<1>2. Block'
  BY DEF Inv, Types, Block, RblkSize, RblkEnd
<1>3. Output'
  BY DEF Inv, Types, Regs, Output, OutputExact, Taken, Swallowed, RblkEnd
<1>4. Fetch'
  <2>1. pbuf # <<>> => blk # <<>>
    BY EmptySeq, StreamAssumption DEF Inv, Types, Block, RblkSize, RblkEnd
  <2>2. LastSeen' = LastSeen
    BY DEF LastSeen, RblkEnd
  <2> QED
    BY <2>1, <2>2 DEF Inv, Fetch, OutputNotStranded, RblkEnd
<1>5. Reader'
  BY DEF Inv, Types, Block, Regs, Tapes, Reader, Rest, RblkEnd
<1>6. Refill'
  BY DEF Inv, Types, Regs, Snaps, Reader, Refill, AskedTooLate, RblkEnd
<1> QED
  BY <1>1, <1>2, <1>3, <1>4, <1>5, <1>6 DEF Inv

\* The characters of the block are written.
LEMMA ProcessBufStep ==
  ASSUME Inv, ProcessBuf
  PROVE  Inv'
<1> USE DEF fpga, units, reads, job, ends
<1>a. PICK written \in [DOMAIN blk -> BOOLEAN] : WriteChars(written)
  BY DEF ProcessBuf
<1>b. /\ pp' \in [att : BOOLEAN, err : BOOLEAN] /\ reg' \in Regs /\ failed' \in BOOLEAN
      /\ pbuf' \in {pbuf, <<>>} /\ reg'.rerr = reg.rerr /\ reg'.rbusy = reg.rbusy
      /\ ~failed' => /\ pbuf' = pbuf /\ ~failed /\ reg'.prdy = reg.prdy
                         /\ \A i \in DOMAIN blk : written[i] = ~Swallowed(blk[i].c)
  BY <1>a, WriteFacts DEF Inv
<1>c. /\ out' \in Seq(Handed) /\ Chars(out') = Chars(out) \o Chars(blk)
      /\ (\A i \in DOMAIN out : out[i].written = ~Swallowed(out[i].c))
           /\ (\A i \in DOMAIN blk : written[i] = ~Swallowed(blk[i].c))
         => \A i \in DOMAIN out' : out'[i].written = ~Swallowed(out'[i].c)
  BY <1>a, HandFacts DEF Inv, Block, ProcessBuf
<1>d. blk \in Seq(Read) /\ Len(blk) <= Fsize
  BY StreamAssumption, LenProperties DEF Inv, Types, Block, RblkSize, ProcessBuf
<1>e. kind' = kind /\ rbuf' = rbuf /\ blk' = <<>> /\ pc' = IF prim /\ kind = "pc" THEN "read" ELSE "idle"
  BY DEF ProcessBuf
<1>1. Types'
  <2>1. rblkSize' \in MinRblk .. Fsize /\ primSize' \in MinRblk .. Fsize
    BY <1>d, NextSize DEF Inv, Types, ProcessBuf
  <2>2. snap' \in Snaps /\ queBusy' \in BOOLEAN
    BY NatSeq, StreamAssumption DEF Inv, Types, Regs, Snaps, Requeue, LastSeen, ProcessBuf
  <2>3. pbuf' \in Seq(Nat) /\ Len(pbuf') <= Fsize
    <3>1. CASE pbuf' = pbuf
      BY <3>1 DEF Inv, Types
    <3>2. CASE pbuf' = <<>>
      BY <3>2, EmptySeq, StreamAssumption
    <3> QED
      BY <3>1, <3>2, <1>b
  <2> QED
    BY <1>b, <1>c, <1>e, <2>1, <2>2, <2>3 DEF Inv, Types, ProcessBuf
<1>2. Block'
  <2>1. prim => snap'.rfuse = Len(rbuf)
    BY DEF ProcessBuf
  <2> QED
    BY <1>e, <2>1, NatSeq DEF Inv, Types, Block
<1>3. Output'
  <2>1. Taken = Chars(blk) /\ Taken' = <<>>
    BY <1>e DEF Taken, ProcessBuf
  <2>2. Chars(out') \o Taken' = Chars(out) \o Taken
    BY <2>1, <1>c, HeldTypes, NatSeq, ConcatProperties DEF Inv
  <2>3. ASSUME ~failed'
        PROVE  /\ Chars(out') \o Taken' \o pbuf' = sent'
               /\ \A i \in DOMAIN out' : out'[i].written = ~Swallowed(out'[i].c)
    <3>1. /\ pbuf' = pbuf /\ ~failed /\ \A i \in DOMAIN blk : written[i] = ~Swallowed(blk[i].c)
      BY <2>3, <1>b
    <3>2. sent' = sent
      BY DEF ProcessBuf
    <3> QED
      BY <2>2, <3>1, <3>2, <1>c DEF Inv, Output, OutputExact
  <2>4. \A c : Swallowed(c)' = Swallowed(c)
    BY <1>e DEF Swallowed
  <2>5. OutputExact'
    BY <2>3, <2>4 DEF OutputExact
  <2>6. reg'.prdy /\ ~failed' => Len(pbuf') < Fsize
    BY <1>b DEF Inv, Output
  <2> QED
    BY <2>5, <2>6 DEF Output
<1>4. Fetch'
  <2>1. pbuf' # <<>> => lam \/ queBusy'
    BY <1>b DEF Inv, Fetch, Requeue, ProcessBuf
  <2> QED
    BY <2>1, <1>e DEF Fetch, OutputNotStranded, ProcessBuf
<1>5. Reader'
  <2>1. Rest' = <<>> /\ Rest = <<>>
    BY <1>e DEF Rest, ProcessBuf
  <2> QED
    BY <2>1, <1>b, <1>e DEF Inv, Reader, ProcessBuf
<1>6. Refill'
  <2>1. ~reg.rerr => kind = "pc"
    BY DEF Inv, Types, Reader
  <2>2. CASE prim
    <3>1. rbuf = <<>> => snap'.rfuse = 0
      BY <2>2, EmptySeq DEF ProcessBuf
    <3> QED
      BY <2>1, <2>2, <3>1, <1>b, <1>e DEF Refill
  <2>3. CASE ~prim
    <3>1. snap' = snap /\ lam' = lam /\ pc' = "idle" /\ pc = "out"
      BY <2>3 DEF ProcessBuf
    <3>2. AskedTooLate' = AskedTooLate
      BY <3>1 DEF AskedTooLate
    <3> QED
      BY <2>3, <3>1, <3>2, <1>b, <1>e DEF Inv, Refill
  <2> QED
    BY <2>2, <2>3
<1> QED
  BY <1>1, <1>2, <1>3, <1>4, <1>5, <1>6 DEF Inv

\* PrProcessBuf() has nothing to do.
LEMMA PrQuitStep ==
  ASSUME Inv, PrQuit
  PROVE  Inv'
<1> USE DEF fpga, units, reads, job, ends
<1>1. Types'
  <2>1. failed' \in BOOLEAN
    BY DEF Inv, Types, PrQuit
  <2> QED
    BY <2>1, StreamAssumption DEF Inv, Types, PrQuit
<1>2. Block'
  BY DEF Inv, Types, Block, RblkSize, PrQuit
<1>3. Output'
  BY DEF Inv, Types, Regs, Output, OutputExact, Taken, Swallowed, PrQuit
<1>4. Fetch'
  BY EmptySeq DEF Inv, Types, Block, Fetch, OutputNotStranded, LastSeen, PrQuit
<1>5. Reader'
  BY DEF Inv, Types, Block, Regs, Tapes, Reader, Rest, PrQuit
<1>6. Refill'
  <2>1. CASE ~snap.rbusy /\ snap.rfuse = 0
    <3>1. AskedTooLate'
      BY <2>1 DEF AskedTooLate, PrQuit
    <3> QED
      BY <3>1 DEF Refill, PrQuit
  <2>2. CASE snap.rbusy \/ snap.rfuse # 0
    <3>1. fPrDrain = "done" \/ snap.rfuse # 0
      BY <2>2, StreamAssumption DEF Inv, Types, Snaps, PrQuit
    <3> QED
      BY <2>2, <3>1 DEF Inv, Reader, Refill, AskedTooLate, PrQuit
  <2> QED
    BY <2>1, <2>2
<1> QED
  BY <1>1, <1>2, <1>3, <1>4, <1>5, <1>6 DEF Inv

\* The reader goes offline when its fifo is drained.
LEMMA PrDrainedStep ==
  ASSUME Inv, PrDrained
  PROVE  Inv'
<1> USE DEF fpga, units, reads, job, ends
<1>a. ~ReaderOnline(pr, "done")
  BY DEF Inv, Types, Tapes, Reader, ReaderOnline, PrDrained
<1>b. rbuf = <<>> /\ rbuf' = <<>> /\ reg' = [reg EXCEPT !.rerr = TRUE]
  <2>1. SetRerr(pr, "done") /\ Len(rbuf) <= 0
    BY DEF Inv, Block, PrDrained
  <2>2. rbuf = <<>>
    BY <2>1, NatSeq DEF Inv, Types
  <2> QED
    BY <2>1, <2>2, <1>a DEF SetRerr
<1>c. reg' \in Regs /\ reg'.rerr /\ reg'.rbusy = reg.rbusy /\ reg'.prdy = reg.prdy
  BY <1>b DEF Inv, Types, Regs
<1>1. Types'
  BY <1>b, <1>c DEF Inv, Types, PrDrained
<1>2. Block'
  BY DEF Inv, Types, Block, RblkSize, PrDrained, SetRerr, ReaderOnline
<1>3. Output'
  BY DEF Inv, Types, Regs, Output, OutputExact, Taken, Swallowed, PrDrained,
     SetRerr, ReaderOnline
<1>4. Fetch'
  BY EmptySeq DEF Inv, Types, Block, Fetch, OutputNotStranded, LastSeen, PrDrained,
     SetRerr, ReaderOnline
<1>5. Reader'
  BY <1>b, <1>c DEF Inv, Reader, Rest, PrDrained
<1>6. Refill'
  BY <1>b, <1>c DEF Refill, AskedTooLate
<1> QED
  BY <1>1, <1>2, <1>3, <1>4, <1>5, <1>6 DEF Inv

\* The tape is read up to the room in the fifo.
LEMMA PrFillStep ==
  ASSUME Inv, PrFill
  PROVE  Inv'
<1> USE DEF fpga, units, reads, job, ends
<1> DEFINE stop(n) == n < Nmax
           drain(n) == IF ~stop(n) THEN "idle" ELSE IF n = 0 /\ snap.rfuse = 0 THEN "done" ELSE "pend"
<1>a. PICK n \in 0 .. Nmax :
        /\ pr.pos + n <= pr.len
        /\ pr' = [pr EXCEPT !.pos = @ + n,
                           !.eof = @ \/ (stop(n) /\ pr.att /\ pr.pos + n = pr.len),
                           !.err = @ \/ (stop(n) /\ pr.att /\ pr.pos + n < pr.len)]
        /\ blk' = [i \in 1 .. n |-> pr.pos + i] /\ fPrDrain' = drain(n)
        /\ IF drain(n) = "done" THEN SetRerr(pr', drain(n)) ELSE UNCHANGED <<reg, rbuf>>
        /\ pc' = IF n = 0 THEN "idle" ELSE "wblk"
  BY DEF PrFill
<1>b. /\ pr' \in Tapes /\ pr'.att = pr.att /\ pr'.len = pr.len /\ pr'.pos = pr.pos + n
      /\ n < Nmax /\ pr.att => (pr'.eof \/ pr'.err) /\ (pr'.err \/ pr'.pos = pr'.len)
  <2>1. n \in Nat
    BY <1>a DEF Nmax
  <2> QED
    <3>1. pr \in Tapes /\ pr.pos + n \in Nat /\ pr.len \in Nat
      BY <2>1 DEF Inv, Types, Tapes
    <3>2. PICK eof \in BOOLEAN, err \in BOOLEAN :
            /\ pr' = [pr EXCEPT !.pos = pr.pos + n, !.eof = eof, !.err = err]
            /\ n < Nmax /\ pr.att => (eof \/ err) /\ (err \/ pr.pos + n = pr.len)
      <4> DEFINE eof == pr.eof \/ (stop(n) /\ pr.att /\ pr.pos + n = pr.len)
                 err == pr.err \/ (stop(n) /\ pr.att /\ pr.pos + n < pr.len)
      <4>1. pr' = [pr EXCEPT !.pos = pr.pos + n, !.eof = eof, !.err = err]
        BY <1>a
      <4>2. eof \in BOOLEAN /\ err \in BOOLEAN
        BY <3>1 DEF Tapes
      <4>3. n < Nmax /\ pr.att => (eof \/ err) /\ (err \/ pr.pos + n = pr.len)
        BY <3>1, <1>a
      <4> HIDE DEF eof, err
      <4> QED
        BY <4>1, <4>2, <4>3
    <3> QED
      BY <3>1, <3>2 DEF Tapes
<1>c. /\ fPrQlim \in 1 .. Fsize /\ Fsize \in Nat /\ snap.rfuse \in Nat /\ n \in Nat
      /\ n + snap.rfuse <= fPrQlim /\ snap.rfuse < fPrQlim /\ (~stop(n) => n # 0)
  BY SMTT(30), <1>a, StreamAssumption DEF Inv, Types, Snaps, Nmax, PrFill
<1>d. blk' \in Seq(Nat) /\ Len(blk') = n /\ (blk' = <<>> <=> n = 0)
  <2>1. blk' \in [1 .. n -> Nat]
    BY SMTT(30), <1>a, <1>c DEF Inv, Types, Tapes
  <2>2. blk' \in Seq(Nat) /\ Len(blk') = n
    BY <2>1, <1>c, IsASeq, LenProperties
  <2> QED
    BY <2>2, NatSeq
<1>e. Len(rbuf) \in Nat /\ Len(rbuf) <= snap.rfuse /\ (rbuf = <<>> <=> Len(rbuf) = 0)
  BY NatSeq DEF Inv, Types, Block, PrFill
<1>f. drain(n) # "done" => UNCHANGED <<reg, rbuf>>
  BY <1>a
<1>g. drain(n) = "done" => /\ n = 0 /\ snap.rfuse = 0 /\ rbuf = <<>> /\ rbuf' = <<>> /\ n < Nmax
                           /\ reg' = [reg EXCEPT !.rerr = TRUE]
  <2> SUFFICES ASSUME drain(n) = "done"
               PROVE  /\ n = 0 /\ snap.rfuse = 0 /\ rbuf = <<>> /\ rbuf' = <<>> /\ n < Nmax
                      /\ reg' = [reg EXCEPT !.rerr = TRUE]
    OBVIOUS
  <2>1. n = 0 /\ snap.rfuse = 0 /\ n < Nmax /\ rbuf = <<>>
    BY <1>e
  <2>2. SetRerr(pr', "done") /\ ~ReaderOnline(pr', "done")
    BY <1>a, <1>b, <2>1 DEF ReaderOnline, Tapes
  <2> QED
    BY <2>1, <2>2 DEF SetRerr
<1>h. /\ reg' \in Regs /\ rbuf' = rbuf /\ reg'.rbusy = reg.rbusy /\ reg'.prdy = reg.prdy
      /\ drain(n) = "done" => reg'.rerr
      /\ drain(n) # "done" => reg' = reg
  BY <1>f, <1>g DEF Inv, Types, Regs
<1>i. n # 0 => pr.att /\ ~reg.rerr
  BY SMTT(30), <1>a, <1>c DEF Inv, Types, Tapes, Regs, Reader, PrFill
<1>j. drain(n) \in {"idle", "pend", "done"} /\ (drain(n) # "idle" <=> n < Nmax)
  OBVIOUS
<1> HIDE DEF stop, drain
<1>1. Types'
  BY <1>a, <1>b, <1>h, <1>j DEF Inv, Types, PrFill
<1>2. Block'
  BY <1>a, <1>c, <1>d, <1>e, <1>h DEF Inv, Block, PrFill
<1>3. Output'
  <2>1. Taken = <<>> /\ Taken' = <<>>
    BY <1>a DEF Taken, PrFill
  <2> QED
    BY <2>1, <1>h DEF Inv, Output, OutputExact, Swallowed, PrFill
<1>4. Fetch'
  BY <1>a DEF Inv, Fetch, OutputNotStranded, PrFill
<1>5. Reader'
  <2>1. Rest = <<>> /\ Rest' = blk'
    BY <1>a, <1>d DEF Rest, PrFill
  <2>2. pr.att => got \o rbuf' \o Rest' = [i \in 1 .. pr'.pos |-> i]
    <3> SUFFICES ASSUME pr.att PROVE got \o rbuf' \o Rest' = [i \in 1 .. pr'.pos |-> i]
      OBVIOUS
    <3>1. got \o rbuf \in Seq(Nat) /\ (got \o rbuf) \o <<>> = got \o rbuf /\ pr.pos \in Nat
      BY ConcatProperties, NatSeq DEF Inv, Types, Tapes
    <3>2. got \o rbuf = [i \in 1 .. pr.pos |-> i]
      BY <2>1, <3>1 DEF Inv, Reader
    <3> QED
      <4>1. (got \o rbuf) \o [i \in 1 .. n |-> pr.pos + i] = [i \in 1 .. pr.pos + n |-> i]
        BY SMTT(30), <3>1, <3>2, <1>c, TapeGoesOn
      <4>2. Rest' = [i \in 1 .. n |-> pr.pos + i] /\ rbuf' = rbuf /\ pr'.pos = pr.pos + n
        BY <2>1, <1>a, <1>b, <1>h
      <4> QED
        BY <4>1, <4>2
  <2>3. pr'.pos <= pr'.len /\ (~pr.att => pr'.pos = 0 /\ pr'.len = 0)
    BY <1>a, <1>b, <1>c DEF Inv, Types, Tapes, Reader
  <2>4. fPrDrain' = "done" <=> drain(n) = "done"
    BY <1>a
  <2>5. drain(n) = "done" \/ (fPrDrain' # "done" /\ reg' = reg)
    BY <1>h, <2>4
  <2>6. fPrDrain = "idle" /\ kind' = kind /\ kind = "pc" /\ got' = got
    BY DEF Inv, Reader, PrFill
  <2>7. pr'.att /\ fPrDrain' # "idle" => (pr'.eof \/ pr'.err) /\ (pr'.err \/ pr'.pos = pr'.len)
    BY <1>a, <1>b, <1>j
  <2>8. pr'.att /\ reg'.rerr => fPrDrain' = "done"
    BY <1>b, <2>4, <2>5, <2>6 DEF Inv, Reader
  <2>9. pc' = "wblk" => pr'.att /\ ~reg'.rerr
    BY <1>a, <1>b, <1>g, <1>h, <1>i
  <2>10. (reg'.rerr => rbuf' = <<>>) /\ (fPrDrain' = "done" => reg'.rerr) /\ (~pr'.att => reg'.rerr)
    BY <1>b, <1>g, <1>h, <2>4, <2>5 DEF Inv, Reader
  <2> QED
    BY <1>b, <2>2, <2>3, <2>6, <2>7, <2>8, <2>9, <2>10 DEF Reader
<1>6. Refill'
  <2>1. CASE n = 0
    <3>1. ~reg'.rerr /\ rbuf' = <<>> => lam
      <4> SUFFICES ASSUME ~reg'.rerr, rbuf' = <<>> PROVE lam
        OBVIOUS
      <4>1. drain(n) # "done" /\ reg' = reg
        BY <1>h
      <4>2. n < Nmax /\ snap.rfuse # 0
        BY <2>1, <4>1, <1>c DEF stop, drain
      <4> QED
        BY <4>1, <4>2, <1>h DEF Inv, Refill, AskedTooLate, PrFill
    <3> QED
      BY <2>1, <3>1, <1>a DEF Refill, AskedTooLate, PrFill
  <2>2. CASE n # 0
    BY <2>2, <1>a DEF Refill, AskedTooLate
  <2> QED
    BY <2>1, <2>2
<1> QED
  BY <1>1, <1>2, <1>3, <1>4, <1>5, <1>6 DEF Inv

\* One character goes from the block to the reader's fifo.
LEMMA WblkNextStep ==
  ASSUME Inv, WblkNext
  PROVE  Inv'
<1> USE DEF fpga, units, reads, job, ends
<1>a. /\ blk \in Seq(Nat) /\ blk # <<>> /\ Len(rbuf) + Len(blk) <= fPrQlim
      /\ rbuf' = Append(rbuf, Head(blk)) /\ blk' = Tail(blk)
  BY DEF Inv, Block, WblkNext
<1>b. /\ rbuf' \in Seq(Nat) /\ Len(rbuf') = Len(rbuf) + 1 /\ rbuf' # <<>> /\ Len(rbuf) \in Nat
      /\ blk' \in Seq(Nat) /\ Len(blk') = Len(blk) - 1 /\ Len(blk) \in Nat
      /\ (Len(blk) = 1 <=> blk' = <<>>)
  <2>1. Head(blk) \in Nat /\ blk' \in Seq(Nat) /\ Len(blk') = Len(blk) - 1 /\ Len(blk) \in Nat
    BY <1>a, NatSeq
  <2>2. rbuf' \in Seq(Nat) /\ Len(rbuf') = Len(rbuf) + 1 /\ rbuf' # <<>> /\ Len(rbuf) \in Nat
    BY <2>1, <1>a, NatSeq, NatAppend DEF Inv, Types
  <2>3. Len(blk) = 1 <=> blk' = <<>>
    BY <2>1, NatSeq
  <2> QED
    BY <2>1, <2>2, <2>3
<1>1. Types'
  BY <1>b, StreamAssumption DEF Inv, Types, WblkNext
<1>2. Block'
  <2>1. Len(rbuf') + Len(blk') <= fPrQlim
    BY <1>a, <1>b, StreamAssumption DEF Inv, Types
  <2>2. pc' = "idle" => blk' = <<>>
    BY <1>b DEF WblkNext
  <2>3. pc' # "idle" => pc' = "wblk" /\ blk' # <<>>
    BY <1>b DEF WblkNext
  <2>4. fPrQlim' = fPrQlim
    BY DEF WblkNext
  <2> QED
    BY <2>1, <2>2, <2>3, <2>4, <1>b DEF Block
<1>3. Output'
  BY DEF Inv, Types, Regs, Output, OutputExact, Taken, Swallowed, WblkNext
<1>4. Fetch'
  BY EmptySeq DEF Inv, Types, Block, Fetch, OutputNotStranded, LastSeen, WblkNext
<1>5. Reader'
  <2>1. Rest = blk /\ Rest' = blk'
    BY <1>b DEF Rest, WblkNext
  <2>2. got \o rbuf' \o Rest' = got \o rbuf \o Rest
    BY <2>1, <1>a, MoveHeadBehind DEF Inv, Types
  <2> QED
    BY <2>2 DEF Inv, Reader, WblkNext
<1>6. Refill'
  BY <1>b DEF Refill, AskedTooLate
<1> QED
  BY <1>1, <1>2, <1>3, <1>4, <1>5, <1>6 DEF Inv

\* A tape is mounted; the fifo is filled in advance.
LEMMA AttachReaderStep ==
  ASSUME Inv, NEW m \in Nat, AttachReader(m)
  PROVE  Inv'
<1> USE DEF fpga, units, reads, job, ends
<1>1. Types'
  <2>1. reg' \in Regs
    BY DEF Inv, Types, AttachReader, Regs
  <2>2. pr' \in Tapes
    BY DEF AttachReader, NoTape, Tapes
  <2>3. snap' \in Snaps
    BY StreamAssumption DEF AttachReader, Snaps
  <2> QED
    BY <2>1, <2>2, <2>3, StreamAssumption DEF Inv, Types, AttachReader, NoTape
<1>2. Block'
  BY DEF Inv, Types, Block, RblkSize, AttachReader, NoTape
<1>3. Output'
  BY DEF Inv, Types, Regs, Output, OutputExact, Taken, Swallowed, AttachReader, NoTape
<1>4. Fetch'
  BY EmptySeq DEF Inv, Types, Block, Fetch, OutputNotStranded, LastSeen, AttachReader,
     NoTape
<1>5. Reader'
  BY DEF Inv, Types, Block, Regs, Tapes, Reader, Rest, AttachReader, NoTape
<1>6. Refill'
  BY DEF Inv, Types, Regs, Snaps, Reader, Refill, AskedTooLate, AttachReader, NoTape
<1> QED
  BY <1>1, <1>2, <1>3, <1>4, <1>5, <1>6 DEF Inv

\* The tape is taken off.
LEMMA DetachReaderStep ==
  ASSUME Inv, DetachReader
  PROVE  Inv'
<1> USE DEF fpga, units, reads, job, ends
<1>1. Types'
  <2>1. reg' \in Regs
    BY DEF Inv, Types, DetachReader, SetRerr, ReaderOnline, NoTape, Regs
  <2>2. pr' \in Tapes
    BY DEF DetachReader, NoTape, Tapes
  <2> QED
    BY <2>1, <2>2, StreamAssumption DEF Inv, Types, DetachReader, NoTape, SetRerr,
       ReaderOnline
<1>2. Block'
  BY DEF Inv, Types, Block, RblkSize, DetachReader, NoTape, SetRerr, ReaderOnline
<1>3. Output'
  BY DEF Inv, Types, Regs, Output, OutputExact, Taken, Swallowed, DetachReader,
     NoTape, SetRerr, ReaderOnline
<1>4. Fetch'
  BY EmptySeq DEF Inv, Types, Block, Fetch, OutputNotStranded, LastSeen, DetachReader,
     NoTape, SetRerr, ReaderOnline
<1>5. Reader'
  BY DEF Inv, Types, Block, Regs, Tapes, Reader, Rest, DetachReader, NoTape, SetRerr,
     ReaderOnline
<1>6. Refill'
  BY DEF Inv, Types, Regs, Snaps, Reader, Refill, AskedTooLate, DetachReader, NoTape, SetRerr,
     ReaderOnline
<1> QED
  BY <1>1, <1>2, <1>3, <1>4, <1>5, <1>6 DEF Inv

\* The output file is changed.
LEMMA ChangeOutputStep ==
  ASSUME Inv, NEW att \in BOOLEAN, ChangeOutput(att)
  PROVE  Inv'
<1> USE DEF fpga, units, reads, job, ends
<1>1. Types'
  <2>1. reg' \in Regs /\ failed' \in BOOLEAN
    BY DEF Inv, Types, ChangeOutput, Regs
  <2> QED
    BY <2>1, StreamAssumption DEF Inv, Types, ChangeOutput
<1>2. Block'
  BY DEF Inv, Types, Block, RblkSize, ChangeOutput
<1>3. Output'
  BY DEF Inv, Types, Regs, Output, OutputExact, Taken, Swallowed, ChangeOutput
<1>4. Fetch'
  BY EmptySeq DEF Inv, Types, Block, Fetch, OutputNotStranded, LastSeen, ChangeOutput
<1>5. Reader'
  BY DEF Inv, Types, Block, Regs, Tapes, Reader, Rest, ChangeOutput
<1>6. Refill'
  BY DEF Inv, Types, Regs, Snaps, Reader, Refill, AskedTooLate, ChangeOutput
<1> QED
  BY <1>1, <1>2, <1>3, <1>4, <1>5, <1>6 DEF Inv

-----------------------------------------------------------------------------
(* The specification.                                                       *)

\* The start of the controller with no tape in the reader.
LEMMA InvInit == Init => Inv
<1> SUFFICES ASSUME Init PROVE Inv
  OBVIOUS
<1>1. reg \in Regs /\ reg.rerr /\ ~reg.rbusy /\ failed \in BOOLEAN
  BY DEF Init, Regs
<1>2. pr \in Tapes /\ ~pr.att /\ pr.pos = 0 /\ pr.len = 0 /\ snap \in Snaps
  BY StreamAssumption DEF Init, NoTape, NoSnap, Tapes, Snaps
<1>3. Types
  <2>1. pp \in [att : BOOLEAN, err : BOOLEAN]
    BY DEF Init
  <2>2. /\ pbuf \in Seq(Nat) /\ rbuf \in Seq(Nat) /\ Len(pbuf) = 0 /\ Len(rbuf) = 0
        /\ sent \in Seq(Nat) /\ out \in Seq(Handed) /\ got \in Seq(Nat)
    BY EmptySeq DEF Init
  <2> QED
    <3>1. lam \in BOOLEAN /\ queBusy \in BOOLEAN /\ prim \in BOOLEAN
      BY Zenon DEF Init
    <3>2. rblkSize \in MinRblk .. Fsize /\ primSize \in MinRblk .. Fsize /\ nout \in Nat
      BY StreamAssumption DEF Init
    <3> QED
      BY <1>1, <1>2, <2>1, <2>2, <3>1, <3>2, StreamAssumption DEF Init, Types
<1>4. Block /\ Fetch /\ Reader /\ Refill
  BY <1>1, <1>2 DEF Init, Block, Fetch, OutputNotStranded, Reader, Refill
<1>5. Output
  <2>1. Chars(out) = <<>> /\ Taken = <<>> /\ pbuf = <<>> /\ sent = <<>> /\ out = <<>>
    BY CharsEmpty DEF Init, Taken
  <2>2. <<>> \o <<>> \o <<>> = <<>>
    BY EmptySeq, ConcatEmptySeq
  <2>3. Len(pbuf) < Fsize /\ DOMAIN out = {}
    BY <2>1, EmptySeq, StreamAssumption
  <2> QED
    BY <2>1, <2>2, <2>3 DEF Output, OutputExact
<1> QED
  BY <1>3, <1>4, <1>5 DEF Inv

\* Every step of the CPU, the handlers and the clients keeps the invariant.
LEMMA InvStep == Inv /\ [Next]_vars => Inv'
<1> SUFFICES ASSUME Inv, [Next]_vars PROVE Inv'
  OBVIOUS
<1>1. CASE UNCHANGED vars
  <2> USE <1>1 DEF vars, fpga, units, reads, job, ends, Inv
  <2>1. Types' /\ Block'
    BY DEF Types, Block, RblkSize
  <2>2. Output'
    BY DEF Output, OutputExact, Taken, Swallowed
  <2>3. Fetch'
    BY DEF Fetch, OutputNotStranded, LastSeen
  <2>4. Reader' /\ Refill'
    BY DEF Reader, Rest, Refill, AskedTooLate
  <2> QED
    BY <2>1, <2>2, <2>3, <2>4
<1>2. CASE Cpu
  <2>1. \A c \in {NUL, nout + 1} : c \in Nat
    BY DEF Inv, Types, NUL
  <2> QED
    BY <2>1, <1>2, ReadyStep, CpuOutStep, CpuEnableStep, ReaderDoneStep, CpuReadStep,
       BresetStep
       DEF Cpu
<1>3. CASE Host
  BY <1>3, AttnReadStep, RcvHandlerStep, RblkNextStep, RblkEndStep, ProcessBufStep,
     PrQuitStep,
     PrDrainedStep, PrFillStep, WblkNextStep DEF Host
<1>4. CASE Client
  BY <1>4, AttachReaderStep, DetachReaderStep, ChangeOutputStep, StreamAssumption DEF Client
<1> QED
  BY <1>1, <1>2, <1>3, <1>4 DEF Next

\* The invariant holds throughout.
LEMMA Invariant == Spec => []Inv
  BY InvInit, InvStep, PTL DEF Spec

\* Fifos and block sizes stay within their limits, and every block that
\* PrProcessBuf() writes fits the reader's fifo although the usage was read before.
THEOREM BlocksFit == Spec => []StreamInv
<1>1. Inv => StreamInv
  <2> SUFFICES ASSUME Inv PROVE StreamInv
    OBVIOUS
  <2>1. Len(blk) <= Fsize
    <3>1. CASE pc \in {"rblk", "out"}
      BY <3>1, StreamAssumption, LenProperties DEF Inv, Types, Block, RblkSize
    <3>2. CASE pc = "wblk"
      BY <3>2, StreamAssumption, LenProperties DEF Inv, Types, Block
    <3>3. CASE pc \in {"idle", "read"}
      BY <3>3, StreamAssumption, EmptySeq DEF Inv, Block
    <3> QED
      BY <3>1, <3>2, <3>3 DEF Inv, Types
  <2>2. TypeOK
    BY <2>1 DEF Inv, Types, TypeOK, Regs, Tapes, Snaps
  <2> QED
    BY <2>2 DEF Inv, Block, StreamInv, ReaderNoOverrun
<1> QED
  BY <1>1, Invariant, PTL

\* No character of printer, punch or reader is lost, doubled or out of order.
THEOREM CharactersExact == Spec => []StreamExact
<1>1. Inv => StreamExact
  <2> SUFFICES ASSUME Inv, pr.att, reg.rerr
               PROVE  got = [i \in 1 .. pr.pos |-> i] /\ (pr.err \/ pr.pos = pr.len)
    BY DEF Inv, Output, Reader, Rest, StreamExact, ReaderExact
  <2>1. rbuf = <<>> /\ Rest = <<>> /\ (pr.err \/ pr.pos = pr.len)
    BY DEF Inv, Reader, Rest
  <2>2. got \o <<>> \o <<>> = got
    BY NatSeq DEF Inv, Types
  <2> QED
    BY <2>1, <2>2 DEF Inv, Reader
<1> QED
  BY <1>1, Invariant, PTL

\* No character waits for ever in the output fifo, and no CPU at an online reader
\* unless its RENB came after the handler's last look at an empty fifo, which the
\* code does not notice.
THEOREM CharactersNotStranded == Spec => []NotStranded
<1>1. Inv => NotStranded
  BY DEF Inv, Types, Fetch, Refill, AskedTooLate, NotStranded, ReaderNotStranded, ReaderWaits
<1> QED
  BY <1>1, Invariant, PTL
=============================================================================
