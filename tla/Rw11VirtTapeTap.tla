---------------------------- MODULE Rw11VirtTapeTap ----------------------------
(***************************************************************************)
(* Rw11VirtTapeTap: a tape kept in a file as tags and data bytes.  A       *)
(* record is its length tag, its bytes (padded to even length in the e11   *)
(* dialect) and the tag again; a tag of length zero is a tape mark, the    *)
(* all ones tag is the end of the medium.  A tape is the record            *)
(*   file, pos, bad, trunc, posfile, posrec, pad, cap, wprot               *)
(* of the members fFd, fPos, fBad, fTruncPend, fPosFile, fPosRecord,       *)
(* fPadOdd, fCapacity and fWProt; fSize is the length of the file, fBot is *)
(* pos = 0 and fEot is pos beyond cap.  Each operation returns the tape    *)
(* after it, whether it returned true, the opcode, and what it read or how *)
(* many records it passed.                                                 *)
(***************************************************************************)
EXTENDS Integers, Sequences, FiniteSets, FiniteSetsExt

CONSTANTS MetaSize,    \* sizeof(uint32_t)
          RlenMod      \* kMeta_B_Rlen + 1

ASSUME TapAssumption == MetaSize \in Nat \ {0} /\ RlenMod \in Nat \ {0}

\* A byte of the file: the i-th one of a tag, or data.
Tag(kind, n) == [i \in 1 .. MetaSize |-> <<kind, n, i>>]
Byte(x) == <<"byte", x, 0>>
MetaEof == <<"rec", 0>>
MetaEom == <<"eom", 0>>
MetaBad == <<"mbz", 0>>

Size(t) == Len(t.file)
Bot(t) == t.pos = 0
Eot(t) == t.cap # 0 /\ t.pos > t.cap
BytePadding(t, n) == IF t.pad THEN 2 * ((n + 1) \div 2) ELSE n
Fits(t, p, n) == p + n <= Size(t)      \* CheckSizeForw()

\* The tag at p.  Bytes that are not one tag are taken for a tag with kMeta_M_Mbz
\* bits set, as is a length beyond kMeta_B_Rlen.
TagAt(t, p) ==
  LET b == t.file[p + 1]
      m == <<b[1], b[2]>>
  IN IF /\ Fits(t, p, MetaSize)
        /\ SubSeq(t.file, p + 1, p + MetaSize) = Tag(b[1], b[2])
        /\ (b[1] # "eom" => b[2] < RlenMod)
     THEN m ELSE MetaBad

Result(t, ok, op, n, data) == [t |-> t, ok |-> ok, op |-> op, n |-> n, data |-> data]
Failed(t, n) == Result([t EXCEPT !.bad = TRUE], FALSE, "format", n, <<>>)   \* SetBad()
IncPosRecord(t, d) == IF t.posrec = -1 THEN -1 ELSE t.posrec + d

Open(file, pad, cap, wprot) ==
  [file |-> file, pos |-> 0, bad |-> FALSE, trunc |-> TRUE, posfile |-> 0, posrec |-> 0,
   pad |-> pad, cap |-> cap, wprot |-> wprot]

-----------------------------------------------------------------------------
\* Behind the data of a record of len bytes, n of which were read.
BehindData(t, len, n) ==
  t.pos + MetaSize + n + (IF n < BytePadding(t, len) THEN BytePadding(t, len) ELSE 0)

ReadRecord(t, nbyt) ==
  LET m == TagAt(t, t.pos)
      len == m[2]
      n == Min({len, nbyt})
      p == BehindData(t, len, n)
      passed == [t EXCEPT !.pos = p + MetaSize, !.posrec = IncPosRecord(t, 1)]
  IN IF t.bad THEN Result(t, FALSE, "format", 0, <<>>)
     ELSE IF t.pos = Size(t) THEN Result(t, TRUE, "eom", 0, <<>>)
     ELSE IF m = MetaEof
     THEN Result([t EXCEPT !.pos = @ + MetaSize, !.posfile = @ + 1, !.posrec = 0],
                 TRUE, "eof", 0, <<>>)
     ELSE IF m = MetaEom THEN Result(t, TRUE, "eom", 0, <<>>)
     ELSE IF m = MetaBad \/ ~Fits(t, t.pos + MetaSize, BytePadding(t, len)) THEN Failed(t, 0)
     ELSE IF ~Fits(t, p, MetaSize) \/ TagAt(t, p) # m THEN Failed([t EXCEPT !.pos = p], 0)
     ELSE Result(passed, TRUE, IF n < len THEN "rle" ELSE IF m[1] = "perr" THEN "parity" ELSE "ok",
                 n, SubSeq(t.file, t.pos + MetaSize + 1, t.pos + MetaSize + n))

\* Write() of several pieces, of which only the first k succeed; k = -1: the
\* file is not even truncated.  The last piece is stepped back over.
Pieces(s, k) ==
  LET f[i \in 0 .. k] == IF i = 0 THEN <<>> ELSE f[i - 1] \o s[i] IN f[k]
Write(t, s, k) ==
  LET out == Pieces(s, Max({0, k}))
      file == IF t.trunc THEN SubSeq(t.file, 1, t.pos) ELSE t.file
      behind == SubSeq(file, t.pos + Len(out) + 1, Len(file))
  IN IF k = -1 THEN t
     ELSE [t EXCEPT !.file = SubSeq(file, 1, t.pos) \o out \o behind, !.trunc = FALSE,
                    !.pos = @ + Len(out) - (IF k = Len(s) THEN MetaSize ELSE 0)]

RecordPieces(t, data) ==
  LET tag == Tag("rec", Len(data))
  IN <<tag, data>> \o (IF t.pad /\ Len(data) % 2 = 1 THEN <<<<Byte(0)>>>> ELSE <<>>)
     \o <<tag, Tag("eom", 0)>>
EofPieces == <<Tag("rec", 0), Tag("eom", 0)>>

\* lost: so many of the last pieces are not written.
WriteRecord(t, data, lost) ==
  LET s == RecordPieces(t, data)
      u == Write(t, s, Max({-1, Len(s) - lost}))
  IN IF t.bad THEN Result(t, FALSE, "format", 0, <<>>)
     ELSE IF lost # 0 THEN Failed(u, 0)
     ELSE Result([u EXCEPT !.posrec = IncPosRecord(t, 1)], TRUE, "ok", 0, <<>>)
WriteEof(t, lost) ==
  LET u == Write(t, EofPieces, Max({-1, Len(EofPieces) - lost}))
  IN IF t.bad THEN Result(t, FALSE, "ok", 0, <<>>)
     ELSE IF lost # 0 THEN Failed(u, 0)
     ELSE Result([u EXCEPT !.posfile = @ + 1, !.posrec = 0], TRUE, "ok", 0, <<>>)

\* One record of SpaceForw() and of SpaceBack(), as a step of a loop that goes on
\* while op is "next".
ForwOne(r) ==
  LET t == r.t
      m == TagAt(t, t.pos)
      q == t.pos + 2 * MetaSize + BytePadding(t, m[2])
  IN IF t.pos = Size(t) THEN [r EXCEPT !.op = "eom"]
     ELSE IF m = MetaEof
     THEN [r EXCEPT !.op = "eof", !.t.pos = @ + MetaSize, !.t.posfile = @ + 1, !.t.posrec = 0]
     ELSE IF m = MetaEom THEN [r EXCEPT !.op = "eom"]
     ELSE IF m = MetaBad \/ q > Size(t) THEN Failed(t, r.n)
     ELSE [r EXCEPT !.t.pos = q, !.t.posrec = IncPosRecord(t, 1), !.n = @ + 1]
BackOneKeepsRec(r) ==
  LET t == r.t
      m == TagAt(t, t.pos - MetaSize)
      q == t.pos - (2 * MetaSize + BytePadding(t, m[2]))
  IN IF t.pos = 0 THEN [r EXCEPT !.op = "bot", !.t.posfile = 0, !.t.posrec = 0]
     ELSE IF t.pos < MetaSize THEN Failed(t, r.n)
     ELSE IF m = MetaEof
     THEN [r EXCEPT !.op = "eof", !.t.pos = @ - MetaSize, !.t.posfile = @ - 1, !.t.posrec = 0]
     ELSE IF m \in {MetaEom, MetaBad} \/ q < 0 THEN Failed(t, r.n)
     ELSE [r EXCEPT !.t.pos = q, !.t.posrec = IncPosRecord(t, -1), !.n = @ + 1]
BackOneShort(r) ==
  LET t == r.t
      m == TagAt(t, t.pos - MetaSize)
      q == t.pos - (MetaSize + BytePadding(t, m[2]))
  IN IF t.pos = 0 THEN [r EXCEPT !.op = "bot", !.t.posfile = 0, !.t.posrec = 0]
     ELSE IF t.pos < MetaSize THEN Failed(t, r.n)
     ELSE IF m = MetaEof
     THEN [r EXCEPT !.op = "eof", !.t.pos = @ - MetaSize, !.t.posfile = @ - 1, !.t.posrec = -1]
     ELSE IF m \in {MetaEom, MetaBad} \/ q < 0 THEN Failed(t, r.n)
     ELSE [r EXCEPT !.t.pos = q, !.t.posrec = IncPosRecord(t, -1), !.n = @ + 1]
BackOne(r) ==
  LET t == r.t
      m == TagAt(t, t.pos - MetaSize)
      q == t.pos - (2 * MetaSize + BytePadding(t, m[2]))
  IN IF t.pos = 0 THEN [r EXCEPT !.op = "bot", !.t.posfile = 0, !.t.posrec = 0]
     ELSE IF t.pos < MetaSize THEN Failed(t, r.n)
     ELSE IF m = MetaEof
     THEN [r EXCEPT !.op = "eof", !.t.pos = @ - MetaSize, !.t.posfile = @ - 1, !.t.posrec = -1]
     ELSE IF m \in {MetaEom, MetaBad} \/ q < 0 THEN Failed(t, r.n)
     ELSE [r EXCEPT !.t.pos = q, !.t.posrec = IncPosRecord(t, -1), !.n = @ + 1]

Space(t, nrec, One(_)) ==
  LET f[k \in 0 .. nrec] ==
        IF k = 0 THEN Result(t, TRUE, "next", 0, <<>>)
        ELSE LET r == f[k - 1] IN IF r.op = "next" THEN One(r) ELSE r
      last == f[nrec]
  IN IF t.bad THEN Result(t, FALSE, "format", 0, <<>>)
     ELSE IF last.op = "next" THEN [last EXCEPT !.op = "ok"] ELSE last
SpaceForw(t, nrec) == Space(t, nrec, ForwOne)
SpaceBack(t, nrec) ==
  Space(IF t.bad THEN t ELSE [t EXCEPT !.trunc = TRUE], nrec, BackOne)

Rewind(t) ==
  Result([t EXCEPT !.pos = 0, !.posfile = 0, !.posrec = 0, !.bad = FALSE, !.trunc = TRUE],
         TRUE, "ok", 0, <<>>)

\* SetPosFile() and SetPosRecord() of Rw11VirtTape.  Far stands for 1000000000.
Far(t) == Size(t) + 1
SetPosFile(t, n) ==
  LET f[k \in 0 .. n] ==
        IF k = 0 THEN Rewind(t)
        ELSE LET r == f[k - 1]
             IN IF r.op \in {"eom", "format"} THEN r ELSE SpaceForw(r.t, Far(t))
  IN f[n].t
SetPosRecord(t, n) ==
  LET b == SpaceBack(t, Far(t))
      c == IF b.op = "eof" THEN SpaceForw(b.t, 1) ELSE b
      d == SpaceForw(c.t, n)
      e == SpaceBack(d.t, 1)
  IN IF ~b.ok \/ ~c.ok \/ n = 0 THEN c.t
     ELSE IF d.op = "eof" THEN (IF e.ok THEN [e.t EXCEPT !.posrec = d.n] ELSE e.t) ELSE d.t

-----------------------------------------------------------------------------
(* The tape as its user sees it.                                            *)

\* Records and marks in the file, up to the end of the medium or to what is not a
\* record.
Items(t) ==
  LET f[p \in 0 .. Size(t)] ==
        LET m == TagAt(t, p)
            q == p + 2 * MetaSize + BytePadding(t, m[2])
        IN IF ~Fits(t, p, MetaSize) THEN <<>>
           ELSE IF m = MetaEof THEN <<[tag |-> m, data |-> <<>>, end |-> m]>> \o f[p + MetaSize]
           ELSE IF m \in {MetaEom, MetaBad} \/ q > Size(t) THEN <<>>
           ELSE <<[tag |-> m, data |-> SubSeq(t.file, p + MetaSize + 1, p + MetaSize + m[2]),
                   end |-> TagAt(t, q - MetaSize)]>> \o f[q]
  IN f[0]
IsMark(x) == x.tag = MetaEof
\* Items before the position; -1: the tape is bad, -2: the position is inside one.
Place(t) ==
  LET x == Items(t)
      start[i \in 0 .. Len(x)] ==
        IF i = 0 THEN 0
        ELSE start[i - 1] + (IF IsMark(x[i]) THEN MetaSize
                             ELSE 2 * MetaSize + BytePadding(t, Len(x[i].data)))
  IN IF t.bad THEN -1
     ELSE IF \E i \in 0 .. Len(x) : start[i] = t.pos
     THEN CHOOSE i \in 0 .. Len(x) : start[i] = t.pos ELSE -2
=============================================================================
