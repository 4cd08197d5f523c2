------------------------------ MODULE Rw11Stream ------------------------------
(***************************************************************************)
(* The stream devices: the line printer LP11, and the paper tape PC11 with *)
(* its punch and its reader.  Registers and fifos are those of the         *)
(* buffered interfaces ibdr_lp11_buf and ibdr_pc11_buf, the handlers those *)
(* of Rw11CntlLP11 and Rw11CntlPC11, with files attached to their units    *)
(* (Rw11UnitStream, Rw11VirtStream).  Reader and punch share an attention  *)
(* and its handler.  "Output" is the punch or the printer.                 *)
(***************************************************************************)
EXTENDS Integers, SequencesExt

CONSTANTS Fsize,        \* fifo size: 2^AWIDTH - 1
          MinRblk,      \* 4: smallest block read
          Qlims,        \* values of fPrQlim
          TapeLens,     \* lengths of the tapes that can be attached
          MaxOut,       \* bound: characters the CPU outputs
          MaxDisturb    \* bound: client calls, bus resets and file errors

ASSUME StreamAssumption ==
  /\ Fsize \in Nat /\ MinRblk \in 1 .. Fsize /\ Qlims \subseteq 1 .. Fsize
  /\ TapeLens \subseteq Nat /\ {MaxOut, MaxDisturb} \subseteq Nat

VARIABLES
  kind,               \* "lp" or "pc"
  pbuf, rbuf, lam,    \* FPGA: fifos and attention
  reg,                \* FPGA: perr, prdy, rerr, rbusy, rdone
  pp,                 \* output unit: file attached, file in error state
  pr,                 \* reader unit: attached, error, eof, tape length, position
  fPrDrain, fPrQlim,
  rblkSize, primSize, \* block sizes of the queued read and of the primary list
  queBusy,            \* RcvHandler() or PpRcvHandler() is queued
  pc, prim, blk,      \* handler at work, its kind, the block under way
  snap,               \* rbusy and fifo usage as AttnHandler() last read them
  sent, out,          \* characters the CPU gave, and what WriteChar() did with each
  got,                \* characters of the attached tape that the CPU read
  failed,             \* output was lost or interrupted
  nout, ndist

fpga == <<kind, pbuf, rbuf, lam, reg>>
units == <<pp, pr, fPrDrain, fPrQlim>>
reads == <<rblkSize, primSize, queBusy>>
job == <<pc, prim, blk, snap>>
ends == <<sent, out, got, failed>>
vars == <<fpga, units, reads, job, ends, nout, ndist>>

NUL == 0
NoTape == [att |-> FALSE, err |-> FALSE, eof |-> FALSE, len |-> 0, pos |-> 0]
NoSnap == [rbusy |-> FALSE, rfuse |-> 0]

\* Start() with no tape in the reader; the output file may be missing.
Init ==
  /\ kind \in {"lp", "pc"} /\ pbuf = <<>> /\ rbuf = <<>> /\ lam = FALSE
  /\ pp \in [att : BOOLEAN, err : {FALSE}] /\ pr = NoTape
  /\ reg = [perr |-> ~pp.att, prdy |-> TRUE, rerr |-> TRUE, rbusy |-> FALSE, rdone |-> FALSE]
  /\ fPrDrain = "idle" /\ fPrQlim \in Qlims
  /\ rblkSize = MinRblk /\ primSize = MinRblk /\ queBusy = FALSE
  /\ pc = "idle" /\ prim = FALSE /\ blk = <<>> /\ snap = NoSnap
  /\ sent = <<>> /\ out = <<>> /\ got = <<>>
  /\ failed = FALSE /\ nout = 0 /\ ndist = 0

Disturb == ndist < MaxDisturb /\ ndist' = ndist + 1

-----------------------------------------------------------------------------
(* The FPGA and the CPU.                                                    *)

ReadyEarly ==
  /\ ~reg.prdy /\ reg' = [reg EXCEPT !.prdy = TRUE]
  /\ UNCHANGED <<kind, pbuf, rbuf, lam, units, reads, job, ends, nout, ndist>>
Ready ==
  /\ ~reg.prdy /\ Len(pbuf) < Fsize /\ reg' = [reg EXCEPT !.prdy = TRUE]
  /\ UNCHANGED <<kind, pbuf, rbuf, lam, units, reads, job, ends, nout, ndist>>

\* A write to the data buffer; offline the character is discarded, and so it is
\* with a full fifo.  A NUL is a character like any other to the punch.
CpuOut(c) ==
  /\ reg.prdy /\ nout < MaxOut /\ nout' = nout + 1
  /\ \/ /\ reg.perr /\ reg' = [reg EXCEPT !.prdy = (kind = "pc")]
        /\ UNCHANGED <<pbuf, lam, sent>>
     \/ /\ ~reg.perr /\ reg' = [reg EXCEPT !.prdy = FALSE]
        /\ sent' = Append(sent, c)
        /\ pbuf' = IF Len(pbuf) < Fsize THEN Append(pbuf, c) ELSE pbuf
        /\ lam' = (lam \/ pbuf = <<>>)
  /\ UNCHANGED <<kind, rbuf, units, reads, job, out, got, failed, ndist>>

\* RENB: the CPU asks for a character; no lam, also with an empty fifo.
CpuEnable ==
  /\ kind = "pc" /\ ~reg.rerr /\ reg' = [reg EXCEPT !.rbusy = TRUE, !.rdone = FALSE]
  /\ UNCHANGED <<kind, pbuf, rbuf, lam, units, reads, job, ends, nout, ndist>>
\* The request is met from the fifo.
ReaderDone ==
  /\ reg.rbusy /\ rbuf # <<>> /\ reg' = [reg EXCEPT !.rbusy = FALSE, !.rdone = TRUE]
  /\ UNCHANGED <<kind, pbuf, rbuf, lam, units, reads, job, ends, nout, ndist>>
LastValueAfter == rbuf = <<>>
LastValue == Len(rbuf) = 1
\* A read of RBUF; the last value raises lam.  A fifo that was reset meanwhile
\* has nothing to take out.
CpuRead ==
  /\ reg.rdone /\ reg' = [reg EXCEPT !.rdone = FALSE]
  /\ \/ /\ rbuf # <<>> /\ rbuf' = Tail(rbuf) /\ got' = Append(got, Head(rbuf))
        /\ lam' = (lam \/ LastValue)
     \/ /\ rbuf = <<>> /\ UNCHANGED <<rbuf, got, lam>>
  /\ UNCHANGED <<kind, pbuf, units, reads, job, sent, out, failed, nout, ndist>>

\* The bus reset keeps the fifos and the error flags; it makes the output ready
\* even when its fifo is full.
Breset ==
  /\ Disturb /\ reg' = [reg EXCEPT !.prdy = TRUE, !.rbusy = FALSE, !.rdone = FALSE]
  /\ failed' = (failed \/ Len(pbuf) = Fsize)
  /\ UNCHANGED <<kind, pbuf, rbuf, lam, units, reads, job, sent, out, got, nout>>

-----------------------------------------------------------------------------
(* UnitSetup(): the error flag of a unit, which holds its fifo in reset.    *)

SetPerr(u) ==
  LET perr == ~(u.att /\ ~u.err)
  IN /\ reg' = [reg EXCEPT !.perr = perr, !.prdy = @ \/ perr]
     /\ pbuf' = IF perr THEN <<>> ELSE pbuf

ReaderOnline(u, drain) == u.att /\ ~((u.eof \/ u.err) /\ drain # "pend")
SetRerr(u, drain) ==
  /\ reg' = [reg EXCEPT !.rerr = ~ReaderOnline(u, drain)]
  /\ rbuf' = IF ReaderOnline(u, drain) THEN rbuf ELSE <<>>

-----------------------------------------------------------------------------
(* The handlers: output.                                                    *)

AttnRead ==
  /\ pc = "idle" /\ lam /\ lam' = FALSE /\ pc' = "rblk" /\ prim' = TRUE
  /\ UNCHANGED <<kind, pbuf, rbuf, reg, units, reads, blk, snap, ends, nout, ndist>>

RcvHandler ==
  /\ pc = "idle" /\ queBusy /\ queBusy' = FALSE /\ pc' = "rblk" /\ prim' = FALSE
  /\ UNCHANGED <<fpga, units, rblkSize, primSize, blk, snap, ends, nout, ndist>>

RblkSize == IF prim THEN primSize ELSE rblkSize
RblkNext ==
  /\ pc = "rblk" /\ pbuf # <<>> /\ Len(blk) < RblkSize
  /\ blk' = Append(blk, [c |-> Head(pbuf), fuse |-> Len(pbuf)]) /\ pbuf' = Tail(pbuf)
  /\ UNCHANGED <<kind, rbuf, lam, reg, units, reads, pc, prim, snap, ends, nout, ndist>>
\* The end of the block; the primary list of the PC11 goes on to RBUF.
RblkEnd ==
  /\ pc = "rblk" /\ (pbuf = <<>> \/ Len(blk) = RblkSize) /\ pc' = "out"
  /\ UNCHANGED <<fpga, units, reads, prim, blk, snap, ends, nout, ndist>>

LastSeen == \E i \in DOMAIN blk : blk[i].fuse = 1
NextRblkSize == Max({MinRblk, Len(blk)} \cup {blk[i].fuse : i \in DOMAIN blk})
Chars(b) == [i \in DOMAIN b |-> b[i].c]
\* The printer's WriteChar() only counts a NUL.
Swallowed(c) == kind = "lp" /\ c = NUL

\* WriteChar() for every character of the block, written or not; one that cannot
\* be written sets the unit offline, the rest of the block is still tried.
WriteChars(written) ==
  LET fails == {i \in DOMAIN blk : ~written[i] /\ ~Swallowed(blk[i].c)}
  IN /\ \A i \in DOMAIN blk : written[i] => pp.att /\ ~Swallowed(blk[i].c)
     /\ out' = out \o [i \in DOMAIN blk |-> [c |-> blk[i].c, written |-> written[i]]]
     /\ IF fails # {} /\ pp.att /\ ~pp.err THEN Disturb ELSE UNCHANGED ndist
     /\ IF fails = {} THEN UNCHANGED <<pp, pbuf, reg, failed>>
        ELSE /\ pp' = [pp EXCEPT !.err = pp.att] /\ SetPerr(pp') /\ failed' = TRUE

\* PpProcessBuf() and ProcessBuf(): the next block size follows the fifo usage,
\* and another read is queued unless the fifo's last entry was seen.
Requeue == queBusy \/ (blk # <<>> /\ ~LastSeen)
ProcessBuf ==
  /\ pc = "out" /\ blk' = <<>>
  /\ \E written \in [DOMAIN blk -> BOOLEAN] : WriteChars(written)
  /\ queBusy' = Requeue
  /\ IF kind = "pc" /\ blk = <<>> THEN UNCHANGED <<rblkSize, primSize>>
     ELSE rblkSize' = NextRblkSize /\ primSize' = IF prim THEN NextRblkSize ELSE primSize
  /\ snap' = IF prim THEN [rbusy |-> reg.rbusy, rfuse |-> Len(rbuf)] ELSE snap
  /\ pc' = IF prim /\ kind = "pc" THEN "read" ELSE "idle"
  /\ UNCHANGED <<kind, rbuf, lam, pr, fPrDrain, fPrQlim, prim, sent, got, nout>>

-----------------------------------------------------------------------------
(* The handlers: PrProcessBuf().                                            *)

\* No data requested, the tape is at its end, or no space in the fifo.
PrQuit ==
  /\ pc = "read" /\ pc' = "idle"
  /\ \/ ~snap.rbusy
     \/ fPrDrain = "pend" /\ snap.rfuse # 0
     \/ fPrDrain = "done"
     \/ fPrDrain = "idle" /\ snap.rfuse >= fPrQlim
  /\ UNCHANGED <<fpga, units, reads, prim, blk, snap, ends, nout, ndist>>

\* The fifo is drained after the end of the tape: the reader goes offline.
PrDrained ==
  /\ pc = "read" /\ pc' = "idle" /\ snap.rbusy /\ fPrDrain = "pend" /\ snap.rfuse = 0
  /\ fPrDrain' = "done" /\ SetRerr(pr, "done")
  /\ UNCHANGED <<kind, pbuf, lam, pp, pr, fPrQlim, reads, prim, blk, snap, ends, nout, ndist>>

NmaxFull == fPrQlim
Nmax == fPrQlim - snap.rfuse
\* Characters are read until the fifo is full, the file ends or a read fails.
PrFill ==
  /\ pc = "read" /\ snap.rbusy /\ fPrDrain = "idle" /\ snap.rfuse < fPrQlim
  /\ \E n \in 0 .. Nmax :
       LET stop == n < Nmax         \* VirtRead() gave 0 or -1
           eof == stop /\ pr.att /\ pr.pos + n = pr.len
           err == stop /\ pr.att /\ pr.pos + n < pr.len
           drain == IF ~stop THEN "idle"
                    ELSE IF n = 0 /\ snap.rfuse = 0 THEN "done" ELSE "pend"
       IN /\ pr.pos + n <= pr.len
          /\ IF err THEN Disturb ELSE UNCHANGED ndist
          /\ pr' = [pr EXCEPT !.pos = @ + n, !.eof = @ \/ eof, !.err = @ \/ err]
          /\ blk' = [i \in 1 .. n |-> pr.pos + i]
          /\ fPrDrain' = drain
          /\ IF drain = "done" THEN SetRerr(pr', drain) ELSE UNCHANGED <<reg, rbuf>>
          /\ pc' = IF n = 0 THEN "idle" ELSE "wblk"
  /\ UNCHANGED <<kind, pbuf, lam, pp, fPrQlim, reads, prim, snap, ends, nout>>

\* The block write; a full fifo would refuse it.
WblkNext ==
  /\ pc = "wblk" /\ Len(rbuf) < Fsize
  /\ rbuf' = Append(rbuf, Head(blk)) /\ blk' = Tail(blk)
  /\ pc' = IF Len(blk) = 1 THEN "idle" ELSE pc
  /\ UNCHANGED <<kind, pbuf, lam, reg, units, reads, prim, snap, ends, nout, ndist>>

-----------------------------------------------------------------------------
(* Clients: under the lock.                                                 *)

\* Attach() of a tape detaches the old one and fills the fifo in advance.
AttachReader(n) ==
  /\ kind = "pc" /\ pc = "idle" /\ Disturb
  /\ pr' = [NoTape EXCEPT !.att = TRUE, !.len = n] /\ got' = <<>>
  /\ rbuf' = <<>> /\ reg' = [reg EXCEPT !.rerr = FALSE]
  /\ fPrDrain' = "idle" /\ snap' = [rbusy |-> TRUE, rfuse |-> 0] /\ pc' = "read"
  /\ UNCHANGED <<kind, pbuf, lam, pp, fPrQlim, reads, prim, blk, sent, out, failed, nout>>
DetachReader ==
  /\ kind = "pc" /\ pc = "idle" /\ pr.att /\ Disturb
  /\ pr' = NoTape /\ SetRerr(pr', fPrDrain) /\ got' = <<>>
  /\ UNCHANGED <<kind, pbuf, lam, pp, fPrDrain, fPrQlim, reads, job, sent, out, failed, nout>>
\* Attach() and Detach() of the output file; an old file is detached first.
ChangeOutput(att) ==
  /\ pc = "idle" /\ (att \/ pp.att) /\ Disturb
  /\ pp' = [att |-> att, err |-> FALSE]
  /\ reg' = [reg EXCEPT !.perr = ~att, !.prdy = @ \/ pp.att] /\ pbuf' = <<>>
  /\ failed' = TRUE
  /\ UNCHANGED <<kind, rbuf, lam, pr, fPrDrain, fPrQlim, reads, job, sent, out, got, nout>>

-----------------------------------------------------------------------------
Cpu == Ready \/ ReaderDone \/ CpuEnable \/ CpuRead \/ Breset
       \/ \E c \in {NUL, nout + 1} : CpuOut(c)
Host == \/ AttnRead \/ RcvHandler \/ RblkNext \/ RblkEnd \/ ProcessBuf
        \/ PrQuit \/ PrDrained \/ PrFill \/ WblkNext
Client == \/ \E n \in TapeLens : AttachReader(n)
          \/ DetachReader \/ \E att \in BOOLEAN : ChangeOutput(att)
Next == Cpu \/ Host \/ Client
Spec == Init /\ [][Next]_vars

-----------------------------------------------------------------------------
(* Correctness.                                                             *)

\* Registers, fifos and handler state are of their types; block sizes stay
\* between their minimum and the fifo size, and the fifos within theirs.
TypeOK ==
  /\ kind \in {"lp", "pc"} /\ lam \in BOOLEAN
  /\ pbuf \in Seq(Nat) /\ Len(pbuf) <= Fsize /\ rbuf \in Seq(Nat) /\ Len(rbuf) <= Fsize
  /\ reg \in [perr : BOOLEAN, prdy : BOOLEAN, rerr : BOOLEAN, rbusy : BOOLEAN, rdone : BOOLEAN]
  /\ pp \in [att : BOOLEAN, err : BOOLEAN]
  /\ pr \in [att : BOOLEAN, err : BOOLEAN, eof : BOOLEAN, len : Nat, pos : Nat]
  /\ fPrDrain \in {"idle", "pend", "done"} /\ fPrQlim \in Qlims
  /\ {rblkSize, primSize} \subseteq MinRblk .. Fsize
  /\ queBusy \in BOOLEAN /\ pc \in {"idle", "rblk", "out", "read", "wblk"}
  /\ prim \in BOOLEAN /\ Len(blk) <= Fsize /\ snap \in [rbusy : BOOLEAN, rfuse : 0 .. Fsize]
  /\ failed \in BOOLEAN

\* What the CPU gave to the output was handed to WriteChar(), is in the block read
\* by the handler or in the fifo, in order and once, and WriteChar() wrote it
\* unless it is a NUL for the printer: the blocks of the attention handler and of
\* the queued read, which share the fifo, lose and swap nothing (until a file fails
\* or is changed).
Taken == IF pc \in {"rblk", "out"} THEN Chars(blk) ELSE <<>>
OutputExact ==
  ~failed => /\ Chars(out) \o Taken \o pbuf = sent
             /\ \A i \in DOMAIN out : out[i].written = ~Swallowed(out[i].c)

\* A character in the output fifo has a read coming: an attention, a queued
\* read, a block read under way, or a block whose end does not show an emptied
\* fifo.  The attention of the first character may be consumed by a block read
\* that did not see it.
OutputNotStranded ==
  pbuf # <<>> => \/ lam \/ queBusy \/ pc = "rblk"
                 \/ pc = "out" /\ blk # <<>> /\ ~LastSeen

\* The CPU gets the tape's characters in order, none lost or doubled, with those
\* in the fifo and in the handler's block following; and a reader that goes
\* offline with its tape mounted gave out all that was read from it.
ReaderExact ==
  LET rest == IF pc = "wblk" THEN blk ELSE <<>>
  IN pr.att => /\ got \o rbuf \o rest = [i \in 1 .. pr.pos |-> i]
               /\ reg.rerr => got = [i \in 1 .. pr.pos |-> i] /\ (pr.err \/ pr.pos = pr.len)

\* Every block written to the reader's fifo fits, although the usage it was
\* computed from was read before the punch's characters were processed.
ReaderNoOverrun == pc = "wblk" => Len(rbuf) + Len(blk) <= fPrQlim

\* A CPU that waits for a character of a reader that is online is served: the
\* fifo has one, the handler is on its way, or an attention is pending.  One case
\* is excepted, in which the code lets the CPU wait, at any place of the tape: the
\* handler came for the emptied fifo and read RBUF before the CPU's RENB, so it
\* quit without filling the fifo, and RENB raises no lam.  Only the next attention,
\* of the punch, or a new tape helps then; the exception ends there.
ReaderWaits == reg.rbusy /\ ~reg.rerr /\ rbuf = <<>>
AskedTooLate == ~snap.rbusy /\ snap.rfuse = 0
ReaderNotStranded == ReaderWaits => lam \/ pc # "idle" \/ AskedTooLate

\* No character of printer, punch or reader is lost, doubled or out of order.
StreamExact == OutputExact /\ ReaderExact

\* No character waits for ever in the output fifo, and no CPU at the reader except
\* one that asked after the handler had looked.
NotStranded == OutputNotStranded /\ ReaderNotStranded

\* Sizes are within their limits and a block for the reader always fits.
StreamInv == TypeOK /\ ReaderNoOverrun
=============================================================================
