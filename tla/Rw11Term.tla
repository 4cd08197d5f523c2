-------------------------------- MODULE Rw11Term --------------------------------
(***************************************************************************)
(* The terminal interfaces DL11 (one line) and DZ11 (several lines that    *)
(* share two fifos): the fifos and registers in the FPGA (ibdr_dl11_buf,   *)
(* ibdr_dz11), the CPU that uses them, and the handlers Rw11CntlDL11 and   *)
(* Rw11CntlDZ11 with the receive queues of their units (Rw11UnitTerm).     *)
(* The handlers hold the connection lock from their first command to their *)
(* last, so only the CPU and the FPGA act between two of their commands.   *)
(* A DZ11 reports its line state to the handler in CAL words, which travel *)
(* through the transmit fifo: BRK, RXON and CSR.  DTR, which the handler   *)
(* only displays, is not modelled; all lines are enabled for transmission. *)
(***************************************************************************)
EXTENDS Integers, FiniteSetsExt, SequencesExt

CONSTANTS NLine,        \* lines of the DZ11
          Fsize,        \* fFsize: 2^AWIDTH - 1
          MinRblk,      \* 4: smallest block read
          Qlims,        \* values of fRxQlim
          MaxTx, MaxRx, \* bounds, per kind: characters sent and received
          MaxCtl,       \* bound: writes to CSR, LPR and BRK, characters
                        \* sent in break, changes of fRxQlim, resets
          MaxBreset     \* bound: bus resets among them

ASSUME TermAssumption ==
  /\ {NLine, Fsize, MinRblk} \subseteq Nat \ {0} /\ MinRblk <= Fsize /\ Qlims \subseteq 1 .. Fsize
  /\ {MaxTx, MaxRx} \subseteq [{"dl", "dz"} -> Nat] /\ {MaxCtl, MaxBreset} \subseteq Nat

VARIABLES
  kind,               \* "dl" or "dz"
  tbuf, rbuf, lam,    \* FPGA: fifos and attention
  reg,                \* FPGA: mse, maint, rxon, brk, line that is ready, queued CALs
  fRcvQueue,          \* per line: received, not yet passed on
  fRxQlim, fRxCurUnit,
  fTxRblkSize, primSize,   \* block sizes of TxRcvHandler and of the primary list
  fTxQueBusy,         \* TxRcvHandler is queued
  fLastFuse,          \* receive fifo usage the handler saw last
  fCur,               \* mse, maint and rxon as the handler believes them
  pc, prim, blk,      \* handler at work, its kind, the block under way
  fuses,              \* transmit fifo usages that came with the block
  txn, rxn,           \* characters accepted from the CPU and from the terminal
  out, got,           \* characters that reached the terminal and the CPU
  aux,                \* dropped: a received character was; looped: maint put
                      \* characters into rbuf; nak: a write was refused; clean: no
                      \* reset, no LPR write over a queued CLR; mute: see RxNotStranded
  nctl, nbreset

fpga == <<kind, tbuf, rbuf, lam, reg>>
rx == <<fRcvQueue, fRxQlim, fRxCurUnit, fLastFuse>>
tx == <<fTxRblkSize, primSize, fTxQueBusy, fCur>>
job == <<pc, prim, blk, fuses>>
host == <<rx, tx, job>>
ends == <<txn, rxn, out, got, aux>>
bounds == <<nctl, nbreset>>
vars == <<fpga, host, ends, bounds>>

Line == 0 .. NLine - 1
NoLine == -1
Lines == IF kind = "dl" THEN {0} ELSE Line
Full(f) == Len(f) >= Fsize
Chr(l, v) == [t |-> "chr", line |-> l, v |-> v]
Loop == 0                                 \* a character looped back by maint

Running == [mse |-> TRUE, maint |-> FALSE, rxon |-> Line]
Cleared == [mse |-> FALSE, maint |-> FALSE, rxon |-> {}]
Device(c, rdy, q) ==
  [mse |-> c.mse, maint |-> c.maint, rxon |-> c.rxon, brk |-> {}, rdy |-> rdy, q |-> q]

\* A DL11, a DZ11 after power up, and one that the CPU has set up.
Init ==
  /\ kind \in {"dl", "dz"}
  /\ fCur \in IF kind = "dl" THEN {Running} ELSE {Running, Cleared}
  /\ reg = Device(fCur, IF kind = "dl" THEN 0 ELSE NoLine, {})
  /\ tbuf = <<>> /\ rbuf = <<>> /\ lam = FALSE
  /\ fRcvQueue = [l \in Line |-> <<>>] /\ fRxQlim = Fsize /\ fRxCurUnit = 0
  /\ fTxRblkSize = MinRblk /\ primSize = MinRblk /\ fTxQueBusy = FALSE /\ fLastFuse = 0
  /\ pc = "idle" /\ prim = FALSE /\ blk = <<>> /\ fuses = {}
  /\ txn = [l \in Line |-> 0] /\ rxn = txn
  /\ out = [l \in Line |-> <<>>] /\ got = out
  /\ aux = [dropped |-> FALSE, looped |-> FALSE, nak |-> FALSE, clean |-> TRUE,
            mute |-> FALSE]
  /\ nctl = 0 /\ nbreset = 0

-----------------------------------------------------------------------------
(* The FPGA.                                                                *)

\* A write to the transmit fifo; the first one into an empty fifo raises lam.
TbufWrite(e) == tbuf' = Append(tbuf, e) /\ lam' = (lam \/ tbuf = <<>>)

\* Any cycle between two accesses to the device puts a queued CAL word into the
\* fifo, so that it waits only for a fifo that is full.
Settled == reg.q = {} \/ Full(tbuf)

\* The scanner: a line becomes ready for a character.
Scan ==
  /\ Settled /\ reg.rdy = NoLine /\ reg.mse /\ reg.q \cap {"brk", "rxon", "csr"} = {}
  /\ ~Full(IF reg.maint THEN rbuf ELSE tbuf)
  /\ \E l \in Lines : reg' = [reg EXCEPT !.rdy = l]
  /\ UNCHANGED <<kind, tbuf, rbuf, lam, host, ends, bounds>>

\* A queued CAL word enters the fifo, BRK before RXON before CSR.
CalPut ==
  /\ reg.q # {} /\ ~Full(tbuf)
  /\ \/ /\ "brk" \in reg.q /\ TbufWrite([t |-> "brk"])
        /\ reg' = [reg EXCEPT !.q = @ \ {"brk"}]
     \/ /\ "brk" \notin reg.q /\ "rxon" \in reg.q
        /\ TbufWrite([t |-> "rxon", rxon |-> reg.rxon])
        /\ reg' = [reg EXCEPT !.q = @ \ {"rxon"}]
     \/ /\ reg.q \cap {"brk", "rxon"} = {}
        /\ TbufWrite([t |-> "csr", mse |-> reg.mse, maint |-> reg.maint,
                      clr |-> "clr" \in reg.q])
        /\ reg' = [reg EXCEPT !.q = {}]
  /\ UNCHANGED <<kind, rbuf, host, ends, bounds>>

-----------------------------------------------------------------------------
(* The CPU.                                                                 *)

MoreTx == FoldFunction(+, 0, txn) < MaxTx[kind]

\* A character for the line that is ready; one of a line in break is marked.  In
\* maintenance mode it is received.
CpuTx ==
  /\ Settled /\ reg.rdy # NoLine /\ MoreTx
  /\ reg' = [reg EXCEPT !.rdy = NoLine]
  /\ \/ /\ ~reg.maint /\ ~Full(tbuf) /\ reg.rdy \in reg.brk
        /\ TbufWrite([t |-> "ferr", line |-> reg.rdy]) /\ nctl < MaxCtl /\ nctl' = nctl + 1
        /\ UNCHANGED <<rbuf, txn, aux>>
     \/ /\ ~reg.maint /\ ~Full(tbuf) /\ reg.rdy \notin reg.brk
        /\ txn' = [txn EXCEPT ![reg.rdy] = @ + 1]
        /\ TbufWrite(Chr(reg.rdy, txn'[reg.rdy])) /\ UNCHANGED <<rbuf, aux, nctl>>
     \/ /\ ~reg.maint /\ Full(tbuf) /\ UNCHANGED <<tbuf, rbuf, lam, txn, aux, nctl>>
     \/ /\ reg.maint /\ ~Full(rbuf) /\ reg.rdy \in reg.rxon
        /\ rbuf' = Append(rbuf, Chr(reg.rdy, Loop)) /\ aux' = [aux EXCEPT !.looped = TRUE, !.mute = FALSE]
        /\ UNCHANGED <<tbuf, lam, txn, nctl>>
     \/ /\ reg.maint /\ (Full(rbuf) \/ reg.rdy \notin reg.rxon)
        /\ UNCHANGED <<tbuf, rbuf, lam, txn, aux, nctl>>
  /\ UNCHANGED <<kind, host, rxn, out, got, nbreset>>

\* A read of RBUF; the last value raises lam, except in maintenance mode.
CpuRx ==
  /\ Settled /\ rbuf # <<>> /\ rbuf' = Tail(rbuf)
  /\ lam' = (lam \/ (Len(rbuf) = 1 /\ ~reg.maint))
  /\ got' = IF Head(rbuf).v = Loop THEN got
            ELSE [got EXCEPT ![Head(rbuf).line] = Append(@, Head(rbuf).v)]
  /\ aux' = [aux EXCEPT !.mute = Len(rbuf) = 1 /\ reg.maint]
  /\ UNCHANGED <<kind, tbuf, reg, host, txn, rxn, out, bounds>>

\* A write to CSR.  CLR resets the registers one cycle later.
CpuCsr(mse, maint, clr) ==
  /\ Settled /\ kind = "dz" /\ nctl < MaxCtl /\ nctl' = nctl + 1
  /\ reg' = IF clr
            THEN Device(Cleared, NoLine, {"clr"})
            ELSE [reg EXCEPT !.mse = mse, !.maint = maint,
                             !.rdy = IF mse THEN @ ELSE NoLine,
                             !.q = IF <<mse, maint>> = <<reg.mse, reg.maint>> THEN @
                                   ELSE @ \cup {"csr"}]
  /\ UNCHANGED <<kind, tbuf, rbuf, lam, host, ends, nbreset>>

\* A write to LPR that changes the receiver enable of a line.
CpuLpr(l) ==
  /\ Settled /\ kind = "dz" /\ nctl < MaxCtl /\ nctl' = nctl + 1
  /\ reg' = [reg EXCEPT !.rxon = SymDiff(@, {l}), !.q = @ \cup {"rxon"}]
  /\ aux' = [aux EXCEPT !.clean = @ /\ "clr" \notin reg.q]
  /\ UNCHANGED <<kind, tbuf, rbuf, lam, host, txn, rxn, out, got, nbreset>>

\* A write to BRK that changes the lines in break.
CpuBrk(b) ==
  /\ Settled /\ kind = "dz" /\ b # reg.brk /\ nctl < MaxCtl /\ nctl' = nctl + 1
  /\ reg' = [reg EXCEPT !.brk = b, !.q = @ \cup {"brk"}]
  /\ UNCHANGED <<kind, tbuf, rbuf, lam, host, ends, nbreset>>

\* The bus reset: the fifos and a queued CLR are kept.  The DL11 is ready at
\* once, the DZ11 is switched off and the handler is not told.
Breset ==
  /\ Settled /\ nbreset < MaxBreset /\ nbreset' = nbreset + 1 /\ nctl < MaxCtl /\ nctl' = nctl + 1
  /\ reg' = IF kind = "dl" THEN [reg EXCEPT !.rdy = 0]
            ELSE Device(Cleared, NoLine, reg.q \cap {"clr"})
  /\ aux' = [aux EXCEPT !.clean = FALSE]
  /\ UNCHANGED <<kind, tbuf, rbuf, lam, host, txn, rxn, out, got>>

-----------------------------------------------------------------------------
(* The handlers: transmit side.                                             *)

\* AttnHandler(): reading the attention clears it.
AttnRead ==
  /\ Settled /\ pc = "idle" /\ lam
  /\ lam' = FALSE /\ pc' = "rblk" /\ prim' = TRUE
  /\ UNCHANGED <<kind, tbuf, rbuf, reg, rx, tx, blk, fuses, ends, bounds>>

TxRcvHandler ==
  /\ pc = "idle" /\ fTxQueBusy
  /\ fTxQueBusy' = FALSE /\ pc' = "rblk" /\ prim' = FALSE
  /\ UNCHANGED <<fpga, rx, fTxRblkSize, primSize, fCur, blk, fuses, ends, bounds>>

\* The block read: an entry comes with the usage of the fifo, an empty fifo
\* ends the block.
RblkSize == IF prim THEN primSize ELSE fTxRblkSize
RblkNext ==
  /\ Settled /\ pc = "rblk" /\ tbuf # <<>> /\ Len(blk) < RblkSize
  /\ blk' = Append(blk, Head(tbuf)) /\ fuses' = fuses \cup {Len(tbuf)} /\ tbuf' = Tail(tbuf)
  /\ UNCHANGED <<kind, rbuf, lam, reg, rx, tx, pc, prim, ends, bounds>>
RblkEnd ==
  /\ Settled /\ pc = "rblk" /\ (tbuf = <<>> \/ Len(blk) = RblkSize)
  /\ pc' = "fuse"
  /\ UNCHANGED <<fpga, rx, tx, prim, blk, fuses, ends, bounds>>

\* What a CAL word makes of the handler's view of the lines.
ProcessCal(c, e) ==
  CASE e.t = "rxon" -> [c EXCEPT !.rxon = e.rxon]
    [] e.t = "csr" -> [mse |-> e.mse, maint |-> e.maint,
                       rxon |-> IF e.clr THEN {} ELSE c.rxon]
    [] OTHER -> c
\* The view after all entries of a block.
CalView(c, s) ==
  LET view[i \in 0 .. Len(s)] == IF i = 0 THEN c ELSE ProcessCal(view[i - 1], s[i])
  IN view[Len(s)]

MaxOf(a, b) == IF a > b THEN a ELSE b
MinOf(a, b) == IF a < b THEN a ELSE b
LastSeen == 1 \in fuses

NextRblkSize ==
  MaxOf(MinRblk,
        IF kind = "dl" THEN Max({Len(blk)} \cup fuses)
        ELSE MinOf(Len(blk) + Len(tbuf), Fsize))

\* The characters of line l in a fifo or block, without those looped back.  CAL
\* words and characters sent in break are none.
ChrsOf(s, l) ==
  LET chrs[i \in 0 .. Len(s)] ==
        IF i = 0 THEN <<>>
        ELSE IF s[i].t = "chr" /\ s[i].line = l /\ s[i].v # Loop
             THEN Append(chrs[i - 1], s[i].v) ELSE chrs[i - 1]
  IN chrs[Len(s)]

SndButLast(l) == out[l] \o ChrsOf(SubSeq(blk, 1, Len(blk) - 1), l)
\* The terminal of line l gets its characters of the block.
Snd(l) == out[l] \o ChrsOf(blk, l)

\* TxProcess(): characters go out, those sent in break are ignored, CAL words are
\* noted, and another read is queued unless the block has seen the fifo's last entry.
TxProcess ==
  IF blk = <<>> THEN UNCHANGED <<tx, out>>
  ELSE /\ out' = [l \in Line |-> Snd(l)]
       /\ fCur' = CalView(fCur, blk)
       /\ fTxRblkSize' = NextRblkSize
       /\ primSize' = IF prim THEN NextRblkSize ELSE primSize
       /\ fTxQueBusy' = (fTxQueBusy \/ ~LastSeen)

FuseReadTxOnly ==
  /\ Settled /\ pc = "fuse" /\ fLastFuse' = Len(rbuf) /\ TxProcess /\ blk' = <<>> /\ fuses' = {}
  /\ pc' = IF prim /\ blk = <<>> THEN "rx" ELSE "idle"
  /\ aux' = [aux EXCEPT !.mute = @ /\ ~prim]
  /\ UNCHANGED <<fpga, fRcvQueue, fRxQlim, fRxCurUnit, prim, txn, rxn, got, bounds>>
\* The read of the fifo usage that ends the list; AttnHandler() goes on with
\* RxProcess(), TxRcvHandler() returns.
FuseRead ==
  /\ Settled /\ pc = "fuse" /\ fLastFuse' = Len(rbuf) /\ TxProcess /\ blk' = <<>> /\ fuses' = {}
  /\ pc' = IF prim THEN "rx" ELSE "idle"
  /\ aux' = [aux EXCEPT !.mute = @ /\ ~prim]
  /\ UNCHANGED <<fpga, fRcvQueue, fRxQlim, fRxCurUnit, prim, txn, rxn, got, bounds>>

-----------------------------------------------------------------------------
(* The handlers: receive side.                                              *)

MoreRx(n) == FoldFunction(+, 0, rxn) + n <= MaxRx[kind]

\* RcvCallback(): only a queue that was empty wakes the controller.
RcvCallback(l, n) ==
  /\ pc = "idle" /\ l \in Lines /\ MoreRx(n)
  /\ rxn' = [rxn EXCEPT ![l] = @ + n]
  /\ fRcvQueue' = [fRcvQueue EXCEPT ![l] = @ \o [i \in 1 .. n |-> rxn[l] + i]]
  /\ pc' = IF fRcvQueue[l] = <<>> THEN "wake" ELSE pc
  /\ UNCHANGED <<fpga, fRxQlim, fRxCurUnit, fLastFuse, tx, prim, blk, fuses, txn, out,
                 got, aux, bounds>>

\* Wakeup(): a usage above half is read again, a smaller one is good enough.
Wakeup ==
  /\ Settled /\ pc = "wake" /\ pc' = "rx"
  /\ fLastFuse' = IF fLastFuse > Fsize \div 2 THEN Len(rbuf) ELSE fLastFuse
  /\ UNCHANGED <<fpga, fRcvQueue, fRxQlim, fRxCurUnit, tx, prim, blk, fuses, ends, bounds>>

Busy(l) == fRcvQueue[l] # <<>>
\* NextBusyRxUnit(): the next line in cyclic order.
NextBusyRxUnit ==
  LET Dist(l) == (l - fRxCurUnit - 1) % NLine
  IN CHOOSE l \in Line : Busy(l) /\ \A m \in Line : Busy(m) => Dist(l) <= Dist(m)

\* RxProcess(): collect a block that fits into the fifo, line by line, and
\* drop what the handler believes the DZ11 would not take.
NmaxIgnoresFuse == fRxQlim
Nmax == fRxQlim - fLastFuse
PopShort(q, n) == SubSeq(q, n, Len(q))
Pop(q, n) == SubSeq(q, n + 1, Len(q))
RxCollect ==
  /\ pc = "rx" /\ fLastFuse < fRxQlim /\ Len(blk) < Nmax /\ \E l \in Line : Busy(l)
  /\ LET l == NextBusyRxUnit
         n == MinOf(Len(fRcvQueue[l]), Nmax - Len(blk))
         keep == fCur.mse /\ ~fCur.maint /\ l \in fCur.rxon
     IN /\ fRxCurUnit' = l
        /\ fRcvQueue' = [fRcvQueue EXCEPT ![l] = Pop(@, n)]
        /\ blk' = IF keep THEN blk \o [i \in 1 .. n |-> Chr(l, fRcvQueue[l][i])] ELSE blk
        /\ aux' = [aux EXCEPT !.dropped = @ \/ ~keep]
  /\ UNCHANGED <<fpga, fRxQlim, fLastFuse, tx, pc, prim, fuses, txn, rxn, out, got, bounds>>
RxCollected ==
  /\ pc = "rx" /\ (fLastFuse >= fRxQlim \/ Len(blk) >= Nmax \/ \A l \in Line : ~Busy(l))
  /\ pc' = IF blk = <<>> THEN "idle" ELSE "wblk"
  /\ UNCHANGED <<fpga, rx, tx, prim, blk, fuses, ends, bounds>>

\* The block write: a full fifo refuses the write and ends the block; a DZ11
\* that is off or whose line is off takes the character and drops it.
WblkNext ==
  /\ Settled /\ pc = "wblk" /\ blk # <<>>
  /\ \/ /\ Full(rbuf) /\ blk' = <<>>
        /\ aux' = [aux EXCEPT !.nak = TRUE, !.dropped = TRUE] /\ UNCHANGED <<rbuf, lam>>
     \/ /\ ~Full(rbuf) /\ reg.mse /\ ~reg.maint /\ Head(blk).line \in reg.rxon
        /\ rbuf' = Append(rbuf, Head(blk)) /\ blk' = Tail(blk) /\ aux' = [aux EXCEPT !.mute = FALSE]
        /\ UNCHANGED lam
     \/ /\ ~Full(rbuf) /\ ~(reg.mse /\ ~reg.maint /\ Head(blk).line \in reg.rxon)
        /\ lam' = (lam \/ (reg.mse /\ ~reg.maint /\ rbuf # <<>>)) /\ blk' = Tail(blk)
        /\ aux' = [aux EXCEPT !.dropped = TRUE, !.mute = @ \/ rbuf = <<>>] /\ UNCHANGED rbuf
  /\ UNCHANGED <<kind, tbuf, reg, rx, tx, pc, prim, fuses, txn, rxn, out, got, bounds>>
WblkEnd ==
  /\ Settled /\ pc = "wblk" /\ blk = <<>> /\ pc' = "idle" /\ fLastFuse' = Len(rbuf)
  /\ UNCHANGED <<fpga, fRcvQueue, fRxQlim, fRxCurUnit, tx, prim, blk, fuses, ends, bounds>>

\* A client sets the receive queue limit, under the lock.
SetRxQlim(q) ==
  /\ pc = "idle" /\ fRxQlim # q /\ fRxQlim' = q /\ nctl < MaxCtl /\ nctl' = nctl + 1
  /\ UNCHANGED <<fpga, fRcvQueue, fRxCurUnit, fLastFuse, tx, job, ends, nbreset>>

-----------------------------------------------------------------------------
Host == \/ AttnRead \/ TxRcvHandler \/ RblkNext \/ RblkEnd \/ FuseRead
        \/ Wakeup \/ RxCollect \/ RxCollected \/ WblkNext \/ WblkEnd
Cpu == \/ CpuTx \/ CpuRx \/ Breset
       \/ \E mse, maint, clr \in BOOLEAN : CpuCsr(mse, maint, clr)
       \/ \E l \in Line : CpuLpr(l)
       \/ \E b \in SUBSET Line : CpuBrk(b)
User == \/ \E l \in Line, n \in 1 .. 2 : RcvCallback(l, n)
        \/ \E q \in Qlims : SetRxQlim(q)
Next == Scan \/ CalPut \/ Cpu \/ Host \/ User

Spec == Init /\ [][Next]_vars

-----------------------------------------------------------------------------
(* Properties.                                                              *)

Entry == [t : {"chr"}, line : Line, v : Nat] \cup [t : {"ferr"}, line : Line]
         \cup [t : {"brk"}] \cup [t : {"rxon"}, rxon : SUBSET Line]
         \cup [t : {"csr"}, mse : BOOLEAN, maint : BOOLEAN, clr : BOOLEAN]

\* The fifos and the handler's blocks stay within the fifo's size: TxProcess()
\* copies a block into buffers of that size.
TypeOK ==
  /\ kind \in {"dl", "dz"} /\ lam \in BOOLEAN /\ prim \in BOOLEAN /\ fTxQueBusy \in BOOLEAN
  /\ tbuf \in Seq(Entry) /\ Len(tbuf) <= Fsize
  /\ rbuf \in Seq(Entry) /\ Len(rbuf) <= Fsize
  /\ reg.rdy \in Lines \cup {NoLine} /\ reg.q \subseteq {"brk", "rxon", "csr", "clr"}
  /\ reg.brk \subseteq Line
  /\ \A c \in {reg, fCur} : c.rxon \subseteq Line /\ c.mse \in BOOLEAN /\ c.maint \in BOOLEAN
  /\ fRcvQueue \in [Line -> Seq(Nat)] /\ fRxQlim \in 1 .. Fsize /\ fRxCurUnit \in Line
  /\ fLastFuse \in 0 .. Fsize
  /\ Len(blk) <= Fsize /\ {fTxRblkSize, primSize} \subseteq MinRblk .. Fsize
  /\ pc \in {"idle", "rblk", "fuse", "wake", "rx", "wblk"}
  /\ (pc \in {"idle", "wake"} => blk = <<>>)

\* Characters a block that is being read, or is being written, holds of line l.
Reading(l) == IF pc \in {"rblk", "fuse"} THEN ChrsOf(blk, l) ELSE <<>>
Writing(l) == IF pc \in {"rx", "wblk"} THEN ChrsOf(blk, l) ELSE <<>>
Count(n) == [i \in 1 .. n |-> i]

\* What the CPU sent on a line that was not in break, and the fifo took, reaches the
\* terminal of its line in order, none lost and none twice, and nothing else does,
\* across attentions, queued reads, CAL words and characters sent in break, which
\* TxProcess() discards.  (A DL11 line is never in break; in maintenance mode the
\* character is not sent.)
TxExact == \A l \in Line : out[l] \o Reading(l) \o ChrsOf(tbuf, l) = Count(txn[l])

\* A transmit fifo that holds something is looked at: an attention is pending, a
\* read is queued or under way, or the block just read did not see its last entry.
TxNotStranded ==
  tbuf # <<>> => lam \/ fTxQueBusy \/ pc = "rblk" \/ (pc = "fuse" /\ ~LastSeen)

\* What a terminal sent reaches the CPU in order; none is lost or doubled unless
\* the DZ11 was, or was believed to be, switched off.
RxExact ==
  \A l \in Line :
    LET all == got[l] \o ChrsOf(rbuf, l) \o Writing(l) \o fRcvQueue[l]
    IN /\ \A i \in 1 .. Len(all) - 1 : all[i] < all[i + 1]
       /\ ~aux.dropped => all = Count(rxn[l])

\* The usage the handler remembers is never below the true one, so the fifo never
\* refuses a character, except when the CPU loops characters back itself.
NoOverrun == aux.nak => aux.looped

\* A receive queue that holds something is looked at: the CPU has something to
\* read, whose end raises an attention, or an attention is pending.  The DZ11 breaks
\* this in two ways, which aux.mute marks until the fifo takes a character or
\* AttnHandler() looks again: a character that it drops on an EMPTY fifo raises no
\* attention (the code tests for a fifo that is not empty, its comment asks for the
\* contrary), and in maintenance mode the read of the last value raises none.
RxNotStranded ==
  (pc = "idle" /\ ~aux.mute) => (\A l \in Line : ~Busy(l)) \/ rbuf # <<>> \/ lam

\* When all CAL words have been processed, the handler's view is the DZ11's.
Told == pc = "idle" /\ tbuf = <<>> /\ reg.q = {}
InView == fCur = [mse |-> reg.mse, maint |-> reg.maint, rxon |-> reg.rxon]
CalCoherent == Told /\ aux.clean => InView

\* Nothing waits in a fifo or queue without an event that gets it moved, the receive
\* queue of a DZ11 that dropped a character, or was read, without a word excepted.
NotStranded == TxNotStranded /\ RxNotStranded

\* The handler's picture of the device is safe to act on: sizes are within their
\* limits, the remembered fifo usage and the CAL state are not too old.
TermInv == TypeOK /\ NoOverrun /\ CalCoherent
=============================================================================
