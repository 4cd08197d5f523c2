----------------------------- MODULE Rw11CntlTM11 -----------------------------
(***************************************************************************)
(* The tape controller TM11: its registers in the FPGA (ibdr_tm11), the    *)
(* handler Rw11CntlTM11 of the server thread with one unit, and the tape   *)
(* attached to it (Rw11VirtTapeTap).  Short functions are answered by      *)
(* AttnHandler(); READ and WRITE queue a memory transfer and are answered  *)
(* when it has ended.  The transfer itself is one step here, see Rw11Disk  *)
(* for its chunks.                                                         *)
(***************************************************************************)
EXTENDS Rw11VirtTapeTap, TLC

CONSTANTS BcMod,        \* 2^16: values of the byte count register
          MemBytes,     \* bytes of memory
          Reqs,         \* functions the CPU starts
          Tapes,        \* tapes that can be attached
          MaxGo,        \* bound: functions started
          MaxDisturb,   \* bound: resets, client calls and failing file writes
          MaxFar        \* bound: argument of SetPosFile() and SetPosRecord()

ASSUME TmAssumption ==
  /\ BcMod \in Nat \ {0} /\ MemBytes \in Nat /\ MemBytes % 2 = 0
  /\ {MaxGo, MaxDisturb, MaxFar} \subseteq Nat

VARIABLES
  rdy, reg,      \* FPGA: ready flag; function, byte count and address
  sr,            \* FPGA: status flags that are set
  lam,           \* attention raised and not yet read
  mem,           \* bytes of memory
  att, t,       \* unit.HasVirt(), and the tape
  pc,            \* server thread: idle, attn, or dead
  fRd,           \* fRd_ request parameters and fBuf
  busy,          \* fRdma.IsActive()
  view,          \* auxiliary: the tape as its user sees it, a function of t
  cur,           \* auxiliary: function under way, tape and memory at its GO
  clean,         \* auxiliary: nothing disturbed the function under way
  ngo, ndist

regs == <<rdy, reg, sr, lam>>
vars == <<regs, mem, att, t, view, pc, fRd, busy, cur, clean, ngo, ndist>>

NoReq == [fu |-> "none", unit |-> TRUE, bc |-> 0, ba |-> 0]
NoRd == NoReq @@ [op |-> "ok", buf |-> <<>>]
Nbyt(r) == BcMod - r.bc           \* a count of zero is the largest one

View(u) == [items |-> Items(u), at |-> Place(u)]
TapeIs(u) == t' = u /\ view' = View(u)

Init ==
  /\ rdy = TRUE /\ reg = NoReq /\ lam = FALSE
  /\ mem = [a \in 0 .. MemBytes - 1 |-> Byte(a)]
  /\ t \in Tapes /\ view = View(t) /\ att = TRUE
  /\ sr = {"onl", "bot"} \cup (IF t.wprot THEN {"wrl"} ELSE {})
  /\ pc = "idle" /\ fRd = NoRd /\ busy = FALSE
  /\ cur = [req |-> NoReq, view |-> view, mem |-> mem, ok |-> FALSE] /\ clean = TRUE
  /\ ngo = 0 /\ ndist = 0

WriteFuncs == {"write", "weirg", "weof"}
Refused(r) == ~r.unit \/ ~att \/ (r.fu \in WriteFuncs /\ t.wprot)

-----------------------------------------------------------------------------
(* The CPU.                                                                 *)

Go(r) ==
  /\ rdy /\ ngo < MaxGo /\ ngo' = ngo + 1
  /\ rdy' = FALSE /\ reg' = r /\ lam' = TRUE /\ sr' = sr \cap {"onl", "wrl"}
  /\ cur' = [req |-> r, view |-> view, mem |-> mem, ok |-> ~Refused(r)]
  /\ clean' = (clean /\ ~busy /\ pc = "idle" /\ ~lam)
  /\ UNCHANGED <<mem, att, t, view, pc, fRd, busy, ndist>>

\* The bus reset and the INIT bit of TMCR: the controller is ready at once.
Reset ==
  /\ ndist < MaxDisturb /\ ndist' = ndist + 1
  /\ rdy' = TRUE /\ reg' = NoReq /\ sr' = sr \cap {"onl", "wrl", "bot"}
  /\ clean' = (clean /\ rdy)
  /\ UNCHANGED <<lam, mem, att, t, view, pc, fRd, busy, cur, ngo>>

-----------------------------------------------------------------------------
(* The handlers.                                                            *)

AttnRegs ==
  /\ pc = "idle" /\ lam /\ lam' = FALSE
  /\ IF rdy \/ busy
     THEN UNCHANGED <<pc, fRd>>                        \* spurious lam
     ELSE pc' = "attn" /\ fRd' = reg @@ [op |-> "ok", buf |-> <<>>]
  /\ UNCHANGED <<rdy, reg, sr, mem, att, t, view, busy, cur, clean, ngo, ndist>>

\* The done function sets these flags and keeps the others.
DoneFlags == {"icmd", "pae", "rle", "bte", "nxm"}

Done(flags) == sr' = (sr \ DoneFlags) \cup flags /\ rdy' = TRUE /\ UNCHANGED lam
UnitFlags(u) ==
  {"onl"} \cup (IF u.wprot THEN {"wrl"} ELSE {}) \cup (IF Bot(u) THEN {"bot"} ELSE {})
  \cup (IF Eot(u) THEN {"eot"} ELSE {})

\* AddFastExit() after an operation with result r.
FastExit(r) ==
  /\ sr' = UnitFlags(r.t) \cup (IF r.op = "eof" THEN {"eof"} ELSE {})
                          \cup (IF r.op \in {"ok", "bot", "eof"} THEN {} ELSE {"bte"})
  /\ reg' = [reg EXCEPT !.bc = IF r.n # 0 THEN (fRd.bc + r.n) % BcMod ELSE @]
  /\ rdy' = TRUE /\ UNCHANGED lam

\* File writes of which the last pieces fail.
Lost == IF ndist < MaxDisturb THEN 0 .. 6 ELSE {0}
Disturbed(lost) ==
  /\ ndist' = ndist + (IF lost # 0 THEN 1 ELSE 0)
  /\ clean' = (clean /\ lost = 0)

AttnHandler ==
  /\ pc = "attn" /\ pc' = "idle"
  /\ \/ /\ Refused(fRd) /\ Done({"icmd"})
        /\ UNCHANGED <<reg, att, t, view, fRd, busy, clean, ndist>>
     \/ /\ ~Refused(fRd) /\ fRd.fu = "unload" /\ att' = FALSE
        /\ sr' = {} /\ rdy' = TRUE
        /\ UNCHANGED <<reg, lam, t, view, fRd, busy, clean, ndist>>
     \/ /\ ~Refused(fRd) /\ fRd.fu = "read"
        /\ LET r == ReadRecord(t, Nbyt(fRd))
           IN /\ TapeIs(r.t)
              /\ IF ~r.ok \/ r.n = 0
                 THEN FastExit([r EXCEPT !.n = 0]) /\ UNCHANGED <<fRd, busy>>
                 ELSE /\ fRd' = [fRd EXCEPT !.op = r.op, !.buf = r.data]
                      /\ busy' = TRUE /\ UNCHANGED regs
        /\ UNCHANGED <<att, clean, ndist>>
     \/ /\ ~Refused(fRd) /\ fRd.fu \in {"write", "weirg"} /\ busy' = TRUE
        /\ UNCHANGED <<regs, att, t, view, fRd, clean, ndist>>
     \/ /\ ~Refused(fRd) /\ fRd.fu = "weof"
        /\ \E lost \in Lost \cap 0 .. 3 :
             LET r == WriteEof(t, lost)
             IN TapeIs(r.t) /\ FastExit([r EXCEPT !.op = "ok"]) /\ Disturbed(lost)
        /\ UNCHANGED <<att, fRd, busy>>
     \/ /\ ~Refused(fRd) /\ fRd.fu \in {"sforw", "sback", "rewind"}
        /\ LET r == CASE fRd.fu = "sforw" -> SpaceForw(t, Nbyt(fRd))
                      [] fRd.fu = "sback" -> SpaceBack(t, Nbyt(fRd))
                      [] OTHER -> Rewind(t)
           IN TapeIs(r.t) /\ FastExit(r)
        /\ UNCHANGED <<att, fRd, busy, clean, ndist>>
  /\ UNCHANGED <<mem, cur, ngo>>

\* AddNormalExit() after n words: e is the number of bytes counted beyond them.
NormalExit(n, e, u, flags) ==
  LET addr == fRd.ba + 2 * n + e
  IN /\ reg' = [reg EXCEPT !.bc = (fRd.bc + 2 * n + e) % BcMod, !.ba = 2 * (addr \div 2)]
     /\ sr' = UnitFlags(u) \cup flags /\ rdy' = TRUE /\ UNCHANGED lam

ReadFlags(op) ==
  CASE op = "ok" -> {} [] op = "rle" -> {"rle"} [] op = "parity" -> {"pae"} [] OTHER -> {"bte"}

\* The words of READ go to memory, its odd last byte with them if all is well.
EndRead(n, nxm) ==
  LET odd == Len(fRd.buf) % 2
      last == IF odd = 1 /\ fRd.op = "ok" THEN {fRd.ba + 2 * n} ELSE {}
  IN /\ mem' = [a \in DOMAIN mem |-> IF a \in fRd.ba .. fRd.ba + 2 * n - 1 \/ a \in last
                                     THEN fRd.buf[a - fRd.ba + 1] ELSE mem[a]]
     /\ NormalExit(n, odd, t, nxm \cup ReadFlags(fRd.op))
     /\ UNCHANGED <<t, view, clean, ndist>>

\* The words of WRITE make a record.  With an odd count and no words at all the
\* size is 0 - 1: an end of medium tag, then a write that fails.
EndWriteEven(n, nxm) ==
  LET r == WriteRecord(t, [i \in 1 .. 2 * n |-> mem[fRd.ba + i - 1]], 0)
  IN TapeIs(r.t) /\ NormalExit(n, -(fRd.bc % 2), r.t, nxm) /\ UNCHANGED <<mem, clean, ndist>>
EndWrite(n, nxm) ==
  LET nbyt == 2 * n - (fRd.bc % 2)
      data == [i \in 1 .. nbyt |-> mem[fRd.ba + i - 1]]
      underflow == Failed(Write(t, <<Tag("eom", 0), <<>>>>, 1), 0)
  IN /\ \E lost \in Lost :
          LET r == IF nbyt = -1 /\ ~t.bad THEN underflow ELSE WriteRecord(t, data, lost)
          IN TapeIs(r.t) /\ NormalExit(n, -(fRd.bc % 2), r.t, nxm) /\ Disturbed(lost)
     /\ UNCHANGED mem

\* RdmaHandler() to its end, and RdmaPostExecCB().  unit.Virt() of a unit that was
\* detached in between is no object.
RdmaEnd ==
  /\ pc = "idle" /\ busy /\ busy' = FALSE
  /\ LET want == IF fRd.fu = "read" THEN Len(fRd.buf) \div 2 ELSE (Nbyt(fRd) + 1) \div 2
         n == Max({0, Min({want, (MemBytes - fRd.ba) \div 2})})
         nxm == IF n < want THEN {"nxm"} ELSE {}
     IN IF ~att THEN pc' = "dead" /\ UNCHANGED <<regs, mem, t, view, clean, ndist>>
        ELSE /\ UNCHANGED pc
             /\ IF fRd.fu = "read" THEN EndRead(n, nxm) ELSE EndWrite(n, nxm)
  /\ UNCHANGED <<att, fRd, cur, ngo>>

-----------------------------------------------------------------------------
(* A client thread.  Attach() and Detach() take the connection lock;        *)
(* SetPosFile() and SetPosRecord() do not, and tell the FPGA nothing.       *)

Client ==
  /\ ndist < MaxDisturb /\ ndist' = ndist + 1 /\ pc # "dead" /\ clean' = FALSE
  /\ UNCHANGED <<rdy, reg, lam, mem, pc, fRd, busy, cur, ngo>>
Detach ==
  /\ Client /\ pc = "idle" /\ att /\ att' = FALSE /\ sr' = sr \ {"onl", "bot", "wrl", "eof", "eot"}
  /\ UNCHANGED <<t, view>>
Attach(u) ==
  /\ Client /\ pc = "idle" /\ att' = TRUE /\ TapeIs(u)
  /\ sr' = (sr \ {"wrl", "eof", "eot"}) \cup {"onl", "bot"} \cup (IF u.wprot THEN {"wrl"} ELSE {})
SetPos(n, byFile) ==
  /\ Client /\ att /\ TapeIs(IF byFile THEN SetPosFile(t, n) ELSE SetPosRecord(t, n))
  /\ UNCHANGED <<sr, att>>

Next ==
  \/ \E r \in Reqs : Go(r)
  \/ Reset \/ AttnRegs \/ AttnHandler \/ RdmaEnd \/ Detach
  \/ \E u \in Tapes : Attach(u)
  \/ \E n \in 0 .. MaxFar, byFile \in BOOLEAN : SetPos(n, byFile)

Spec == Init /\ [][Next]_vars

-----------------------------------------------------------------------------
(* Properties.                                                              *)

TypeOK ==
  /\ rdy \in BOOLEAN /\ lam \in BOOLEAN /\ busy \in BOOLEAN /\ att \in BOOLEAN
  /\ reg.bc \in 0 .. BcMod - 1 /\ reg.ba % 2 = 0 /\ DOMAIN mem = 0 .. MemBytes - 1
  /\ sr \subseteq DoneFlags \cup {"eof", "eot", "onl", "bot", "wrl"}
  /\ pc \in {"idle", "attn", "dead"} /\ t.pos \in Nat /\ (t.bad \/ t.pos <= Size(t))

\* fPosFile and fPosRecord, which SetPosFile() searches with, count the marks
\* before the position and the records since the last of them; the record count
\* may be unknown (-1), never wrong, whatever mix of reads, writes, spacing,
\* rewinds, failing writes and client calls came before.  A bad tape, and one that
\* a short READ left inside a record, have no place to count from.
PosExact ==
  LET x == view.items
      at == view.at
      marks == {i \in 1 .. at : IsMark(x[i])}
  IN at >= 0 => /\ t.posfile = Cardinality(marks)
                /\ t.posrec \in {-1, at - Max({0} \cup marks)}

\* What a function must do, told on the records and marks of the tape: where the
\* tape stands after it, what is on it, what is counted and what is flagged.
Ahead(x, at, n) ==
  LET marks == {i \in at + 1 .. Len(x) : IsMark(x[i])}
      stop == Min(marks \cup {Len(x) + 1})
  IN IF at + n < stop THEN [at |-> at + n, n |-> n, eof |-> FALSE, end |-> FALSE]
     ELSE [at |-> Min({stop, Len(x)}), n |-> stop - at - 1, eof |-> stop \in marks, end |-> stop \notin marks]
Behind(x, at, n) ==
  LET stop == Max({0} \cup {i \in 1 .. at : IsMark(x[i])})
  IN IF at - n >= stop THEN [at |-> at - n, n |-> n, eof |-> FALSE, end |-> FALSE]
     ELSE [at |-> Max({stop - 1, 0}), n |-> at - stop, eof |-> stop # 0, end |-> FALSE]

\* A function that nothing disturbed has done exactly that when the controller is
\* ready again (AttnHandler(), AddFastExit(), AddNormalExit()).  Where the code
\* departs from a tape drive, this is what it does:
\*  - a READ with a byte count below the length of its record, and one of an odd
\*    record in the e11 dialect, loses the tape: ReadRecord() seeks too far, finds a
\*    bad tape, moves nothing and reports "bte"; or it takes the tag of the next
\*    record for the end of its own, moves the bytes, reports "rle" and stays inside
\*    that record;
\*  - writing on a bad tape writes nothing and is reported as done;
\*  - the odd last byte that has no memory, or that has a parity error, is counted
\*    and not moved: of these nothing is said, and nothing of functions that start
\*    inside a record.
FunctionExact ==
  LET r == cur.req
      x == cur.view.items
      at == cur.view.at
      next == x[at + 1]
      len == Len(next.data)
      size == Min({Nbyt(r), MemBytes - r.ba})
      Flags(n, flags) ==
        reg.bc = (r.bc + n) % BcMod /\ sr \cap (DoneFlags \cup {"eof"}) = flags
      Is(y, p, n, flags) ==
        view = [items |-> y, at |-> p] /\ Flags(n, flags) /\ ("bot" \in sr <=> p = 0)
      Sound(i) == x[i].end = x[i].tag
      Spaced(s) == Is(x, s.at, s.n, IF s.eof THEN {"eof"} ELSE {})
      Wrote(y) == SubSeq(x, 1, at) \o <<y>>
      short == Nbyt(r) < len
      moved == Min({len, Nbyt(r), MemBytes - r.ba})
      Read(p, flags) ==
        /\ Is(x, p, moved, flags \cup (IF moved < Min({len, Nbyt(r)}) THEN {"nxm"} ELSE {}))
        /\ mem = [a \in DOMAIN mem |-> IF a \in r.ba .. r.ba + moved - 1
                                       THEN next.data[a - r.ba + 1] ELSE cur.mem[a]]
  IN clean /\ rdy /\ reg.fu = r.fu /\ cur.ok =>
     CASE r.fu = "rewind" -> Is(x, 0, 0, {})
       [] r.fu = "unload" -> ~att /\ view = cur.view /\ sr = {}
       [] at = -1 /\ r.fu \in {"read", "sforw", "sback"} -> Flags(0, {"bte"}) /\ mem = cur.mem
       [] at = -1 /\ r.fu = "weof" -> view = cur.view /\ Flags(0, {})
       [] at = -1 /\ r.fu \in {"write", "weirg"} /\ (size = Nbyt(r) \/ Nbyt(r) % 2 = 0) ->
            view = cur.view /\ Flags(size, IF size < Nbyt(r) THEN {"nxm"} ELSE {})
       [] at >= 0 /\ r.fu = "sforw" ->
            LET s == Ahead(x, at, Nbyt(r)) IN IF s.end THEN Flags(s.n, {"bte"}) ELSE Spaced(s)
       [] at >= 0 /\ r.fu = "sback" ->
            LET s == Behind(x, at, Nbyt(r))
            IN IF \A i \in s.at + 1 .. at : Sound(i) THEN Spaced(s) ELSE "bte" \in sr
       [] at >= 0 /\ r.fu = "weof" ->
            Is(Wrote([tag |-> MetaEof, data |-> <<>>, end |-> MetaEof]), at + 1, 0, {})
       [] at >= 0 /\ r.fu \in {"write", "weirg"} /\ (size = Nbyt(r) \/ Nbyt(r) % 2 = 0) ->
            Is(Wrote([tag |-> <<"rec", size>>, data |-> [i \in 1 .. size |-> cur.mem[r.ba + i - 1]],
                      end |-> <<"rec", size>>]),
               at + 1, size, IF size < Nbyt(r) THEN {"nxm"} ELSE {})
       [] r.fu = "read" /\ at = Len(x) -> Flags(0, {"bte"}) /\ mem = cur.mem
       [] r.fu = "read" /\ at \in 0 .. Len(x) - 1 /\ IsMark(next) ->
            Is(x, at + 1, 0, {"eof"}) /\ mem = cur.mem
       [] /\ r.fu = "read" /\ at \in 0 .. Len(x) - 1 /\ ~IsMark(next)
          /\ ~Sound(at + 1) \/ short \/ (t.pad /\ len % 2 = 1) ->
            \/ view = [items |-> x, at |-> -1] /\ Flags(0, {"bte"}) /\ mem = cur.mem
            \/ short /\ Read(-2, {"rle"})
       [] /\ r.fu = "read" /\ at \in 0 .. Len(x) - 1 /\ ~IsMark(next)
          /\ Sound(at + 1) /\ ~short /\ ~(t.pad /\ len % 2 = 1)
          /\ len % 2 = 0 \/ (r.ba + len <= MemBytes /\ next.tag[1] # "perr") ->
            Read(at + 1, IF next.tag[1] = "perr" THEN {"pae"} ELSE {})
       [] OTHER -> TRUE

\* To its user the file is a tape: records before the place where a write, a
\* failing write or a client call comes are never touched, a write forgets what was
\* behind it, and the position is always between two records.  The one way out is a
\* READ that wants less than its record and takes the next tag for the end of its own
\* (ReadRecord()): it changes no record but stays inside one, and from there a write
\* may destroy what is before it.
Abs == INSTANCE TapeMedium WITH items <- view.items, at <- view.at
Astray ==
  \/ view.at = -2
  \/ /\ pc = "attn" /\ fRd.fu = "read" /\ view.at \in 0 .. Len(view.items) - 1
     /\ Nbyt(fRd) < Len(view.items[view.at + 1].data)
     /\ view' = [view EXCEPT !.at = -2]
TapeService ==
  /\ Abs!Init
  /\ [][Abs!Next(\E u \in Tapes : t' = u /\ ndist' = ndist + 1) \/ Astray]_view

\* No GO is forgotten: while the controller is not ready the attention is pending,
\* the handler is at work, or a transfer is under way that will end with done, a
\* reset and a second GO in between or not (spurious attentions are dropped).
NotForgotten == rdy \/ lam \/ pc \in {"attn", "dead"} \/ busy

\* The types, an exact position, and no function forgotten: what holds between
\* any two accesses to registers, memory and file.
TapeInv == TypeOK /\ PosExact /\ NotForgotten
=============================================================================
