------------------------------- MODULE Rw11Disk -------------------------------
(***************************************************************************)
(* The disk controllers RK11, RL11 and RHRP of librw11 with Rw11Rdma and   *)
(* Rw11RdmaDisk, against their register files in the FPGA (ibdr_rk11,      *)
(* ibdr_rl11, ibdr_rhrp).  The CPU writes a function with GO; the device   *)
(* clears its ready flag and raises an attention; the server thread calls  *)
(* AttnHandler(), which answers at once or queues a transfer that          *)
(* RdmaHandler() moves chunk by chunk as a requeued action.  Handlers run  *)
(* under the connection lock; the CPU goes on between their list           *)
(* executions, and a client thread attaches and detaches files between     *)
(* handlers.  kind tells which of the three controllers it is.             *)
(***************************************************************************)
EXTENDS Integers, FiniteSets, FiniteSetsExt

CONSTANTS Kinds,              \* controllers: subset of rk11, rl11, rhrp
          Unit,               \* units of the controller
          NCyl, NHead, NSect, \* geometry
          BlkWords,           \* words of a block
          MemWords,           \* words of memory; addresses beyond do not exist
          ChunkSize,          \* fChunksize
          Reqs,               \* functions the CPU starts
          MaxGo,              \* bound: functions started
          MaxDisturb          \* bound: resets, and files attached or detached

ASSUME DiskAssumption ==
  /\ Kinds \subseteq {"rk11", "rl11", "rhrp"}
  /\ {NCyl, NHead, NSect, BlkWords, MemWords, ChunkSize} \subseteq Nat \ {0}
  /\ {MaxGo, MaxDisturb} \subseteq Nat
  /\ Unit # {}

\* A function as the CPU writes it: a count of zero is the largest count, and of
\* the RK11 and the RL11 the head is one bit wide.
Funcs == {"write", "read", "rnhc", "wchk", "rchk", "seek", "wlock", "dreset", "rhdr", "whd"}
Flags == {"", "fmt", "rwa", "iba", "sse"}
ASSUME ReqsAssumption ==
  /\ Reqs \subseteq [kind : Kinds, fu : Funcs, unit : Unit, cy : Nat, hd : Nat, se : Nat,
                     addr : Nat, wc : Nat \ {0}, flag : Flags]
  /\ \A r \in Reqs : r.kind # "rhrp" => r.hd < NHead

VARIABLES
  kind,
  rdy, reg,       \* FPGA: ready flag; function, unit, address and count registers
  err, er1,       \* errors the host reported, as the device keeps them (the RHRP
                  \* the last ones only); RHRP: RPER1 of each unit
  pos,            \* RL11: track under the heads of each unit
  lam,            \* attention raised and not yet read
  mem, disk,      \* words of memory and of the attached files
  att, wprot,     \* unit.HasVirt(), unit.WProt(), mirrored in the FPGA by UnitSetup()
  pc,             \* server thread: idle, read, attn, post, or dead
  fRd,            \* registers as read, then the fRd_ request parameters
  rdma,           \* Rw11Rdma: status, words done, words of the last chunk, and
                  \* whether its labo aborted the list
  fBuf,           \* Rw11RdmaDisk::fBuf
  cur,            \* auxiliary: function under way or last done, memory, disk and
                  \* errors at its GO
  gdisk,          \* auxiliary: disk as the completions reported so far tell it
  clean,          \* auxiliary: no reset and no client came between a GO and its end
  ngo, nreset, nclient

fpga == <<rdy, reg, err, er1, pos, lam>>
aux == <<cur, gdisk, clean, ngo, nreset, nclient>>
vars == <<kind, fpga, mem, disk, att, wprot, pc, fRd, rdma, fBuf, aux>>

NBlock == NCyl * NHead * NSect
Word == 0 .. NBlock * BlkWords - 1
Address == 0 .. MemWords - 1
NoReq == [kind |-> "none", fu |-> "none", unit |-> CHOOSE u \in Unit : TRUE, cy |-> 0,
          hd |-> 0, se |-> 0, addr |-> 0, wc |-> 0, flag |-> ""]
Fresh(u, n) == [i \in Word |-> <<n, u, i>>]   \* contents of the n-th file
Idle == [status |-> "done", done |-> 0, next |-> 0, ndone |-> 0, labo |-> FALSE]

Init ==
  /\ kind \in Kinds
  /\ rdy = TRUE /\ reg = NoReq /\ err = {} /\ er1 = [u \in Unit |-> {}]
  /\ pos = [u \in Unit |-> <<0, 0>>] /\ lam = FALSE
  /\ mem = [a \in Address |-> <<0, "mem", a>>]
  /\ disk = [u \in Unit |-> Fresh(u, 0)] /\ gdisk = disk
  /\ att = [u \in Unit |-> TRUE] /\ wprot = [u \in Unit |-> u # NoReq.unit]
  /\ pc = "idle" /\ fRd = NoReq /\ rdma = Idle /\ fBuf = <<>>
  /\ cur = [req |-> NoReq, mem |-> mem, disk |-> gdisk[NoReq.unit], err |-> {}, ok |-> FALSE,
            id |-> 0]
  /\ clean = TRUE
  /\ ngo = 0 /\ nreset = 0 /\ nclient = 0

-----------------------------------------------------------------------------
(* Rw11UnitDisk: geometry.                                                  *)

Chs2Lba(r) == r.se + NSect * (r.hd + NHead * r.cy)
Lba2Chs(lba) == [cy |-> lba \div (NSect * NHead), hd |-> (lba \div NSect) % NHead,
                 se |-> lba % NSect]
Nwrd2Nblk(n) == (n + BlkWords - 1) \div BlkWords

Transfer == {"write", "read", "rnhc", "wchk"}
IsRead(r) == r.fu \in {"read", "rnhc"}

\* Blocks a transfer may use: to the end of the track, or of the disk.
Extent(r) == IF kind = "rl11" THEN NSect - r.se ELSE NBlock - Chs2Lba(r)
Overrun(r) == r.fu \in Transfer \cup {"rchk"} /\ Nwrd2Nblk(r.wc) > Extent(r)

\* Words after truncation at an overrun.
Nwrd(r) == IF Overrun(r) THEN Extent(r) * BlkWords ELSE r.wc

BadChs(r) == (IF r.se >= NSect THEN {"nxs"} ELSE {}) \cup (IF r.cy >= NCyl THEN {"nxc"} ELSE {})

\* Errors found before anything is moved.
HandlerError(r) ==
  CASE kind = "rk11" ->
         IF ~att[r.unit] THEN {"nxd"}
         ELSE IF r.fu \notin {"write", "read"} /\ r.flag \in {"fmt", "rwa"} THEN {"pge"}
         ELSE IF r.flag = "rwa" THEN {"dre"}
         ELSE (IF r.fu \in Transfer \cup {"rchk", "seek"} THEN BadChs(r) ELSE {})
              \cup (IF r.fu = "write" /\ wprot[r.unit] THEN {"wlo"} ELSE {})
              \cup (IF r.fu \in Transfer \cup {"rchk"} /\ r.flag = "iba" THEN {"dre"} ELSE {})
    [] kind = "rl11" ->
         IF ~att[r.unit] THEN {"opi"}
         ELSE IF r.fu = "rhdr" THEN {}
         ELSE IF r.se >= NSect \/ (r.fu # "rnhc" /\ pos[r.unit] # <<r.cy, r.hd>>) THEN {"hnfnd"}
         ELSE IF r.fu = "write" /\ wprot[r.unit] THEN {"de"}
         ELSE {}
    [] kind = "rhrp" ->
         IF ~att[r.unit] THEN {"uns"}
         ELSE IF r.cy > NCyl \/ r.hd > NHead \/ r.se > NSect THEN {"iae"}
         ELSE IF r.fu = "write" /\ wprot[r.unit] THEN {"wle"}
         ELSE IF r.fu \notin Transfer THEN {"ilf"}
         ELSE {}

-----------------------------------------------------------------------------
(* The CPU.                                                                 *)

\* RHRP: what the device checks before it raises an attention.
Refused(r) ==
  (IF ~att[r.unit] THEN {"uns"} ELSE {})
  \cup (IF att[r.unit] /\ (r.cy >= NCyl \/ r.hd >= NHead \/ r.se >= NSect) THEN {"iae"} ELSE {})
  \cup (IF r.fu \in {"write", "whd"} /\ wprot[r.unit] THEN {"wle"} ELSE {})

\* Errors a GO leaves: the RK11 forgets its soft error (RKER WCE, CSE) only and
\* shows a hard one until a reset, or until the host writes RKER again.
KeptErrors == IF kind = "rk11" THEN err \ {"wce"} ELSE {}

Accepted(r) ==
  /\ rdy' = FALSE /\ reg' = r /\ err' = KeptErrors /\ lam' = TRUE
  /\ cur' = [req |-> r, mem |-> mem, disk |-> gdisk[r.unit], err |-> KeptErrors,
             ok |-> HandlerError(r) = {}, id |-> ngo + 1]
  /\ UNCHANGED er1

\* A function with GO, given to a ready controller.
Go(r) ==
  /\ rdy /\ ngo < MaxGo /\ r.kind = kind /\ ngo' = ngo + 1
  /\ IF kind # "rhrp" THEN Accepted(r)
     ELSE IF er1[r.unit] # {} THEN
            er1' = [er1 EXCEPT ![r.unit] = @ \cup {"ilf"}] /\ UNCHANGED <<rdy, reg, err, lam, cur>>
     ELSE IF Refused(r) # {} THEN
            er1' = [er1 EXCEPT ![r.unit] = Refused(r)] /\ UNCHANGED <<rdy, reg, err, lam, cur>>
     ELSE Accepted(r)
  /\ UNCHANGED <<kind, pos, mem, disk, att, wprot, pc, fRd, rdma, fBuf, gdisk, clean,
                 nreset, nclient>>

\* RHRP drive clear and RL11 seek are done in the device alone; the RL11 forgets
\* the errors of the last function at every GO.
Dclr(u) ==
  /\ kind = "rhrp" /\ er1[u] # {} /\ er1' = [er1 EXCEPT ![u] = {}]
  /\ UNCHANGED <<kind, rdy, reg, err, pos, lam, mem, disk, att, wprot, pc, fRd, rdma,
                 fBuf, aux>>
Seek(u, t) ==
  /\ kind = "rl11" /\ rdy /\ pos' = [pos EXCEPT ![u] = t]
  /\ reg' = [reg EXCEPT !.fu = "seek", !.unit = u] /\ err' = {}
  /\ UNCHANGED <<kind, rdy, er1, lam, mem, disk, att, wprot, pc, fRd, rdma, fBuf, aux>>

\* Bus reset, or an RK11 control reset: the device is ready at once, whatever
\* the host is doing for it.
Reset ==
  /\ nreset + nclient < MaxDisturb /\ nreset' = nreset + 1
  /\ rdy' = TRUE /\ reg' = [NoReq EXCEPT !.unit = reg.unit]
  /\ err' = {} /\ er1' = [u \in Unit |-> {}]
  /\ clean' = (clean /\ rdy /\ rdma.status = "done" /\ pc = "idle")
  /\ UNCHANGED <<kind, pos, lam, mem, disk, att, wprot, pc, fRd, rdma, fBuf, cur, gdisk,
                 ngo, nclient>>

-----------------------------------------------------------------------------
(* AttnHandler().                                                           *)

\* GetAttnInfo() reads the attention pattern and then the registers.
AttnRead ==
  /\ pc = "idle" /\ lam /\ lam' = FALSE /\ pc' = "read"
  /\ UNCHANGED <<kind, rdy, reg, err, er1, pos, mem, disk, att, wprot, fRd, rdma,
                 fBuf, aux>>
\* A spurious lam is dropped: the device is ready, or a transfer is active.
SpuriousReadyOnly == rdy
Spurious == rdy \/ rdma.status # "done"
AttnRegs ==
  /\ pc = "read"
  /\ IF Spurious
     THEN pc' = "idle" /\ UNCHANGED fRd
     ELSE /\ pc' = "attn"
          /\ fRd' = [fu |-> reg.fu, unit |-> reg.unit, cy |-> reg.cy, hd |-> reg.hd,
                     se |-> reg.se, addr |-> reg.addr, wc |-> Nwrd(reg), flag |-> reg.flag,
                     ovr |-> Overrun(reg), full |-> reg.wc, id |-> cur.id]
  /\ UNCHANGED <<kind, fpga, mem, disk, att, wprot, rdma, fBuf, aux>>

\* The device's ready flag comes back on the word of a handler.
Done(id, gd) ==
  /\ rdy' = TRUE
  /\ gdisk' = IF ~rdy /\ id = cur.id THEN gd ELSE gdisk

\* RK11: RKER is written only if there is an error to report.
Report(e) == err' = IF kind = "rk11" /\ e = {} THEN err ELSE e

\* AddErrorExit(), and the functions that end without a transfer.
ErrorExit(e) ==
  /\ Report(e)
  /\ er1' = IF kind = "rhrp" THEN [er1 EXCEPT ![reg.unit] = @ \cup e] ELSE er1
  /\ Done(fRd.id, gdisk) /\ UNCHANGED <<reg, pos, lam>>

\* RPER1 bits at the places of RPCS2 bits: WCE is UNS, NEM is WLE.
Er1OfCs2(e) == (IF "wce" \in e THEN {"uns"} ELSE {}) \cup (IF "nxm" \in e THEN {"wle"} ELSE {})

\* AddNormalExit(): count, address and errors of a transfer of n words.
NormalExit(n, e, gd) ==
  LET lba == Chs2Lba(fRd) + Nwrd2Nblk(n)
      chs == IF kind = "rl11"
             THEN [cy |-> fRd.cy, hd |-> fRd.hd, se |-> fRd.se + Nwrd2Nblk(n)]
             ELSE Lba2Chs(lba)
      shown == CASE kind = "rk11" -> e \cup (IF fRd.ovr THEN {"ovr"} ELSE {})
                 [] kind = "rl11" -> IF e = {} /\ fRd.ovr THEN {"hnfnd"} ELSE e
                 [] kind = "rhrp" -> Er1OfCs2(e) \cup (IF fRd.ovr THEN {"aoe"} ELSE {})
  IN /\ reg' = [reg EXCEPT !.addr = fRd.addr + n, !.cy = chs.cy, !.hd = chs.hd,
                           !.se = chs.se,
                           !.wc = (IF kind = "rk11" THEN fRd.wc ELSE fRd.full) - n]
     /\ Report(shown)
     /\ er1' = IF kind = "rhrp" THEN [er1 EXCEPT ![reg.unit] = @ \cup shown] ELSE er1
     /\ Done(fRd.id, gd) /\ UNCHANGED <<pos, lam>>

\* The handler answers, or queues the transfer; SetupRdma() throws if one is
\* active.
AttnHandler ==
  /\ pc = "attn"
  /\ LET e == HandlerError(fRd)
         setup == e = {} /\ fRd.fu \in Transfer
     IN /\ pc' = IF setup /\ rdma.status # "done" THEN "dead" ELSE "idle"
        /\ rdma' = IF setup /\ rdma.status = "done" THEN [Idle EXCEPT !.status = "busy"] ELSE rdma
        /\ wprot' = [wprot EXCEPT ![fRd.unit] = @ \/ (e = {} /\ fRd.fu = "wlock")]
        /\ CASE setup -> UNCHANGED <<fpga, gdisk>>
             [] e = {} /\ fRd.fu = "rchk" -> NormalExit(fRd.wc, {}, gdisk)
             [] OTHER -> ErrorExit(e)
  /\ UNCHANGED <<kind, mem, disk, att, fRd, fBuf, cur, clean, ngo, nreset, nclient>>

-----------------------------------------------------------------------------
(* RdmaHandler().                                                           *)

\* Words of whole blocks from block lba on, and a disk with words written there.
Blocks(u, lba, n) == [i \in 1 .. Nwrd2Nblk(n) * BlkWords |-> disk[u][lba * BlkWords + i - 1]]
Written(d, lba, s) ==
  [w \in Word |-> LET i == w - lba * BlkWords + 1 IN IF i \in DOMAIN s THEN s[i] ELSE d[w]]
Padded(s, n) == [i \in 1 .. Nwrd2Nblk(n) * BlkWords |-> IF i <= n THEN s[i] ELSE <<0, "dead", 0>>]

\* What a transfer of n words leaves on the disk, from the memory at its GO.
GhostDisk(n) ==
  IF cur.req.fu # "write" THEN gdisk
  ELSE [gdisk EXCEPT ![cur.req.unit] =
          Written(@, Chs2Lba(cur.req), Padded([i \in 1 .. n |-> cur.mem[cur.req.addr + i - 1]], n))]

Fused == rdma.done + rdma.next = fRd.wc /\ fRd.fu # "wchk"

\* First half: PreRdmaHook(), and the list with the chunk, which for the last
\* chunk ends in a labo and the register update (RdmaPreExecCB()).
RdmaExec ==
  /\ pc = "idle" /\ rdma.status = "busy"
  /\ LET next == Min({fRd.wc - rdma.done, ChunkSize})
         a == fRd.addr + rdma.done
         n == Max({0, Min({next, MemWords - a})})     \* BlockDone()
         last == rdma.done + next = fRd.wc
         src == IF rdma.done = 0 THEN Blocks(fRd.unit, Chs2Lba(fRd), fRd.wc) ELSE fBuf
     IN IF IsRead(fRd) /\ rdma.done = 0 /\ ~att[fRd.unit]
        THEN pc' = "dead" /\ UNCHANGED <<fpga, mem, fBuf, rdma, gdisk>>
        ELSE /\ pc' = "post"
             /\ rdma' = [rdma EXCEPT !.next = next, !.ndone = n, !.labo = n # next]
             /\ IF IsRead(fRd)
                THEN /\ fBuf' = src
                     /\ mem' = [x \in Address |-> IF x \in a .. a + n - 1
                                                  THEN src[rdma.done + x - a + 1] ELSE mem[x]]
                ELSE /\ fBuf' = [i \in 1 .. rdma.done + n |->
                                   IF i <= rdma.done THEN fBuf[i] ELSE mem[fRd.addr + i - 1]]
                     /\ UNCHANGED mem
             /\ IF last /\ fRd.fu # "wchk" /\ n = next
                THEN NormalExit(fRd.wc, {}, GhostDisk(fRd.wc))
                ELSE UNCHANGED <<fpga, gdisk>>
  /\ UNCHANGED <<kind, disk, att, wprot, fRd, cur, clean, ngo, nreset, nclient>>

\* WriteCheck(): words that agree.
WriteCheckLate(n) ==
  LET d == Blocks(fRd.unit, Chs2Lba(fRd), n)
      bad == {i \in 1 .. n : d[i] # fBuf[i]}
  IN IF bad = {} THEN n ELSE Min(bad)
WriteCheck(n) ==
  LET d == Blocks(fRd.unit, Chs2Lba(fRd), n)
      bad == {i \in 1 .. n : d[i] # fBuf[i]}
  IN IF bad = {} THEN n ELSE Min(bad) - 1

\* RdmaPostExecCB(), for the last chunk: the words that agree, the errors, and the
\* register update unless the list of the chunk has done it.  A list whose labo
\* did not abort although there is an error makes the RK11 and the RL11 throw (the
\* RHRP tests a variable that is never set).
Agreed(total) == IF fRd.fu = "wchk" THEN WriteCheck(total) ELSE total
PostErrors(total, fail) ==
  LET wce == IF Agreed(total) # total THEN {"wce"} ELSE {}
      nxm == IF fail /\ ~(kind = "rl11" /\ wce # {}) THEN {"nxm"} ELSE {}
  IN wce \cup nxm
PostCount(total) == IF kind # "rk11" \/ fRd.flag = "sse" THEN Agreed(total) ELSE total
MissedAbort(total, fail) ==
  kind # "rhrp" /\ Fused /\ ~rdma.labo /\ PostErrors(total, fail) # {}

PostExecCBNoAbort(total, fail) ==
  IF Fused
  THEN UNCHANGED <<fpga, gdisk>>
  ELSE NormalExit(PostCount(total), PostErrors(total, fail), GhostDisk(PostCount(total)))
PostExecCB(total, fail) ==
  IF Fused /\ ~rdma.labo
  THEN UNCHANGED <<fpga, gdisk>>       \* done by the fused update
  ELSE NormalExit(PostCount(total), PostErrors(total, fail), GhostDisk(PostCount(total)))

\* PostRdmaHook(): the blocks of a write go to the file, the last one padded.
PostRdmaHookUnpadded(n) ==
  IF n > 0 /\ fRd.fu = "write"
  THEN disk' = [disk EXCEPT ![fRd.unit] = Written(@, Chs2Lba(fRd), [i \in 1 .. n |-> fBuf[i]])]
  ELSE UNCHANGED disk
PostRdmaHook(n) ==
  IF n > 0 /\ fRd.fu = "write"
  THEN disk' = [disk EXCEPT ![fRd.unit] = Written(@, Chs2Lba(fRd), Padded(fBuf, n))]
  ELSE UNCHANGED disk

\* Second half: the words done are counted; after the last chunk
\* PostRdmaHook() writes the disk and the registers are updated.
RdmaPost ==
  /\ pc = "post"
  /\ LET total == rdma.done + rdma.ndone
         fail == rdma.ndone # rdma.next
         last == fail \/ total = fRd.wc
         needs == last /\ total > 0 /\ fRd.fu \in {"write", "wchk"}
     IN IF needs /\ ~att[fRd.unit]
        THEN pc' = "dead" /\ UNCHANGED <<fpga, disk, rdma, gdisk>>
        ELSE /\ pc' = IF last /\ MissedAbort(total, fail) THEN "dead" ELSE "idle"
             /\ rdma' = IF last THEN Idle ELSE [Idle EXCEPT !.status = "busy", !.done = total]
             /\ IF last THEN PostRdmaHook(total) ELSE UNCHANGED disk
             /\ IF last THEN PostExecCB(total, fail) ELSE UNCHANGED <<fpga, gdisk>>
  /\ UNCHANGED <<kind, mem, att, wprot, fRd, fBuf, cur, clean, ngo, nreset, nclient>>

-----------------------------------------------------------------------------
(* A client thread: Rw11UnitVirt::Attach() and Detach(), under the lock.    *)

Client(u) ==
  /\ pc \in {"idle", "dead"} /\ nreset + nclient < MaxDisturb /\ nclient' = nclient + 1
  /\ clean' = (clean /\ rdy /\ rdma.status = "done")
  /\ UNCHANGED <<kind, rdy, reg, err, er1, lam, mem, pc, fRd, rdma, fBuf, cur,
                 ngo, nreset>>
Detach(u) ==
  /\ att[u] /\ att' = [att EXCEPT ![u] = FALSE] /\ Client(u)
  /\ pos' = IF kind = "rl11" THEN [pos EXCEPT ![u] = <<0, 0>>] ELSE pos
  /\ UNCHANGED <<disk, gdisk, wprot>>
\* A file attached anew is another file; an attached one is detached first.
Attach(u, wp) ==
  /\ att' = [att EXCEPT ![u] = TRUE] /\ wprot' = [wprot EXCEPT ![u] = wp]
  /\ disk' = [disk EXCEPT ![u] = Fresh(u, nclient + 1)]
  /\ gdisk' = [gdisk EXCEPT ![u] = Fresh(u, nclient + 1)] /\ Client(u)
  /\ pos' = IF kind = "rl11" /\ att[u] THEN [pos EXCEPT ![u] = <<0, 0>>] ELSE pos

ServerStep == AttnRead \/ AttnRegs \/ AttnHandler \/ RdmaExec \/ RdmaPost

Next ==
  \/ \E r \in Reqs : Go(r)
  \/ \E u \in Unit : Dclr(u) \/ Detach(u)
  \/ \E u \in Unit, t \in (0 .. NCyl - 1) \X (0 .. NHead - 1) : Seek(u, t)
  \/ \E u \in Unit, wp \in BOOLEAN : Attach(u, wp)
  \/ Reset
  \/ AttnRead \/ AttnRegs \/ AttnHandler \/ RdmaExec \/ RdmaPost

\* The server thread loops until it dies; see RlinkServer.
Spec == Init /\ [][Next]_vars /\ WF_vars(ServerStep)
-----------------------------------------------------------------------------
(* Properties.                                                              *)

TypeOK ==
  /\ kind \in Kinds /\ rdy \in BOOLEAN /\ lam \in BOOLEAN
  /\ reg.unit \in Unit /\ att \in [Unit -> BOOLEAN] /\ wprot \in [Unit -> BOOLEAN]
  /\ DOMAIN mem = Address /\ \A u \in Unit : DOMAIN disk[u] = Word /\ DOMAIN gdisk[u] = Word
  /\ pc \in {"idle", "read", "attn", "post", "dead"}
  /\ rdma.status \in {"done", "busy"} /\ rdma.done \in Nat
  /\ (rdma.status = "busy" => rdma.done < fRd.wc)

\* What a transfer must do, told without chunks, buffers and blocks: the words
\* from the first one on that lie in the extent and in memory are moved.
MovedWords(r) == Max({0, Min({r.wc, Extent(r) * BlkWords, MemWords - r.addr})})
Disagree(r) ==
  {i \in 0 .. MovedWords(r) - 1 :
     cur.mem[r.addr + i] # cur.disk[Chs2Lba(r) * BlkWords + i]}
CountedWords(r) ==
  IF r.fu = "rchk" THEN Min({r.wc, Extent(r) * BlkWords})
  ELSE IF r.fu = "wchk" /\ Disagree(r) # {} /\ (kind # "rk11" \/ r.flag = "sse")
  THEN Min(Disagree(r)) ELSE MovedWords(r)
ExpectedErrors(r) ==
  LET beyond == r.wc > Extent(r) * BlkWords
      wce == r.fu = "wchk" /\ Disagree(r) # {}
      nxm == r.fu # "rchk" /\ MemWords - r.addr < Min({r.wc, Extent(r) * BlkWords})
  IN CASE kind = "rl11" -> IF wce THEN {"wce"} ELSE IF nxm THEN {"nxm"}
                           ELSE IF beyond THEN {"hnfnd"} ELSE {}
       [] OTHER -> (IF wce THEN {"wce"} ELSE {}) \cup (IF nxm THEN {"nxm"} ELSE {})
                   \cup (IF beyond THEN {IF kind = "rk11" THEN "ovr" ELSE "aoe"} ELSE {})

\* Blocks that n words lie in, and memory after the transfer.
Touched(n) == Cardinality({i \div BlkWords : i \in 0 .. n - 1})
MemoryAfter(r) ==
  [a \in Address |-> IF IsRead(r) /\ a - r.addr \in 0 .. MovedWords(r) - 1
                    THEN cur.disk[Chs2Lba(r) * BlkWords + a - r.addr] ELSE cur.mem[a]]

\* Where a completion departs from that.  The RK11 leaves the words beyond the
\* extent out of the rest it counts (nrest), so RKWC is short by them; it shows a
\* hard error of an earlier function as long as there is none to report.  The RHRP
\* writes the RPCS2 bits WCE and NEM to RPER1, where the CPU finds UNS and WLE.
LostCount(r) ==
  IF kind = "rk11" THEN r.wc - Min({r.wc, Extent(r) * BlkWords}) ELSE 0
ShownErrors(r) ==
  LET e == ExpectedErrors(r)
  IN CASE kind = "rk11" -> IF e = {} THEN cur.err ELSE e
       [] kind = "rl11" -> e
       [] kind = "rhrp" -> Er1OfCs2(e) \cup (e \cap {"aoe"})

\* A completed transfer: the address is that of the word behind the last one moved,
\* the count is what the request has left, the errors are those of the request and
\* memory has its words, but for the three departures named above (LostCount,
\* ShownErrors).  This holds whether the registers were updated by the last chunk's
\* list behind its labo or by a list of their own, and however many chunks there
\* were (RdmaHandler(), RdmaPreExecCB(), RdmaPostExecCB(), AddNormalExit()).
CompletionExact ==
  LET r == cur.req
      n == CountedWords(r)
  IN clean /\ rdy /\ reg.fu \in Transfer \cup {"rchk"} /\ cur.ok
     => /\ reg.addr = r.addr + n /\ reg.wc = r.wc - n - LostCount(r)
        /\ Chs2Lba(reg) = Chs2Lba(r) + Touched(n)
        /\ err = ShownErrors(r)
        /\ mem = MemoryAfter(r)

\* When the server thread is idle and nothing is under way, the files hold what
\* the completions told the CPU: a write whose fused register update completes
\* before PostRdmaHook() writes the file is still seen by the next function, a
\* partial block is padded, and nothing else changes.
DiskAsReported ==
  clean /\ rdy /\ pc \in {"idle", "read", "attn"} /\ rdma.status = "done" => disk = gdisk

\* No exception leaves a handler on its own account: neither a missed abort, nor
\* a transfer set up while one is active, nor a bus reset at any point, makes
\* RdmaHandler() or AttnHandler() throw, which would end the server thread.
NoThrow == nclient = 0 => pc # "dead"

\* Every GO is answered, a reset in between or not, unless the thread is dead.
GoAnswered == ~rdy ~> (rdy \/ pc = "dead")

\* The types, a queued transfer within its request, and a live server thread.
DiskInv == TypeOK /\ NoThrow
=============================================================================
