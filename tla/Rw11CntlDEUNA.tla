---------------------------- MODULE Rw11CntlDEUNA ----------------------------
(***************************************************************************)
(* The ethernet controller: the port registers of ibdr_deuna, the rings of *)
(* descriptors a driver keeps in memory, and the handlers of Rw11CntlDEUNA.*)
(* All handlers run in the server thread, one at a time; the CPU runs at   *)
(* any time, also between the register and memory accesses of a handler.   *)
(* A descriptor is its ownership and the buffer it points to; entry i of a *)
(* ring points to buffer i.  A frame is a number.                          *)
(***************************************************************************)
EXTENDS Integers, SequencesExt

CONSTANTS RingSize,     \* entries of each ring: WRF refuses less than 2
          RxQueLimit,   \* fRxQueLimit
          Delua,        \* fPr1Delua
          Cmds,         \* port commands the driver gives, besides PDMD
          MaxCmd, MaxPdmd, MaxTx, MaxRx, MaxReset,  \* bounds
          MaxAll        \* bound on their sum

ASSUME DeunaAssumption ==
  /\ RingSize \in Nat \ {0, 1} /\ RxQueLimit \in Nat \ {0} /\ Delua \in BOOLEAN
  /\ {MaxCmd, MaxPdmd, MaxTx, MaxRx, MaxReset, MaxAll} \subseteq Nat

Funcs == {"wrf", "wmal", "wmode", "rpa", "bad"}   \* functions of GETCMD
ASSUME CmdsAssumption ==
  Cmds \subseteq ({"getpcbb", "selftst", "start", "boot", "halt", "stop"} \union Funcs)

VARIABLES
  reg,                  \* FPGA: PR0, PR1 and the pending attention
  txOwn, txFrm,         \* memory: tx ring, owned by the device; its frames
  rxOwn, rxBuf,         \* memory: rx ring and its buffers
  cpu,                  \* driver: rings set up; next entries; PDMD still to do
  fRunning, fPr1State, fPcbbValid, fRingValid,
  filt,                 \* fMcastCnt > 0, and fMode's PROM bit
  fTxRingIndex, fRxRingIndex,
  dscPC,                \* fTxDscCurPC and fRxDscCurPC
  fTxDscCur, fRxDscCur,
  fTxRingState, fRxRingState,
  queued,               \* ring handlers queued as actions
  timer,                \* fRxPollTimer
  fRxBufQueue,
  pc, pr0,              \* handler at work, and PR0 as it read or answers it
  given, wire, acc, got, \* frames the driver gave, sent; accepted, read by the driver
  aux,                  \* defects met: see Correctness
  n                     \* what the bounds count

memory == <<txOwn, txFrm, rxOwn, rxBuf>>
setup == <<fPcbbValid, fRingValid, filt>>
tx == <<fTxRingIndex, fTxDscCur, fTxRingState>>
rx == <<fRxRingIndex, fRxDscCur, fRxRingState, timer>>
frames == <<given, wire, acc, got>>
vars == <<reg, memory, cpu, fRunning, fPr1State, setup, tx, rx, dscPC, queued, fRxBufQueue,
          pc, pr0, frames, aux, n>>

Entries == 0 .. RingSize - 1
RingIndexNext(i, inc) == (i + inc) % RingSize
NoDsc == [own |-> FALSE, seg |-> 0]
Empty == 0
NoFrames == [i \in Entries |-> Empty]
NoPr0 == [rset |-> FALSE, brst |-> FALSE, cmd |-> "noop", dni |-> FALSE, pcei |-> FALSE]

\* State READY: nothing set up, as Start() leaves it, or after GETPCBB and WRF.
Init ==
  /\ reg = [busy |-> FALSE, pcmdbp |-> "noop", pcmd |-> "noop", pcmdwwb |-> FALSE,
            rset |-> FALSE, brst |-> FALSE, state |-> "ready", lam |-> FALSE]
  /\ txOwn = [i \in Entries |-> FALSE] /\ txFrm = NoFrames
  /\ rxOwn = [i \in Entries |-> FALSE] /\ rxBuf = NoFrames
  /\ cpu = [run |-> FALSE, tx |-> 0, rx |-> 0, kick |-> FALSE]
  /\ fRunning = FALSE /\ fPr1State = "ready"
  /\ fPcbbValid \in BOOLEAN /\ fRingValid = fPcbbValid
  /\ filt = [mcast |-> FALSE, prom |-> FALSE]
  /\ fTxRingIndex = 0 /\ fRxRingIndex = 0
  /\ dscPC = [tx |-> NoDsc, rx |-> NoDsc] /\ fTxDscCur = NoDsc /\ fRxDscCur = NoDsc
  /\ fTxRingState = "idle" /\ fRxRingState = "idle"
  /\ queued = [tx |-> 0, rx |-> 0] /\ timer = "off" /\ fRxBufQueue = <<>>
  /\ pc = "idle" /\ pr0 = NoPr0
  /\ given = <<>> /\ wire = <<>> /\ acc = <<>> /\ got = <<>>
  /\ aux = [selftst |-> FALSE, pdmdRx |-> FALSE, pdmdLost |-> FALSE, reset |-> FALSE,
             stale |-> FALSE, early |-> FALSE]
  /\ n = [cmd |-> 0, pdmd |-> 0, tx |-> 0, rx |-> 0, reset |-> 0]

Count(what, max) ==
  /\ n[what] < max /\ n.cmd + n.pdmd + n.tx + n.rx + n.reset < MaxAll
  /\ n' = [n EXCEPT ![what] = @ + 1]
Host == <<fRunning, fPr1State, setup, tx, rx, dscPC, queued, fRxBufQueue, pc, pr0>>

-----------------------------------------------------------------------------
(* The CPU: PR0 and the rings.                                              *)

\* A port command is taken up when the port is not busy; of those written while
\* it is, the last one is kept.
WritePcmd(c) ==
  reg' = IF reg.state = "reset" THEN reg
         ELSE IF reg.busy THEN [reg EXCEPT !.pcmd = c, !.pcmdwwb = TRUE]
         ELSE [reg EXCEPT !.pcmd = c, !.pcmdbp = c, !.busy = TRUE, !.lam = TRUE]

\* The driver waits for the port before a command other than PDMD.  START is given
\* when PR1 shows READY, with the rings set up and all rx buffers given away.
CpuCmd(c) ==
  /\ ~reg.busy /\ reg.state # "reset" /\ Count("cmd", MaxCmd)
  /\ WritePcmd(c)
  /\ IF c = "start"
     THEN /\ ~cpu.run /\ reg.state = "ready"
          /\ cpu' = [run |-> TRUE, tx |-> 0, rx |-> 0, kick |-> FALSE]
          /\ txOwn' = [i \in Entries |-> FALSE] /\ rxOwn' = [i \in Entries |-> TRUE]
          /\ txFrm' = NoFrames /\ rxBuf' = NoFrames
          /\ given' = <<>> /\ wire' = <<>> /\ got' = <<>> /\ acc' = fRxBufQueue
     ELSE /\ cpu' = [cpu EXCEPT !.run = @ /\ c \notin {"stop", "halt", "selftst"}]
          /\ UNCHANGED <<memory, frames>>
  /\ UNCHANGED <<Host, aux>>

CpuPdmd ==
  /\ cpu.run /\ Count("pdmd", MaxPdmd) /\ WritePcmd("pdmd")
  /\ cpu' = [cpu EXCEPT !.kick = FALSE]
  /\ UNCHANGED <<memory, frames, Host, aux>>

CpuGive ==
  /\ cpu.run /\ ~txOwn[cpu.tx] /\ Count("tx", MaxTx)
  /\ txOwn' = [txOwn EXCEPT ![cpu.tx] = TRUE] /\ txFrm' = [txFrm EXCEPT ![cpu.tx] = n'.tx]
  /\ given' = Append(given, n'.tx)
  /\ cpu' = [cpu EXCEPT !.tx = RingIndexNext(@, 1), !.kick = TRUE]
  /\ UNCHANGED <<reg, rxOwn, rxBuf, wire, acc, got, Host, aux>>

\* A filled buffer is read and given back.
CpuTake ==
  /\ cpu.run /\ ~rxOwn[cpu.rx]
  /\ got' = Append(got, rxBuf[cpu.rx])
  /\ rxBuf' = [rxBuf EXCEPT ![cpu.rx] = Empty] /\ rxOwn' = [rxOwn EXCEPT ![cpu.rx] = TRUE]
  /\ cpu' = [cpu EXCEPT !.rx = RingIndexNext(@, 1)]
  /\ UNCHANGED <<reg, txOwn, txFrm, given, wire, acc, Host, aux, n>>

\* RSET and a bus reset; in the reset state no attention is raised.
CpuReset(f) ==
  /\ Count("reset", MaxReset)
  /\ reg' = [reg EXCEPT ![f] = TRUE, !.state = "reset",
                        !.busy = @ \/ reg.state # "reset", !.lam = @ \/ reg.state # "reset"]
  /\ cpu' = [cpu EXCEPT !.run = FALSE]
  /\ aux' = [aux EXCEPT !.reset = @ \/ (pc = "pr0" /\ pr0[f])]
  /\ UNCHANGED <<memory, frames, Host>>

-----------------------------------------------------------------------------
(* Rings.                                                                   *)

TxDsc(i) == [own |-> txOwn[i], seg |-> i]
RxDsc(i) == [own |-> rxOwn[i], seg |-> i]

\* StartTxRing(): ownership is tested in the copy of the primary list.
TxStarts(idle) == idle /\ dscPC.tx.own
RxStarts(idle, dsc) == idle /\ fRxBufQueue' # <<>> /\ dsc.own
StartTxRing(idle, dsc) ==
  /\ fTxDscCur' = IF idle THEN dsc ELSE fTxDscCur
  /\ fTxRingState' = IF TxStarts(idle) THEN "busy" ELSE IF idle THEN "idle" ELSE fTxRingState
StartRxRing(idle, dsc) ==
  /\ fRxDscCur' = IF idle THEN dsc ELSE fRxDscCur
  /\ fRxRingState' = IF RxStarts(idle, dsc) THEN "busy" ELSE IF idle THEN "idle" ELSE fRxRingState
Queued(t, r) ==
  queued' = [tx |-> queued.tx + (IF t THEN 1 ELSE 0), rx |-> queued.rx + (IF r THEN 1 ELSE 0)]

\* StopTxRing() and StopRxRing(): a queued handler stays queued.
StopRings ==
  /\ fRunning' = FALSE /\ fTxRingState' = "idle" /\ fRxRingState' = "idle"
  /\ timer' = IF fRxRingState = "poll" THEN "off" ELSE timer
  /\ UNCHANGED <<fTxDscCur, fRxDscCur, queued>>

\* Mutant of TxRingHandler: a descriptor is used without a look at its ownership.
TxRingHandlerUnchecked ==
  /\ pc = "idle" /\ queued.tx > 0 /\ fTxRingState' = "idle"
  /\ IF fRunning
     THEN pc' = "tx" /\ wire' = Append(wire, txFrm[fTxDscCur.seg]) /\ UNCHANGED queued
     ELSE queued' = [queued EXCEPT !.tx = @ - 1] /\ UNCHANGED <<pc, wire>>
  /\ UNCHANGED <<reg, memory, cpu, fRunning, fPr1State, setup, fTxRingIndex, fTxDscCur, rx,
                 dscPC, fRxBufQueue, pr0, given, acc, got, aux, n>>

\* TxRingHandler(): the frame is read and sent, the descriptor is given back and
\* the next one read; it goes on as long as the device owns that one.
TxRingHandler ==
  /\ pc = "idle" /\ queued.tx > 0 /\ fTxRingState' = "idle"
  /\ IF fRunning /\ fTxDscCur.own
     THEN pc' = "tx" /\ wire' = Append(wire, txFrm[fTxDscCur.seg]) /\ UNCHANGED queued
     ELSE queued' = [queued EXCEPT !.tx = @ - 1] /\ UNCHANGED <<pc, wire>>
  /\ UNCHANGED <<reg, memory, cpu, fRunning, fPr1State, setup, fTxRingIndex, fTxDscCur, rx,
                 dscPC, fRxBufQueue, pr0, given, acc, got, aux, n>>
TxUpdate ==
  LET next == RingIndexNext(fTxRingIndex, 1)
      own == [txOwn EXCEPT ![fTxRingIndex] = FALSE]
  IN /\ pc = "tx" /\ pc' = "idle" /\ txOwn' = own /\ fTxRingIndex' = next
     /\ fTxDscCur' = [own |-> own[next], seg |-> next]
     /\ IF own[next] THEN fTxRingState' = "busy" /\ UNCHANGED queued
        ELSE UNCHANGED fTxRingState /\ queued' = [queued EXCEPT !.tx = @ - 1]
     /\ UNCHANGED <<reg, txFrm, rxOwn, rxBuf, cpu, fRunning, fPr1State, setup, rx, dscPC,
                    fRxBufQueue, pr0, frames, aux, n>>

\* RxRingHandler(): a frame goes to the buffer of the cached descriptor, and the
\* entry at the ring index is given back; then the next entry is read.
RxRingHandler ==
  /\ pc = "idle" /\ queued.rx > 0 /\ fRxRingState' = "idle"
  /\ IF fRunning /\ fRxDscCur.own /\ fRxBufQueue # <<>>
     THEN /\ pc' = "rx" /\ fRxBufQueue' = Tail(fRxBufQueue)
          /\ rxBuf' = [rxBuf EXCEPT ![fRxDscCur.seg] = Head(fRxBufQueue)]
          /\ rxOwn' = [rxOwn EXCEPT ![fRxRingIndex] = FALSE] /\ UNCHANGED queued
     ELSE /\ queued' = [queued EXCEPT !.rx = @ - 1]
          /\ UNCHANGED <<pc, fRxBufQueue, rxBuf, rxOwn>>
  /\ UNCHANGED <<reg, txOwn, txFrm, cpu, fRunning, fPr1State, setup, tx, fRxRingIndex,
                 fRxDscCur, timer, dscPC, pr0, frames, aux, n>>
\* Mutant of RxUpdate: the ownership of the next entry is read, its buffer is not.
RxUpdateKeepsBuffer ==
  LET next == RingIndexNext(fRxRingIndex, 1)
  IN /\ pc = "rx" /\ pc' = "idle" /\ fRxRingIndex' = next
     /\ fRxDscCur' = [fRxDscCur EXCEPT !.own = rxOwn[next]]
     /\ \/ /\ fRxBufQueue = <<>>
           /\ queued' = [queued EXCEPT !.rx = @ - 1] /\ UNCHANGED <<fRxRingState, timer>>
        \/ /\ fRxBufQueue # <<>> /\ ~rxOwn[next]
           /\ queued' = [queued EXCEPT !.rx = @ - 1] /\ fRxRingState' = "poll" /\ timer' = "on"
        \/ /\ fRxBufQueue # <<>> /\ rxOwn[next]
           /\ fRxRingState' = "busy" /\ UNCHANGED <<queued, timer>>
     /\ UNCHANGED <<reg, memory, cpu, fRunning, fPr1State, setup, tx, dscPC, fRxBufQueue, pr0,
                    frames, aux, n>>

RxUpdate ==
  LET next == RingIndexNext(fRxRingIndex, 1)
  IN /\ pc = "rx" /\ pc' = "idle" /\ fRxRingIndex' = next /\ fRxDscCur' = RxDsc(next)
     /\ \/ /\ fRxBufQueue = <<>>
           /\ queued' = [queued EXCEPT !.rx = @ - 1] /\ UNCHANGED <<fRxRingState, timer>>
        \/ /\ fRxBufQueue # <<>> /\ ~rxOwn[next]
           /\ queued' = [queued EXCEPT !.rx = @ - 1] /\ fRxRingState' = "poll" /\ timer' = "on"
        \/ /\ fRxBufQueue # <<>> /\ rxOwn[next]
           /\ fRxRingState' = "busy" /\ UNCHANGED <<queued, timer>>
     /\ UNCHANGED <<reg, memory, cpu, fRunning, fPr1State, setup, tx, dscPC, fRxBufQueue, pr0,
                    frames, aux, n>>

\* The poll timer expires; RxPollHandler() starts the ring again.
RxPollHandler ==
  /\ pc = "idle" /\ timer = "on" /\ timer' = "off" /\ UNCHANGED fRxBufQueue
  /\ LET go == fRunning /\ fRxRingState = "poll"
         dsc == RxDsc(fRxRingIndex)
     IN IF go THEN StartRxRing(TRUE, dsc) /\ Queued(FALSE, RxStarts(TRUE, dsc))
        ELSE UNCHANGED <<fRxDscCur, fRxRingState, queued>>
  /\ UNCHANGED <<reg, memory, cpu, fRunning, fPr1State, setup, tx, fRxRingIndex, dscPC, pc, pr0,
                 frames, aux, n>>

\* RcvCallback() for a frame: it is dropped when not running, when its address
\* does not match and when the queue is full; the rx ring is started when the tx
\* ring is idle.
Accepts(dst) == dst = "own" \/ (dst = "mcast" /\ filt.mcast) \/ filt.prom
RcvCallback(dst) ==
  /\ pc = "idle" /\ Count("rx", MaxRx)
  /\ LET keep == fRunning /\ Accepts(dst) /\ Len(fRxBufQueue) < RxQueLimit
         start == keep /\ fTxRingState = "idle"
         idle == start /\ fRxRingState = "idle"
         dsc == RxDsc(fRxRingIndex)
     IN /\ fRxBufQueue' = IF keep THEN Append(fRxBufQueue, n'.rx) ELSE fRxBufQueue
        /\ acc' = IF keep THEN Append(acc, n'.rx) ELSE acc
        /\ StartRxRing(idle, dsc) /\ Queued(FALSE, RxStarts(idle, dsc))
  /\ UNCHANGED <<reg, memory, cpu, fRunning, fPr1State, setup, tx, fRxRingIndex, timer, dscPC,
                 pc, pr0, given, wire, got, aux>>

-----------------------------------------------------------------------------
(* AttnHandler().                                                           *)

\* The primary list: PR0 first, descriptors later.  Its read of the next rx
\* descriptor goes to the place of the current one.
AttnRead ==
  /\ pc = "idle" /\ reg.lam /\ reg' = [reg EXCEPT !.lam = FALSE] /\ pc' = "prim"
  /\ pr0' = [NoPr0 EXCEPT !.rset = reg.rset, !.brst = reg.brst, !.cmd = reg.pcmdbp]
  /\ UNCHANGED <<memory, cpu, fRunning, fPr1State, setup, tx, rx, dscPC, queued, fRxBufQueue,
                 frames, aux, n>>
AttnDsc ==
  /\ pc = "prim" /\ pc' = "cmd"
  /\ dscPC' = IF fRunning THEN [tx |-> TxDsc(fTxRingIndex),
                                rx |-> RxDsc(RingIndexNext(fRxRingIndex, 1))]
              ELSE dscPC
  /\ UNCHANGED <<reg, memory, cpu, fRunning, fPr1State, setup, tx, rx, queued, fRxBufQueue, pr0,
                 frames, aux, n>>

\* What a command writes to PR0, PR1 before it.
AnswerMissing(a) == pc' = "idle" /\ UNCHANGED pr0
Answer(a) == pc' = "pr1" /\ pr0' = [NoPr0 EXCEPT !.dni = a = "dni", !.pcei = a = "pcei"]
Command(c) == pc = "cmd" /\ ~pr0.rset /\ ~pr0.brst /\ pr0.cmd = c
Startable == fPr1State = "run" \/ (fPr1State = "ready" /\ fRingValid)
Done == IF Startable THEN "dni" ELSE "pcei"

Reset ==
  /\ StopRings /\ fPcbbValid' = FALSE /\ fRingValid' = FALSE /\ fPr1State' = "ready"
  /\ fTxRingIndex' = 0 /\ fRxRingIndex' = 0 /\ filt' = [filt EXCEPT !.mcast = FALSE]

CmdReset ==
  /\ pc = "cmd" /\ (pr0.rset \/ pr0.brst) /\ Reset
  /\ pc' = "pr1" /\ pr0' = [pr0 EXCEPT !.dni = pr0.rset]
  /\ UNCHANGED <<reg, memory, cpu, dscPC, fRxBufQueue, frames, aux, n>>
\* The self test ends with a return, without an answer.
CmdSelftst ==
  /\ Command("selftst") /\ Reset /\ pc' = "idle"
  /\ aux' = [aux EXCEPT !.selftst = TRUE]
  /\ UNCHANGED <<reg, memory, cpu, dscPC, fRxBufQueue, pr0, frames, n>>
CmdNoop ==
  /\ Command("noop") /\ pc' = "idle"
  /\ UNCHANGED <<reg, memory, cpu, fRunning, fPr1State, setup, tx, rx, dscPC, queued,
                 fRxBufQueue, pr0, frames, aux, n>>

\* GETPCBB, and ExecGetcmd(): without a control block every function fails.  WMAL
\* clears the old list first, so a bad address in the new one leaves none; WMAL and
\* WMODE may set or clear what they write.
Written(c, f, old) == IF c = f THEN BOOLEAN ELSE {old}
CmdSetup(c) ==
  /\ Command(c)
  /\ \/ c = "getpcbb" /\ fPcbbValid' = TRUE /\ Answer("dni") /\ UNCHANGED <<fRingValid, filt>>
     \/ /\ c = "boot" \/ (c \in Funcs /\ (~fPcbbValid \/ c = "bad"))
        /\ Answer("pcei") /\ UNCHANGED setup
     \/ /\ c = "wmal" /\ fPcbbValid /\ Answer("pcei")
        /\ filt' = [filt EXCEPT !.mcast = FALSE] /\ UNCHANGED <<fPcbbValid, fRingValid>>
     \/ /\ c \in Funcs \ {"bad"} /\ fPcbbValid /\ Answer("dni")
        /\ fRingValid' = (fRingValid \/ c = "wrf")
        /\ filt' \in [mcast : Written(c, "wmal", filt.mcast),
                       prom : Written(c, "wmode", filt.prom)]
        /\ UNCHANGED fPcbbValid
  /\ UNCHANGED <<reg, memory, cpu, fRunning, fPr1State, tx, rx, dscPC, queued, fRxBufQueue,
                 frames, aux, n>>

\* START: a noop while running.
CmdStart ==
  /\ Command("start") /\ Answer(Done) /\ UNCHANGED fRxBufQueue
  /\ IF fPr1State = "ready" /\ fRingValid
     THEN LET txi == fTxRingState = "idle"
              rxi == fRxRingState = "idle"
          IN /\ fRunning' = TRUE /\ fPr1State' = "run" /\ fTxRingIndex' = 0 /\ fRxRingIndex' = 0
             /\ StartTxRing(txi, TxDsc(0)) /\ StartRxRing(rxi, RxDsc(0))
             /\ Queued(TxStarts(txi), RxStarts(rxi, RxDsc(0)))
             /\ aux' = [aux EXCEPT !.stale = TxStarts(txi) /\ ~txOwn[0]] /\ UNCHANGED timer
     ELSE UNCHANGED <<fRunning, fPr1State, tx, rx, queued, aux>>
  /\ UNCHANGED <<reg, memory, cpu, setup, dscPC, frames, n>>

\* PDMD: polling ends, both rings are started with the descriptors of the
\* primary list.
CmdPdmd ==
  /\ Command("pdmd") /\ Answer("dni") /\ UNCHANGED fRxBufQueue
  /\ IF fRunning
     THEN LET txi == fTxRingState = "idle"
              rxi == fRxRingState # "busy"
          IN /\ StartTxRing(txi, dscPC.tx) /\ StartRxRing(rxi, dscPC.rx)
             /\ Queued(TxStarts(txi), RxStarts(rxi, dscPC.rx))
             /\ timer' = IF fRxRingState = "poll" THEN "off" ELSE timer
             /\ aux' = [aux EXCEPT !.pdmdRx = @ \/ (rxi /\ queued'.rx > 0)]
     ELSE UNCHANGED <<fTxDscCur, fTxRingState, fRxDscCur, fRxRingState, queued, timer, aux>>
  /\ UNCHANGED <<reg, memory, cpu, fRunning, fPr1State, setup, fTxRingIndex, fRxRingIndex, dscPC,
                 frames, n>>

\* HALT of a DELUA, and STOP, which answers with an error.
CmdHalt ==
  /\ Command("halt") /\ Answer("dni")
  /\ IF Delua THEN StopRings /\ fPr1State' = "phalt"
     ELSE UNCHANGED <<fRunning, fPr1State, fTxRingState, fRxRingState, timer, fTxDscCur,
                      fRxDscCur, queued>>
  /\ UNCHANGED <<reg, memory, cpu, setup, fTxRingIndex, fRxRingIndex, dscPC, fRxBufQueue, frames,
                 aux, n>>
CmdStop ==
  /\ Command("stop") /\ Answer("pcei")
  /\ IF fPr1State = "run" THEN StopRings /\ fPr1State' = "ready"
     ELSE UNCHANGED <<fRunning, fPr1State, fTxRingState, fRxRingState, timer, fTxDscCur,
                      fRxDscCur, queued>>
  /\ UNCHANGED <<reg, memory, cpu, setup, fTxRingIndex, fRxRingIndex, dscPC, fRxBufQueue, frames,
                 aux, n>>

WritePr1 ==
  /\ pc = "pr1" /\ pc' = "pr0" /\ reg' = [reg EXCEPT !.state = fPr1State]
  /\ UNCHANGED <<memory, cpu, fRunning, fPr1State, setup, tx, rx, dscPC, queued, fRxBufQueue,
                 pr0, frames, aux, n>>

\* The answer ends the command; a PDMD written meanwhile starts anew, unless the
\* answer is an error.
RestartsNever == FALSE
Restarts == pr0.dni /\ reg.pcmdwwb /\ reg.pcmd = "pdmd"
WritePr0 ==
  /\ pc = "pr0" /\ pc' = "idle"
  /\ reg' = [reg EXCEPT !.pcmdwwb = @ /\ ~(pr0.dni \/ pr0.pcei),
                        !.pcmdbp = IF Restarts THEN "pdmd" ELSE @,
                        !.lam = @ \/ Restarts,
                        !.busy = @ /\ ~(pr0.pcei \/ (pr0.dni /\ ~Restarts) \/ pr0.rset \/ pr0.brst),
                        !.rset = @ /\ ~pr0.rset, !.brst = @ /\ ~pr0.brst]
  /\ aux' = [aux EXCEPT !.pdmdLost = @ \/ (pr0.pcei /\ reg.pcmdwwb), !.early = @ \/ reg.lam]
  /\ UNCHANGED <<memory, cpu, fRunning, fPr1State, setup, tx, rx, dscPC, queued, fRxBufQueue,
                 pr0, frames, n>>

-----------------------------------------------------------------------------
Cpu == \/ \E c \in Cmds : CpuCmd(c)
       \/ CpuPdmd \/ CpuGive \/ CpuTake \/ \E f \in {"rset", "brst"} : CpuReset(f)
Commands == \/ CmdReset \/ CmdSelftst \/ CmdNoop \/ \E c \in Cmds : CmdSetup(c)
            \/ CmdStart \/ CmdPdmd \/ CmdHalt \/ CmdStop
Server == \/ AttnRead \/ AttnDsc \/ Commands \/ WritePr1 \/ WritePr0
          \/ TxRingHandler \/ TxUpdate \/ RxRingHandler \/ RxUpdate \/ RxPollHandler
          \/ \E dst \in {"own", "mcast", "other"} : RcvCallback(dst)
Next == Cpu \/ Server
Spec == Init /\ [][Next]_vars

-----------------------------------------------------------------------------
(* Correctness.  Six defects of the code are met by conditions: the self    *)
(* test is not answered, a PDMD may start the rx ring with the descriptor   *)
(* of the wrong entry, one written while a failing command is under way is  *)
(* dropped, a reset may come while a handler is at work, its busy may be    *)
(* ended early by the answer to the command before it, and START decides by *)
(* a descriptor read before it whether there is a frame to send.            *)

\* Variables have their types, and the handlers' indices are within the rings.
TypeOK ==
  /\ reg.state \in {"reset", "ready", "run", "phalt"}
  /\ fPr1State \in {"ready", "run", "phalt"} /\ (fRunning <=> fPr1State = "run")
  /\ {fTxRingIndex, fRxRingIndex, fTxDscCur.seg, fRxDscCur.seg} \subseteq Entries
  /\ queued \in [tx : Nat, rx : Nat] /\ timer \in {"off", "on"}
  /\ fTxRingState \in {"idle", "busy"} /\ fRxRingState \in {"idle", "busy", "poll"}
  /\ Len(fRxBufQueue) <= RxQueLimit
  /\ pc \in {"idle", "prim", "cmd", "pr1", "pr0", "tx", "rx"}

\* Every frame the driver gave was sent or is in the ring, in order and once,
\* although ring handlers left over from before a stop or a reset may run beside
\* new ones: what was sent is a prefix of what was given, and the entries from
\* fTxRingIndex on which the device owns hold the rest, one frame each.
GivenBack == Len(wire) - (IF pc = "tx" THEN 1 ELSE 0)
TxExact ==
  fRunning /\ cpu.run =>
    /\ GivenBack <= Len(given) /\ Len(given) <= GivenBack + RingSize
    /\ IsPrefix(wire, given)
    /\ \A k \in Entries :
         LET e == RingIndexNext(fTxRingIndex, k)
         IN /\ txOwn[e] <=> GivenBack + k < Len(given)
            /\ txOwn[e] => txFrm[e] = given[GivenBack + k + 1]

\* A frame in the ring for which the driver did its PDMD is going to be sent: an
\* attention is pending, a handler is at work or queued.  The port's busy, which
\* keeps the driver from writing over that PDMD, must not have been ended early.
TxNotStranded ==
  fRunning /\ cpu.run /\ txOwn[fTxRingIndex] /\ ~cpu.kick
    /\ ~aux.pdmdLost /\ ~aux.stale /\ ~aux.early
    => reg.lam \/ pc # "idle" \/ queued.tx > 0

\* Every frame accepted is read by the driver, in order and once, or is in the
\* buffer of its entry or in the queue: the entries from the driver's one on which
\* the driver owns hold the frames moved from the queue and not read yet.
Moved == Len(acc) - Len(fRxBufQueue)
RxInOrder ==
  fRunning /\ cpu.run =>
    /\ Len(got) <= Moved /\ Moved <= Len(got) + RingSize
    /\ IsPrefix(got, acc) /\ fRxBufQueue = SubSeq(acc, Moved + 1, Len(acc))
    /\ \A k \in Entries :
         LET e == RingIndexNext(cpu.rx, k)
         IN /\ ~rxOwn[e] <=> Len(got) + k < Moved
            /\ ~rxOwn[e] => rxBuf[e] = acc[Len(got) + k + 1]
RxExact == aux.pdmdRx \/ RxInOrder

\* A ring that is not idle has a handler queued or its timer on; otherwise it
\* would never be started again.
RingAlive ==
  /\ fTxRingState = "busy" => queued.tx > 0
  /\ fRxRingState = "busy" => queued.rx > 0
  /\ fRxRingState = "poll" => timer = "on"

\* A port that is busy or in reset gets an answer.
PortAnswered ==
  (reg.busy \/ reg.state = "reset") /\ ~aux.selftst /\ ~aux.reset => reg.lam \/ pc # "idle"

\* Types, rings that can be started again and a port that can be used again.
PortInv == TypeOK /\ RingAlive /\ PortAnswered
=============================================================================
