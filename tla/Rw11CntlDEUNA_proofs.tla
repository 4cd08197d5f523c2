------------------------ MODULE Rw11CntlDEUNA_proofs ------------------------
(***************************************************************************)
(* The ethernet controller's rings can always be started again, its port   *)
(* can always be used again, no frame is forgotten in the tx ring, and     *)
(* frames pass both rings in order and once, for every ring size, queue    *)
(* limit and sequence of driver commands, resets, frames and poll timeouts.*)
(***************************************************************************)
EXTENDS Rw11CntlDEUNA, SequenceTheorems, TLAPS

\* Port commands, descriptors, and the records of the registers, of PR0 as the
\* handler sees it, of the defects met and of the driver.
PortCmds == Cmds \cup {"noop", "pdmd"}
Dsc == [own : BOOLEAN, seg : Entries]
Regs == [busy : BOOLEAN, pcmdbp : PortCmds, pcmd : PortCmds, pcmdwwb : BOOLEAN,
         rset : BOOLEAN, brst : BOOLEAN, state : {"reset", "ready", "run", "phalt"},
         lam : BOOLEAN]
Pr0s == [rset : BOOLEAN, brst : BOOLEAN, cmd : PortCmds, dni : BOOLEAN, pcei : BOOLEAN]
Auxs == [selftst : BOOLEAN, pdmdRx : BOOLEAN, pdmdLost : BOOLEAN, reset : BOOLEAN,
         stale : BOOLEAN, early : BOOLEAN]
Drivers == [run : BOOLEAN, tx : Entries, rx : Entries, kick : BOOLEAN]
\* What the bounds count.
Counts == [cmd : Nat, pdmd : Nat, tx : Nat, rx : Nat, reset : Nat]

\* The types of everything the handlers read.
Types ==
  /\ reg \in Regs
  /\ txOwn \in [Entries -> BOOLEAN] /\ rxOwn \in [Entries -> BOOLEAN]
  /\ cpu \in Drivers
  /\ fRunning \in BOOLEAN /\ fPr1State \in {"ready", "run", "phalt"}
  /\ fTxRingIndex \in Entries /\ fRxRingIndex \in Entries
  /\ dscPC \in [tx : Dsc, rx : Dsc] /\ fTxDscCur \in Dsc /\ fRxDscCur \in Dsc
  /\ fTxRingState \in {"idle", "busy"} /\ fRxRingState \in {"idle", "busy", "poll"}
  /\ queued \in [tx : Nat, rx : Nat] /\ timer \in {"off", "on"}
  /\ fRxBufQueue \in Seq(Nat)
  /\ pc \in {"idle", "prim", "cmd", "pr1", "pr0", "tx", "rx"}
  /\ pr0 \in Pr0s /\ aux \in Auxs
  /\ n \in Counts

\* A ring handler at work is still queued and has set its ring to idle.
Rings ==
  /\ fRunning <=> fPr1State = "run"
  /\ Len(fRxBufQueue) <= RxQueLimit
  /\ fTxRingState = "busy" => queued.tx > 0
  /\ fRxRingState = "busy" => queued.rx > 0
  /\ fRxRingState = "poll" => timer = "on" /\ fRunning
  /\ pc = "tx" => queued.tx > 0 /\ fTxRingState = "idle"
  /\ pc = "rx" => queued.rx > 0 /\ fRxRingState = "idle" /\ fRunning

\* A port that waits has an attention pending or a handler at work: the handler
\* answers whatever it read, and a reset it did not read is pending after it.
Waiting == reg.busy \/ reg.state = "reset"
Excused == aux.selftst \/ aux.reset

Port ==
  /\ reg.lam /\ Waiting =>
       reg.rset \/ reg.brst \/ reg.pcmdbp # "noop" \/ Excused
  /\ Waiting /\ pc \in {"idle", "tx", "rx"} => reg.lam \/ Excused
  /\ Waiting /\ pc \in {"prim", "cmd"} /\ ~pr0.rset /\ ~pr0.brst /\ pr0.cmd = "noop"
       => reg.lam \/ Excused
  /\ pc \in {"pr1", "pr0"} => pr0.dni \/ pr0.pcei \/ pr0.rset \/ pr0.brst
  /\ pc \in {"prim", "cmd"} => ~pr0.pcei
  /\ ~(pr0.dni /\ pr0.pcei)
  /\ pc = "pr0" /\ reg.state = "reset" =>
       Excused \/ (reg.lam /\ ((reg.rset /\ ~pr0.rset) \/ (reg.brst /\ ~pr0.brst)))

\* The port is busy while a command is pending or at work, except that a reset
\* may leave behind a PDMD with the port free.
Handling == pc \in {"prim", "cmd", "pr1", "pr0"}
Busy ==
  ~aux.early =>
  /\ reg.lam => reg.busy \/ (reg.pcmdbp = "pdmd" /\ ~fRunning)
  /\ Handling =>
       reg.busy \/ (~fRunning /\ (pc \in {"prim", "cmd"} => pr0.cmd # "start"))
  /\ reg.busy /\ fRunning /\ ~Handling => reg.lam
  /\ reg.lam => reg.rset \/ reg.brst \/ reg.pcmdbp # "noop" \/ pc = "pr0"
  /\ pc \in {"prim", "cmd"} => pr0.rset \/ pr0.brst \/ pr0.cmd # "noop"

\* The tx ring is busy only while the device runs, and then with a descriptor
\* it owns; a reset stops the device until the handler is through.
TxRing ==
  /\ fTxRingState = "busy" \/ pc = "tx" => fRunning
  /\ fTxRingState = "busy" /\ ~aux.stale => fTxDscCur.own
  /\ pc \in {"pr1", "pr0"} /\ (pr0.rset \/ pr0.brst) => ~fRunning
  /\ cpu.run => reg.state # "reset"

\* Where the PDMD for a frame in the ring can be: it waits for the answer to
\* the command at work, or for the handler, or it has started the ring.
Asked == reg.busy /\ reg.pcmdwwb /\ reg.pcmd = "pdmd"
OnItsWay ==
  \/ Asked
  \/ reg.lam /\ reg.pcmdbp = "pdmd"
  \/ fTxRingState = "busy"
  \/ pc = "tx"
  \/ pc \in {"prim", "cmd"} /\ (pr0.rset \/ pr0.brst)
  \/ pc = "prim" /\ pr0.cmd = "pdmd"
  \/ pc = "cmd" /\ pr0.cmd = "pdmd" /\ dscPC.tx.own
\* The driver has done its PDMD, and it was not lost.
Kicked == cpu.run /\ ~cpu.kick /\ ~aux.pdmdLost /\ ~aux.early
\* A frame in the ring is on its way; one given while START is under way is found
\* by the PDMD that waits for its answer.
Demand ==
  /\ Kicked /\ ~aux.stale /\ fRunning /\ txOwn[fTxRingIndex] => OnItsWay
  /\ Kicked /\ (\E i \in Entries : txOwn[i]) =>
       /\ reg.lam /\ reg.pcmdbp = "start" => Asked
       /\ pc \in {"prim", "cmd"} /\ pr0.cmd = "start" => Asked \/ pr0.rset \/ pr0.brst

Inv == Types /\ Rings /\ Port /\ Busy /\ TxRing /\ Demand

-----------------------------------------------------------------------------
(* The operators of the model.                                              *)

\* An index moves on within its ring.
LEMMA NextEntry == ASSUME NEW i \in Entries PROVE RingIndexNext(i, 1) \in Entries
  BY DeunaAssumption DEF Entries, RingIndexNext

\* Index 0 is an entry.
LEMMA Zero == 0 \in Entries
  BY DeunaAssumption DEF Entries

\* What the driver writes as a command is one, and neither a noop nor a PDMD.
LEMMA CmdIsCmd == ASSUME NEW c \in Cmds PROVE c \in PortCmds /\ c \notin {"noop", "pdmd"}
  BY CmdsAssumption DEF Funcs, PortCmds

\* Counting keeps the counters.
LEMMA CountType ==
  ASSUME n \in Counts, NEW what \in {"cmd", "pdmd", "tx", "rx", "reset"}, NEW max,
         Count(what, max)
  PROVE  n' \in Counts
<1>1. CASE what = "cmd"
  BY <1>1 DEF Count, Counts
<1>2. CASE what = "pdmd"
  BY <1>2 DEF Count, Counts
<1>3. CASE what = "tx"
  BY <1>3 DEF Count, Counts
<1>4. CASE what = "rx"
  BY <1>4 DEF Count, Counts
<1>5. CASE what = "reset"
  BY <1>5 DEF Count, Counts
<1> QED
  BY <1>1, <1>2, <1>3, <1>4, <1>5

\* An answer is DNI or PCEI and acknowledges no reset.
LEMMA AnswerFacts ==
  ASSUME NEW a \in {"dni", "pcei"}, Answer(a)
  PROVE  /\ pr0' \in Pr0s /\ pc' = "pr1"
         /\ ~pr0'.rset /\ ~pr0'.brst /\ (pr0'.dni <=> ~pr0'.pcei)
<1>1. CASE a = "dni"
  <2>1. pr0' = [rset |-> FALSE, brst |-> FALSE, cmd |-> "noop", dni |-> TRUE, pcei |-> FALSE]
    BY <1>1 DEF Answer, NoPr0
  <2>2. pr0' \in Pr0s
    BY <2>1 DEF Pr0s, PortCmds
  <2>3. ~pr0'.rset /\ ~pr0'.brst /\ pr0'.dni /\ ~pr0'.pcei
    BY <2>1, Zenon
  <2> QED
    BY <2>2, <2>3 DEF Answer
<1>2. CASE a = "pcei"
  <2>1. pr0' = [rset |-> FALSE, brst |-> FALSE, cmd |-> "noop", dni |-> FALSE, pcei |-> TRUE]
    BY <1>2 DEF Answer, NoPr0
  <2>2. pr0' \in Pr0s
    BY <2>1 DEF Pr0s, PortCmds
  <2>3. ~pr0'.rset /\ ~pr0'.brst /\ ~pr0'.dni /\ pr0'.pcei
    BY <2>1, Zenon
  <2> QED
    BY <2>2, <2>3 DEF Answer
<1> QED
  BY <1>1, <1>2

\* A write of a port command to PR0.
LEMMA WriteFacts ==
  ASSUME reg \in Regs, NEW c \in PortCmds, WritePcmd(c)
  PROVE  /\ reg' \in Regs
         /\ reg'.state = reg.state /\ reg'.rset = reg.rset /\ reg'.brst = reg.brst
         /\ reg.state # "reset" /\ reg.busy =>
              /\ reg'.busy /\ reg'.pcmdwwb /\ reg'.pcmd = c
              /\ reg'.pcmdbp = reg.pcmdbp /\ reg'.lam = reg.lam
         /\ reg.state # "reset" /\ ~reg.busy =>
              /\ reg'.busy /\ reg'.lam /\ reg'.pcmdbp = c
  BY DEF WritePcmd, Regs

\* The two resets.
LEMMA ResetFacts ==
  ASSUME reg \in Regs, aux \in Auxs, pr0 \in Pr0s, NEW f \in {"rset", "brst"}, CpuReset(f)
  PROVE  reg' \in Regs /\ aux' \in Auxs
<1>1. CASE f = "rset"
  <2>1. reg' \in Regs
    BY ZenonT(60), <1>1 DEF CpuReset, Regs
  <2>2. aux' \in Auxs
    BY ZenonT(60), <1>1 DEF CpuReset, Auxs, Pr0s
  <2> QED
    BY <2>1, <2>2
<1>2. CASE f = "brst"
  <2>1. reg' \in Regs
    BY ZenonT(60), <1>2 DEF CpuReset, Regs
  <2>2. aux' \in Auxs
    BY ZenonT(60), <1>2 DEF CpuReset, Auxs, Pr0s
  <2> QED
    BY <2>1, <2>2
<1> QED
  BY <1>1, <1>2

\* The receive queue when a frame is taken and when one is added.
LEMMA QueueFacts ==
  ASSUME NEW q \in Seq(Nat), NEW e \in Nat
  PROVE  /\ Append(q, e) \in Seq(Nat) /\ Len(Append(q, e)) = Len(q) + 1
         /\ q # <<>> => Tail(q) \in Seq(Nat) /\ Len(Tail(q)) < Len(q)
         /\ Len(q) \in Nat
<1>1. Append(q, e) \in Seq(Nat) /\ Len(Append(q, e)) = Len(q) + 1
  BY AppendProperties
<1>2. Len(q) \in Nat
  BY LenProperties
<1>3. ASSUME q # <<>> PROVE Tail(q) \in Seq(Nat) /\ Len(Tail(q)) < Len(q)
  BY <1>2, <1>3, HeadTailProperties
<1> QED
  BY <1>1, <1>2, <1>3

\* State READY, in which Start() leaves the controller, satisfies the invariant.
LEMMA InvInit == Init => Inv
<1> SUFFICES ASSUME Init PROVE Inv
  OBVIOUS
<1>1. Types
  <2>1. reg \in Regs
    BY DEF Init, Regs, PortCmds
  <2>2. pr0 \in Pr0s
    BY DEF Init, NoPr0, Pr0s, PortCmds
  <2>3. aux \in Auxs
    BY DEF Init, Auxs
  <2>4. cpu \in Drivers
    BY Zero DEF Init, Drivers
  <2>5. dscPC \in [tx : Dsc, rx : Dsc] /\ fTxDscCur \in Dsc /\ fRxDscCur \in Dsc
    BY Zero DEF Init, NoDsc, Dsc
  <2>6. n \in Counts
    BY DEF Init, Counts
  <2>7. txOwn \in [Entries -> BOOLEAN] /\ rxOwn \in [Entries -> BOOLEAN]
    BY DEF Init
  <2>8. fRxBufQueue \in Seq(Nat) /\ queued \in [tx : Nat, rx : Nat]
    BY DEF Init
  <2> QED
    BY <2>1, <2>2, <2>3, <2>4, <2>5, <2>6, <2>7, <2>8, Zero DEF Init, Types
<1>2. Rings
  BY DeunaAssumption DEF Init, Rings
<1>3. Port /\ Busy /\ TxRing
  BY DEF Init, NoPr0, Port, Waiting, Excused, Busy, Handling, TxRing
<1>4. Demand
  BY DEF Init, Demand, Kicked
<1> QED
  BY <1>1, <1>2, <1>3, <1>4 DEF Inv

-----------------------------------------------------------------------------
(* One step.                                                                *)

\* A command written to PR0 makes the port busy and raises the attention.
LEMMA CpuCmdStep ==
  ASSUME Inv, NEW c \in Cmds, CpuCmd(c)
  PROVE  Inv'
<1> USE DEF memory, setup, tx, rx, frames
<1>1. Types'
  <2>1. reg' \in Regs
    BY CmdIsCmd, WriteFacts DEF Inv, Types, CpuCmd
  <2>2. cpu' \in Drivers
    <3>1. CASE c = "start"
      BY <3>1, Zero DEF CpuCmd, Drivers
    <3>2. CASE c # "start"
      BY <3>2 DEF Inv, Types, CpuCmd, Drivers
    <3> QED
      BY <3>1, <3>2
  <2>3. n' \in Counts
    BY CountType DEF Inv, Types, CpuCmd
  <2>4. txOwn' \in [Entries -> BOOLEAN] /\ rxOwn' \in [Entries -> BOOLEAN]
    BY DEF Inv, Types, CpuCmd, memory
  <2> QED
    BY <2>1, <2>2, <2>3, <2>4 DEF Inv, Types, CpuCmd, Host
<1>2. Rings'
  BY DEF Inv, Types, Rings, CpuCmd, Host
<1>3. Port'
  BY CmdIsCmd, WriteFacts DEF Inv, Types, Regs, Port, Waiting, Excused, CpuCmd, Host
<1>4. Busy'
  BY CmdIsCmd, WriteFacts DEF Inv, Types, Regs, Busy, Handling, CpuCmd, Host
<1>5. TxRing'
  BY CmdIsCmd, WriteFacts DEF Inv, Types, Regs, Drivers, TxRing, CpuCmd, Host
<1>6. Demand'
  <2>1. CASE c = "start"
    BY <2>1, Zero DEF Inv, Types, Drivers, CpuCmd, Demand, Kicked, Host
  <2>2. CASE c # "start"
    BY <2>2, CmdIsCmd, WriteFacts DEF Inv, Types, Regs, Drivers, Demand, Kicked, Asked,
       OnItsWay,
       Busy, Handling, CpuCmd, Host
  <2> QED
    BY <2>1, <2>2
<1> QED
  BY <1>1, <1>2, <1>3, <1>4, <1>5, <1>6 DEF Inv

\* A PDMD written to a busy port is remembered, else it is taken up.
LEMMA CpuPdmdStep ==
  ASSUME Inv, CpuPdmd
  PROVE  Inv'
<1> USE DEF memory, setup, tx, rx, frames
<1>1. Types'
  <2>1. reg' \in Regs
    BY WriteFacts DEF Inv, Types, PortCmds, CpuPdmd
  <2>2. cpu' \in Drivers
    BY DEF Inv, Types, CpuPdmd, Drivers
  <2>3. n' \in Counts
    BY CountType DEF Inv, Types, CpuPdmd
  <2> QED
    BY <2>1, <2>2, <2>3 DEF Inv, Types, CpuPdmd, WritePcmd, Host
<1>2. Rings'
  BY DEF Inv, Types, Rings, CpuPdmd, WritePcmd, Host
<1>3. Port'
  BY DEF Inv, Types, Regs, Pr0s, Auxs, Port, Rings, Waiting, Excused, CpuPdmd, WritePcmd,
     Host
<1>4. Busy'
  BY DEF Inv, Types, Regs, Pr0s, Auxs, Busy, TxRing, Port, Handling, CpuPdmd, WritePcmd,
     Host
<1>5. TxRing'
  BY DEF Inv, Types, Regs, Pr0s, Auxs, Drivers, Dsc, TxRing, CpuPdmd, WritePcmd, Host
<1>6. Demand'
  BY DEF Inv, Types, Regs, Pr0s, Auxs, Drivers, Demand, Kicked, Asked, OnItsWay, Busy,
     Handling, TxRing, Port, CpuPdmd, WritePcmd, Host
<1> QED
  BY <1>1, <1>2, <1>3, <1>4, <1>5, <1>6 DEF Inv

\* A frame put into the ring waits for the driver's PDMD.
LEMMA CpuGiveStep ==
  ASSUME Inv, CpuGive
  PROVE  Inv'
<1> USE DEF memory, setup, tx, rx, frames
<1>1. Types'
  <2>1. cpu' \in Drivers
    BY NextEntry DEF Inv, Types, CpuGive, Drivers
  <2>2. n' \in Counts
    BY CountType DEF Inv, Types, CpuGive
  <2>3. txOwn' \in [Entries -> BOOLEAN]
    BY DEF Inv, Types, CpuGive, Drivers
  <2> QED
    BY <2>1, <2>2, <2>3 DEF Inv, Types, CpuGive, Host
<1>2. Rings'
  BY DEF Inv, Types, Rings, CpuGive, Host
<1>3. Port'
  BY DEF Inv, Types, Regs, Pr0s, Auxs, Port, Rings, Waiting, Excused, CpuGive, Host
<1>4. Busy'
  BY DEF Inv, Types, Regs, Pr0s, Auxs, Busy, TxRing, Port, Handling, CpuGive, Host
<1>5. TxRing'
  BY DEF Inv, Types, Regs, Pr0s, Auxs, Drivers, Dsc, TxRing, CpuGive, Host
<1>6. Demand'
  BY DEF Inv, Types, Regs, Pr0s, Auxs, Drivers, Demand, Kicked, Asked, OnItsWay, Busy,
     Handling, TxRing, Port, CpuGive, Host
<1> QED
  BY <1>1, <1>2, <1>3, <1>4, <1>5, <1>6 DEF Inv

\* A filled buffer is taken.
LEMMA CpuTakeStep ==
  ASSUME Inv, CpuTake
  PROVE  Inv'
<1> USE DEF memory, setup, tx, rx, frames
<1>1. Types'
  <2>1. cpu' \in Drivers
    BY NextEntry DEF Inv, Types, CpuTake, Drivers
  <2>2. rxOwn' \in [Entries -> BOOLEAN]
    BY DEF Inv, Types, CpuTake, Drivers
  <2> QED
    BY <2>1, <2>2 DEF Inv, Types, CpuTake, Host
<1>2. Rings'
  BY DEF Inv, Types, Rings, CpuTake, Host
<1>3. Port'
  BY DEF Inv, Types, Regs, Pr0s, Auxs, Port, Rings, Waiting, Excused, CpuTake, Host
<1>4. Busy'
  BY DEF Inv, Types, Regs, Pr0s, Auxs, Busy, TxRing, Port, Handling, CpuTake, Host
<1>5. TxRing'
  BY DEF Inv, Types, Regs, Pr0s, Auxs, Drivers, Dsc, TxRing, CpuTake, Host
<1>6. Demand'
  BY DEF Inv, Types, Regs, Pr0s, Auxs, Drivers, Demand, Kicked, Asked, OnItsWay, Busy,
     Handling, TxRing, Port, CpuTake, Host
<1> QED
  BY <1>1, <1>2, <1>3, <1>4, <1>5, <1>6 DEF Inv

\* A reset makes the port busy, raises the attention and ends what the driver does.
LEMMA CpuResetStep ==
  ASSUME Inv, NEW f \in {"rset", "brst"}, CpuReset(f)
  PROVE  Inv'
<1> USE DEF memory, setup, tx, rx, frames
<1>1. Types'
  <2>1. reg' \in Regs /\ aux' \in Auxs
    BY ResetFacts DEF Inv, Types
  <2>2. cpu' \in Drivers
    BY DEF Inv, Types, CpuReset, Drivers
  <2>3. n' \in Counts
    BY CountType DEF Inv, Types, CpuReset
  <2> QED
    BY <2>1, <2>2, <2>3, Zero DEF Inv, Types, CpuReset, Host
<1>2. Rings'
  BY DEF Inv, Types, Rings, CpuReset, Host
<1>3. Port'
  BY DEF Inv, Types, Regs, Pr0s, Auxs, Port, Rings, Waiting, Excused, CpuReset, Host
<1>4. Busy'
  BY DEF Inv, Types, Regs, Pr0s, Auxs, Busy, TxRing, Port, Handling, CpuReset, Host
<1>5. TxRing'
  BY DEF Inv, Types, Regs, Pr0s, Auxs, Drivers, Dsc, TxRing, CpuReset, Host
<1>6. Demand'
  BY DEF Inv, Types, Regs, Pr0s, Auxs, Drivers, Demand, Kicked, Asked, OnItsWay, Busy,
     Handling, TxRing, Port, CpuReset, Host
<1> QED
  BY <1>1, <1>2, <1>3, <1>4, <1>5, <1>6 DEF Inv

\* The primary list takes the attention and reads PR0.
LEMMA AttnReadStep ==
  ASSUME Inv, AttnRead
  PROVE  Inv'
<1> USE DEF memory, setup, tx, rx, frames
<1>1. Types'
  <2>1. reg' \in Regs
    BY DEF Inv, Types, AttnRead, Regs
  <2>2. pr0' \in Pr0s
    BY DEF Inv, Types, AttnRead, Regs, Pr0s, NoPr0
  <2> QED
    BY <2>1, <2>2 DEF Inv, Types, AttnRead, NoPr0
<1>2. Rings'
  BY DEF Inv, Types, Rings, AttnRead, NoPr0
<1>3. Port'
  BY DEF Inv, Types, Regs, Pr0s, Auxs, Port, Rings, Waiting, Excused, AttnRead, NoPr0
<1>4. Busy'
  BY DEF Inv, Types, Regs, Pr0s, Auxs, Busy, TxRing, Port, Handling, AttnRead, NoPr0
<1>5. TxRing'
  BY DEF Inv, Types, Regs, Pr0s, Auxs, Drivers, Dsc, TxRing, AttnRead, NoPr0
<1>6. Demand'
  BY DEF Inv, Types, Regs, Pr0s, Auxs, Drivers, Demand, Kicked, Asked, OnItsWay, Busy,
     Handling, TxRing, Port, AttnRead, NoPr0
<1> QED
  BY <1>1, <1>2, <1>3, <1>4, <1>5, <1>6 DEF Inv

\* The primary list reads the descriptors.
LEMMA AttnDscStep ==
  ASSUME Inv, AttnDsc
  PROVE  Inv'
<1> USE DEF memory, setup, tx, rx, frames
<1>1. Types'
  <2>1. dscPC' \in [tx : Dsc, rx : Dsc]
    BY NextEntry DEF Inv, Types, AttnDsc, TxDsc, RxDsc, Dsc
  <2> QED
    BY <2>1 DEF Inv, Types, AttnDsc, TxDsc
<1>2. Rings'
  BY DEF Inv, Types, Rings, AttnDsc, TxDsc
<1>3. Port'
  BY DEF Inv, Types, Regs, Pr0s, Auxs, Port, Rings, Waiting, Excused, AttnDsc, TxDsc
<1>4. Busy'
  BY DEF Inv, Types, Regs, Pr0s, Auxs, Busy, TxRing, Port, Handling, AttnDsc, TxDsc
<1>5. TxRing'
  BY DEF Inv, Types, Regs, Pr0s, Auxs, Drivers, Dsc, TxRing, AttnDsc, TxDsc
<1>6. Demand'
  BY DEF Inv, Types, Regs, Pr0s, Auxs, Drivers, Demand, Kicked, Asked, OnItsWay, Busy,
     Handling, TxRing, Port, AttnDsc, TxDsc
<1> QED
  BY <1>1, <1>2, <1>3, <1>4, <1>5, <1>6 DEF Inv

\* A reset stops the device.
LEMMA CmdResetStep ==
  ASSUME Inv, CmdReset
  PROVE  Inv'
<1> USE DEF memory, setup, tx, rx, frames
<1>1. Types'
  <2>1. pr0' \in Pr0s
    BY DEF Inv, Types, CmdReset, Pr0s
  <2> QED
    BY <2>1, Zero DEF Inv, Types, CmdReset, Reset, StopRings
<1>2. Rings'
  BY DEF Inv, Types, Rings, CmdReset, Reset, StopRings
<1>3. Port'
  BY DEF Inv, Types, Regs, Pr0s, Auxs, Port, Rings, Waiting, Excused, CmdReset, Reset,
     StopRings
<1>4. Busy'
  BY DEF Inv, Types, Regs, Pr0s, Auxs, Busy, TxRing, Port, Handling, CmdReset, Reset,
     StopRings
<1>5. TxRing'
  BY DEF Inv, Types, Regs, Pr0s, Auxs, Drivers, Dsc, TxRing, CmdReset, Reset, StopRings
<1>6. Demand'
  BY DEF Inv, Types, Regs, Pr0s, Auxs, Drivers, Demand, Kicked, Asked, OnItsWay, Busy,
     Handling, TxRing, Port, CmdReset, Reset, StopRings
<1> QED
  BY <1>1, <1>2, <1>3, <1>4, <1>5, <1>6 DEF Inv

\* The self test stops the device and is not answered.
LEMMA CmdSelftstStep ==
  ASSUME Inv, CmdSelftst
  PROVE  Inv'
<1> USE DEF memory, setup, tx, rx, frames
<1>1. Types'
  <2>1. aux' \in Auxs
    BY DEF Inv, Types, CmdSelftst, Auxs
  <2> QED
    BY <2>1, Zero DEF Inv, Types, CmdSelftst, Command, Reset, StopRings
<1>2. Rings'
  BY DEF Inv, Types, Rings, CmdSelftst, Command, Reset, StopRings
<1>3. Port'
  BY DEF Inv, Types, Regs, Pr0s, Auxs, Port, Rings, Waiting, Excused, CmdSelftst, Command,
     Reset, StopRings
<1>4. Busy'
  BY DEF Inv, Types, Regs, Pr0s, Auxs, Busy, TxRing, Port, Handling, CmdSelftst, Command,
     Reset, StopRings
<1>5. TxRing'
  BY DEF Inv, Types, Regs, Pr0s, Auxs, Drivers, Dsc, TxRing, CmdSelftst, Command, Reset,
     StopRings
<1>6. Demand'
  BY DEF Inv, Types, Regs, Pr0s, Auxs, Drivers, Demand, Kicked, Asked, OnItsWay, Busy,
     Handling, TxRing, Port, CmdSelftst, Command, Reset, StopRings
<1> QED
  BY <1>1, <1>2, <1>3, <1>4, <1>5, <1>6 DEF Inv

\* A noop is never found under way unless the port is at rest.
LEMMA CmdNoopStep ==
  ASSUME Inv, CmdNoop
  PROVE  Inv'
<1> USE DEF memory, setup, tx, rx, frames
<1>1. Types'
  <2> QED
    BY DEF Inv, Types, CmdNoop, Command
<1>2. Rings'
  BY DEF Inv, Types, Rings, CmdNoop, Command
<1>3. Port'
  BY DEF Inv, Types, Regs, Pr0s, Auxs, Port, Rings, Waiting, Excused, CmdNoop, Command
<1>4. Busy'
  BY DEF Inv, Types, Regs, Pr0s, Auxs, Busy, TxRing, Port, Handling, CmdNoop, Command
<1>5. TxRing'
  BY DEF Inv, Types, Regs, Pr0s, Auxs, Drivers, Dsc, TxRing, CmdNoop, Command
<1>6. Demand'
  BY DEF Inv, Types, Regs, Pr0s, Auxs, Drivers, Demand, Kicked, Asked, OnItsWay, Busy,
     Handling, TxRing, Port, CmdNoop, Command
<1> QED
  BY <1>1, <1>2, <1>3, <1>4, <1>5, <1>6 DEF Inv

\* A function of GETCMD leaves the rings alone.
LEMMA CmdSetupStep ==
  ASSUME Inv, NEW c \in Cmds, CmdSetup(c)
  PROVE  Inv'
<1> USE DEF memory, setup, tx, rx, frames
<1>1. Types'
  <2>1. pr0' \in Pr0s
    BY AnswerFacts DEF CmdSetup
  <2> QED
    BY <2>1 DEF Inv, Types, CmdSetup, Command, Answer, NoPr0, Funcs
<1>2. Rings'
  BY DEF Inv, Types, Rings, CmdSetup, Command, Answer, NoPr0, Funcs
<1>3. Port'
  BY DEF Inv, Types, Regs, Pr0s, Auxs, Port, Rings, Waiting, Excused, CmdSetup, Command,
     Answer, NoPr0, Funcs
<1>4. Busy'
  BY DEF Inv, Types, Regs, Pr0s, Auxs, Busy, TxRing, Port, Handling, CmdSetup, Command,
     Answer, NoPr0, Funcs
<1>5. TxRing'
  BY DEF Inv, Types, Regs, Pr0s, Auxs, Drivers, Dsc, TxRing, CmdSetup, Command, Answer,
     NoPr0, Funcs
<1>6. Demand'
  BY DEF Inv, Types, Regs, Pr0s, Auxs, Drivers, Demand, Kicked, Asked, OnItsWay, Busy,
     Handling, TxRing, Port, CmdSetup, Command, Answer, NoPr0, Funcs
<1> QED
  BY <1>1, <1>2, <1>3, <1>4, <1>5, <1>6 DEF Inv

\* START starts the tx ring with entry 0.
LEMMA CmdStartStep ==
  ASSUME Inv, CmdStart
  PROVE  Inv'
<1> USE DEF memory, setup, tx, rx, frames
<1>1. Types'
  <2>1. pr0' \in Pr0s
    BY AnswerFacts DEF CmdStart, Done
  <2>2. aux' \in Auxs
    BY Zero DEF Inv, Types, CmdStart, TxStarts, Auxs, Dsc
  <2>3. fTxDscCur' \in Dsc
    BY Zero DEF Inv, Types, CmdStart, StartTxRing, TxDsc, Dsc, tx
  <2>4. fRxDscCur' \in Dsc
    BY Zero DEF Inv, Types, CmdStart, StartRxRing, RxDsc, Dsc, rx
  <2>5. queued' \in [tx : Nat, rx : Nat]
    BY DEF Inv, Types, CmdStart, Queued
  <2> QED
    BY <2>1, <2>2, <2>3, <2>4, <2>5, Zero DEF Inv, Types, CmdStart, Command, Answer,
       Done, NoPr0, StartTxRing, StartRxRing, TxStarts, RxStarts, Queued, TxDsc, RxDsc
<1>2. Rings'
  BY DEF Inv, Types, Rings, CmdStart, Command, Answer, Done, NoPr0, StartTxRing,
     StartRxRing, TxStarts, RxStarts, Queued, TxDsc, RxDsc
<1>3. Port'
  BY ZenonT(30) DEF Inv, Types, Regs, Pr0s, Auxs, Port, Rings, Waiting, Excused, CmdStart, Command,
     Answer, Done, NoPr0, StartTxRing, StartRxRing, TxStarts, RxStarts, Queued, TxDsc,
     RxDsc
<1>4. Busy'
  BY DEF Inv, Types, Regs, Pr0s, Auxs, Busy, TxRing, Port, Handling, CmdStart, Command,
     Answer, Done, NoPr0, StartTxRing, StartRxRing, TxStarts, RxStarts, Queued, TxDsc,
     RxDsc
<1>5. TxRing'
  <2>1. CASE fPr1State = "ready" /\ fRingValid
    <3>1. fTxRingState = "idle" /\ fRunning' = TRUE
      BY <2>1 DEF Inv, Types, Rings, TxRing, CmdStart
    <3>2. fTxRingState' = "busy" /\ ~aux'.stale => fTxDscCur'.own
      BY <2>1, <3>1, Zero DEF Inv, Types, CmdStart, StartTxRing, TxStarts, TxDsc, Auxs, Dsc
    <3>3. pc' = "pr1" /\ ~pr0'.rset /\ ~pr0'.brst
      BY AnswerFacts DEF CmdStart, Done
    <3> QED
      BY <3>1, <3>2, <3>3 DEF Inv, TxRing, CmdStart
  <2>2. CASE ~(fPr1State = "ready" /\ fRingValid)
    BY <2>2, AnswerFacts DEF Inv, TxRing, CmdStart, Command, Done
  <2> QED
    BY <2>1, <2>2
<1>6. Demand'
  <2>1. CASE fPr1State = "ready" /\ fRingValid
    <3>1. Kicked' /\ txOwn[0] => Asked
      BY <2>1, Zero DEF Inv, Types, Drivers, Auxs, Demand, Kicked, CmdStart, Command
    <3>2. fTxRingIndex' = 0 /\ pc' = "pr1" /\ UNCHANGED <<reg, txOwn, cpu>>
      BY <2>1 DEF CmdStart, Answer
    <3>3. reg.lam /\ reg.pcmdbp = "start" /\ Kicked' => Kicked
      BY <2>1 DEF Inv, Types, Auxs, Drivers, CmdStart, Kicked
    <3> QED
      BY <3>1, <3>2, <3>3 DEF Inv, Demand, OnItsWay, Asked
  <2>2. CASE ~(fPr1State = "ready" /\ fRingValid)
    BY <2>2 DEF Inv, Types, Regs, Demand, Kicked, Asked, OnItsWay, CmdStart, Command, Answer
  <2> QED
    BY <2>1, <2>2
<1> QED
  BY <1>1, <1>2, <1>3, <1>4, <1>5, <1>6 DEF Inv

\* PDMD starts the tx ring with the descriptor of the primary list.
LEMMA CmdPdmdStep ==
  ASSUME Inv, CmdPdmd
  PROVE  Inv'
<1> USE DEF memory, setup, tx, rx, frames
<1>1. Types'
  <2>1. pr0' \in Pr0s
    BY AnswerFacts DEF CmdPdmd
  <2>2. aux' \in Auxs
    BY DEF Inv, Types, CmdPdmd, Auxs
  <2>3. fTxDscCur' \in Dsc
    BY DEF Inv, Types, CmdPdmd, StartTxRing
  <2>4. fRxDscCur' \in Dsc
    BY DEF Inv, Types, CmdPdmd, StartRxRing
  <2>5. queued' \in [tx : Nat, rx : Nat]
    BY DEF Inv, Types, CmdPdmd, Queued
  <2> QED
    BY <2>1, <2>2, <2>3, <2>4, <2>5 DEF Inv, Types, CmdPdmd, Command, Answer, NoPr0,
       StartTxRing, StartRxRing, TxStarts, RxStarts, Queued
<1>2. Rings'
  BY DEF Inv, Types, Rings, CmdPdmd, Command, Answer, NoPr0, StartTxRing, StartRxRing,
     TxStarts, RxStarts, Queued
<1>3. Port'
  BY ZenonT(30) DEF Inv, Types, Regs, Pr0s, Auxs, Port, Rings, Waiting, Excused, CmdPdmd, Command,
     Answer, NoPr0, StartTxRing, StartRxRing, TxStarts, RxStarts, Queued
<1>4. Busy'
  BY DEF Inv, Types, Regs, Pr0s, Auxs, Busy, TxRing, Port, Handling, CmdPdmd, Command,
     Answer, NoPr0, StartTxRing, StartRxRing, TxStarts, RxStarts, Queued
<1>5. TxRing'
  BY SMTT(30) DEF Inv, Types, Regs, Pr0s, Auxs, Drivers, Dsc, TxRing, CmdPdmd, Command, Answer,
     NoPr0, StartTxRing, StartRxRing, TxStarts, RxStarts, Queued
<1>6. Demand'
  BY ZenonT(60) DEF Inv, Types, Regs, Pr0s, Auxs, Drivers, Demand, Kicked, Asked, OnItsWay, Busy,
     Handling, TxRing, Port, CmdPdmd, Command, Answer, NoPr0, StartTxRing, StartRxRing,
     TxStarts, RxStarts, Queued
<1> QED
  BY <1>1, <1>2, <1>3, <1>4, <1>5, <1>6 DEF Inv

\* HALT of a DELUA stops the device.
LEMMA CmdHaltStep ==
  ASSUME Inv, CmdHalt
  PROVE  Inv'
<1> USE DEF memory, setup, tx, rx, frames
<1>1. Types'
  <2>1. pr0' \in Pr0s
    BY AnswerFacts DEF CmdHalt
  <2> QED
    BY <2>1 DEF Inv, Types, CmdHalt, Command, Answer, NoPr0, StopRings
<1>2. Rings'
  BY DEF Inv, Types, Rings, CmdHalt, Command, Answer, NoPr0, StopRings
<1>3. Port'
  BY DEF Inv, Types, Regs, Pr0s, Auxs, Port, Rings, Waiting, Excused, CmdHalt, Command,
     Answer, NoPr0, StopRings
<1>4. Busy'
  BY DEF Inv, Types, Regs, Pr0s, Auxs, Busy, TxRing, Port, Handling, CmdHalt, Command,
     Answer, NoPr0, StopRings
<1>5. TxRing'
  BY DEF Inv, Types, Regs, Pr0s, Auxs, Drivers, Dsc, TxRing, CmdHalt, Command, Answer,
     NoPr0, StopRings
<1>6. Demand'
  BY DEF Inv, Types, Regs, Pr0s, Auxs, Drivers, Demand, Kicked, Asked, OnItsWay, Busy,
     Handling, TxRing, Port, CmdHalt, Command, Answer, NoPr0, StopRings
<1> QED
  BY <1>1, <1>2, <1>3, <1>4, <1>5, <1>6 DEF Inv

\* STOP stops the device.
LEMMA CmdStopStep ==
  ASSUME Inv, CmdStop
  PROVE  Inv'
<1> USE DEF memory, setup, tx, rx, frames
<1>1. Types'
  <2>1. pr0' \in Pr0s
    BY AnswerFacts DEF CmdStop
  <2> QED
    BY <2>1 DEF Inv, Types, CmdStop, Command, Answer, NoPr0, StopRings
<1>2. Rings'
  BY DEF Inv, Types, Rings, CmdStop, Command, Answer, NoPr0, StopRings
<1>3. Port'
  BY DEF Inv, Types, Regs, Pr0s, Auxs, Port, Rings, Waiting, Excused, CmdStop, Command,
     Answer, NoPr0, StopRings
<1>4. Busy'
  BY DEF Inv, Types, Regs, Pr0s, Auxs, Busy, TxRing, Port, Handling, CmdStop, Command,
     Answer, NoPr0, StopRings
<1>5. TxRing'
  BY DEF Inv, Types, Regs, Pr0s, Auxs, Drivers, Dsc, TxRing, CmdStop, Command, Answer,
     NoPr0, StopRings
<1>6. Demand'
  BY DEF Inv, Types, Regs, Pr0s, Auxs, Drivers, Demand, Kicked, Asked, OnItsWay, Busy,
     Handling, TxRing, Port, CmdStop, Command, Answer, NoPr0, StopRings
<1> QED
  BY <1>1, <1>2, <1>3, <1>4, <1>5, <1>6 DEF Inv

\* PR1 leaves the reset state.
LEMMA WritePr1Step ==
  ASSUME Inv, WritePr1
  PROVE  Inv'
<1> USE DEF memory, setup, tx, rx, frames
<1>1. Types'
  <2>1. reg' \in Regs
    BY DEF Inv, Types, WritePr1, Regs
  <2> QED
    BY <2>1 DEF Inv, Types, WritePr1
<1>2. Rings'
  BY DEF Inv, Types, Rings, WritePr1
<1>3. Port'
  BY DEF Inv, Types, Regs, Pr0s, Auxs, Port, Rings, Waiting, Excused, WritePr1
<1>4. Busy'
  BY DEF Inv, Types, Regs, Pr0s, Auxs, Busy, TxRing, Port, Handling, WritePr1
<1>5. TxRing'
  BY DEF Inv, Types, Regs, Pr0s, Auxs, Drivers, Dsc, TxRing, WritePr1
<1>6. Demand'
  BY DEF Inv, Types, Regs, Pr0s, Auxs, Drivers, Demand, Kicked, Asked, OnItsWay, Busy,
     Handling, TxRing, Port, WritePr1
<1> QED
  BY <1>1, <1>2, <1>3, <1>4, <1>5, <1>6 DEF Inv

\* The answer ends the command, or restarts with a PDMD.
LEMMA WritePr0Step ==
  ASSUME Inv, WritePr0
  PROVE  Inv'
<1> USE DEF memory, setup, tx, rx, frames
<1>1. Types'
  <2>1. reg' \in Regs
    <3>1. PICK w \in BOOLEAN, l \in BOOLEAN, b \in BOOLEAN, s \in BOOLEAN, t \in BOOLEAN :
            /\ w = (reg.pcmdwwb /\ ~(pr0.dni \/ pr0.pcei))
            /\ l = (reg.lam \/ Restarts)
            /\ b = (reg.busy /\ ~(pr0.pcei \/ (pr0.dni /\ ~Restarts) \/ pr0.rset \/ pr0.brst))
            /\ s = (reg.rset /\ ~pr0.rset) /\ t = (reg.brst /\ ~pr0.brst)
      BY Zenon
    <3>2. PICK c \in PortCmds : c = IF Restarts THEN "pdmd" ELSE reg.pcmdbp
      BY DEF Inv, Types, Regs, PortCmds
    <3>3. reg' = [reg EXCEPT !.pcmdwwb = w, !.pcmdbp = c, !.lam = l, !.busy = b, !.rset = s,
                             !.brst = t]
      BY <3>1, <3>2, Zenon DEF WritePr0
    <3> QED
      BY ZenonT(60), <3>3 DEF Inv, Types, Regs
  <2>2. aux' \in Auxs
    BY DEF Inv, Types, WritePr0, Regs, Pr0s, Auxs
  <2> QED
    BY <2>1, <2>2 DEF Inv, Types, WritePr0, Restarts
<1>2. Rings'
  BY DEF Inv, Types, Rings, WritePr0, Restarts
<1>3. Port'
  BY DEF Inv, Types, Regs, Pr0s, Auxs, Port, Rings, Waiting, Excused, WritePr0, Restarts
<1>4. Busy'
  <2> SUFFICES ASSUME ~aux'.early PROVE Busy'
    BY DEF Busy
  <2>1. ~aux.early /\ ~reg.lam
    BY DEF Inv, Types, Auxs, Regs, WritePr0
  <2>2. reg'.lam => Restarts
    BY <2>1 DEF Inv, Types, Regs, WritePr0
  <2>3. Restarts => reg'.pcmdbp = "pdmd" /\ reg'.lam
    BY DEF Inv, Types, Regs, WritePr0
  <2>4. reg'.busy => Restarts
    BY DEF Inv, Types, Regs, Pr0s, Port, WritePr0
  <2>5. Restarts /\ ~reg'.busy => ~fRunning
    BY <2>1 DEF Inv, Types, Regs, Pr0s, Port, Busy, TxRing, Handling, Restarts, WritePr0
  <2>6. pc' = "idle" /\ fRunning' = fRunning
    BY DEF WritePr0
  <2> QED
    BY <2>2, <2>3, <2>4, <2>5, <2>6 DEF Busy, Handling
<1>5. TxRing'
  BY DEF Inv, Types, Regs, Pr0s, Auxs, Drivers, Dsc, TxRing, WritePr0, Restarts
<1>6. Demand'
  BY DEF Inv, Types, Regs, Pr0s, Auxs, Drivers, Demand, Kicked, Asked, OnItsWay, Busy,
     Handling, TxRing, Port, WritePr0, Restarts
<1> QED
  BY <1>1, <1>2, <1>3, <1>4, <1>5, <1>6 DEF Inv

\* A queued tx handler sends a frame or leaves the queue.
LEMMA TxRingHandlerStep ==
  ASSUME Inv, TxRingHandler
  PROVE  Inv'
<1> USE DEF memory, setup, tx, rx, frames
<1>1. Types'
  <2>1. queued' \in [tx : Nat, rx : Nat]
    BY SMTT(30) DEF Inv, Types, TxRingHandler
  <2> QED
    BY <2>1 DEF Inv, Types, TxRingHandler
<1>2. Rings'
  BY DEF Inv, Types, Rings, TxRingHandler
<1>3. Port'
  BY DEF Inv, Types, Regs, Pr0s, Auxs, Port, Rings, Waiting, Excused, TxRingHandler
<1>4. Busy'
  BY DEF Inv, Types, Regs, Pr0s, Auxs, Busy, TxRing, Port, Handling, TxRingHandler
<1>5. TxRing'
  BY DEF Inv, Types, Regs, Pr0s, Auxs, Drivers, Dsc, TxRing, TxRingHandler
<1>6. Demand'
  BY DEF Inv, Types, Regs, Pr0s, Auxs, Drivers, Demand, Kicked, Asked, OnItsWay, Busy,
     Handling, TxRing, Port, TxRingHandler
<1> QED
  BY <1>1, <1>2, <1>3, <1>4, <1>5, <1>6 DEF Inv

\* The tx handler goes on as long as the device owns the next entry.
LEMMA TxUpdateStep ==
  ASSUME Inv, TxUpdate
  PROVE  Inv'
<1> USE DEF memory, setup, tx, rx, frames
<1>1. Types'
  <2>1. queued' \in [tx : Nat, rx : Nat]
    BY DEF Inv, Types, Rings, TxUpdate
  <2>2. txOwn' \in [Entries -> BOOLEAN]
    BY DEF Inv, Types, TxUpdate
  <2>3. fTxDscCur' \in Dsc
    BY <2>2, NextEntry DEF Inv, Types, TxUpdate, Dsc
  <2> QED
    BY <2>1, <2>2, <2>3, NextEntry DEF Inv, Types, TxUpdate
<1>2. Rings'
  BY DEF Inv, Types, Rings, TxUpdate
<1>3. Port'
  BY DEF Inv, Types, Regs, Pr0s, Auxs, Port, Rings, Waiting, Excused, TxUpdate
<1>4. Busy'
  BY DEF Inv, Types, Regs, Pr0s, Auxs, Busy, TxRing, Port, Handling, TxUpdate
<1>5. TxRing'
  <2>1. fTxRingState' = "busy" => fTxDscCur'.own
    BY DEF Inv, Types, Rings, TxUpdate
  <2> QED
    BY <2>1 DEF Inv, Types, TxRing, TxUpdate
<1>6. Demand'
  BY DEF Inv, Types, Regs, Pr0s, Auxs, Drivers, Demand, Kicked, Asked, OnItsWay, Busy,
     Handling, TxRing, Port, TxUpdate
<1> QED
  BY <1>1, <1>2, <1>3, <1>4, <1>5, <1>6 DEF Inv

\* A queued rx handler fills a buffer or leaves the queue.
LEMMA RxRingHandlerStep ==
  ASSUME Inv, RxRingHandler
  PROVE  Inv'
<1> USE DEF memory, setup, tx, rx, frames
<1>1. Types'
  <2>1. queued' \in [tx : Nat, rx : Nat]
    BY DEF Inv, Types, RxRingHandler
  <2>2. rxOwn' \in [Entries -> BOOLEAN]
    BY DEF Inv, Types, RxRingHandler
  <2>3. fRxBufQueue' \in Seq(Nat)
    BY QueueFacts DEF Inv, Types, RxRingHandler
  <2> QED
    BY <2>1, <2>2, <2>3 DEF Inv, Types, RxRingHandler
<1>2. Rings'
  <2>1. Len(fRxBufQueue') <= RxQueLimit
    <3>1. Len(fRxBufQueue) \in Nat /\ Len(fRxBufQueue) <= RxQueLimit
      BY QueueFacts DEF Inv, Types, Rings
    <3>2. fRxBufQueue' = fRxBufQueue \/ (fRxBufQueue # <<>> /\ fRxBufQueue' = Tail(fRxBufQueue))
      BY DEF RxRingHandler
    <3>3. Len(fRxBufQueue') \in Nat /\ Len(fRxBufQueue') <= Len(fRxBufQueue)
      BY <3>1, <3>2, QueueFacts DEF Inv, Types
    <3> QED
      BY <3>1, <3>3, DeunaAssumption
  <2> QED
    BY <2>1 DEF Inv, Types, Rings, RxRingHandler
<1>3. Port'
  BY DEF Inv, Types, Regs, Pr0s, Auxs, Port, Rings, Waiting, Excused, RxRingHandler
<1>4. Busy'
  BY DEF Inv, Types, Regs, Pr0s, Auxs, Busy, TxRing, Port, Handling, RxRingHandler
<1>5. TxRing'
  BY DEF Inv, Types, Regs, Pr0s, Auxs, Drivers, Dsc, TxRing, RxRingHandler
<1>6. Demand'
  BY DEF Inv, Types, Regs, Pr0s, Auxs, Drivers, Demand, Kicked, Asked, OnItsWay, Busy,
     Handling, TxRing, Port, RxRingHandler
<1> QED
  BY <1>1, <1>2, <1>3, <1>4, <1>5, <1>6 DEF Inv

\* The rx handler goes on, polls or leaves the queue.
LEMMA RxUpdateStep ==
  ASSUME Inv, RxUpdate
  PROVE  Inv'
<1> USE DEF memory, setup, tx, rx, frames
<1>1. Types'
  <2>1. queued' \in [tx : Nat, rx : Nat]
    BY DEF Inv, Types, Rings, RxUpdate
  <2>2. fRxDscCur' \in Dsc
    BY NextEntry DEF Inv, Types, RxUpdate, RxDsc, Dsc
  <2> QED
    BY <2>1, <2>2, NextEntry DEF Inv, Types, RxUpdate, RxDsc
<1>2. Rings'
  BY DEF Inv, Types, Rings, RxUpdate, RxDsc
<1>3. Port'
  BY DEF Inv, Types, Regs, Pr0s, Auxs, Port, Rings, Waiting, Excused, RxUpdate, RxDsc
<1>4. Busy'
  BY DEF Inv, Types, Regs, Pr0s, Auxs, Busy, TxRing, Port, Handling, RxUpdate, RxDsc
<1>5. TxRing'
  BY DEF Inv, Types, Regs, Pr0s, Auxs, Drivers, Dsc, TxRing, RxUpdate, RxDsc
<1>6. Demand'
  BY DEF Inv, Types, Regs, Pr0s, Auxs, Drivers, Demand, Kicked, Asked, OnItsWay, Busy,
     Handling, TxRing, Port, RxUpdate, RxDsc
<1> QED
  BY <1>1, <1>2, <1>3, <1>4, <1>5, <1>6 DEF Inv

\* The poll timer starts the rx ring again.
LEMMA RxPollHandlerStep ==
  ASSUME Inv, RxPollHandler
  PROVE  Inv'
<1> USE DEF memory, setup, tx, rx, frames
<1>1. Types'
  <2>1. queued' \in [tx : Nat, rx : Nat]
    BY DEF Inv, Types, RxPollHandler, StartRxRing, RxStarts, Queued
  <2>2. fRxDscCur' \in Dsc
    BY DEF Inv, Types, RxPollHandler, StartRxRing, RxStarts, Queued, RxDsc, Dsc
  <2> QED
    BY <2>1, <2>2 DEF Inv, Types, RxPollHandler, StartRxRing, RxStarts, Queued
<1>2. Rings'
  BY DEF Inv, Types, Rings, RxPollHandler, StartRxRing, RxStarts, Queued
<1>3. Port'
  BY DEF Inv, Types, Regs, Pr0s, Auxs, Port, Rings, Waiting, Excused, RxPollHandler,
     StartRxRing, RxStarts, Queued
<1>4. Busy'
  BY DEF Inv, Types, Regs, Pr0s, Auxs, Busy, TxRing, Port, Handling, RxPollHandler,
     StartRxRing, RxStarts, Queued
<1>5. TxRing'
  BY DEF Inv, Types, Regs, Pr0s, Auxs, Drivers, Dsc, TxRing, RxPollHandler, StartRxRing,
     RxStarts, Queued
<1>6. Demand'
  BY DEF Inv, Types, Regs, Pr0s, Auxs, Drivers, Demand, Kicked, Asked, OnItsWay, Busy,
     Handling, TxRing, Port, RxPollHandler, StartRxRing, RxStarts, Queued
<1> QED
  BY <1>1, <1>2, <1>3, <1>4, <1>5, <1>6 DEF Inv

\* A frame received is queued within the limit.
LEMMA RcvCallbackStep ==
  ASSUME Inv, NEW dst \in {"own", "mcast", "other"}, RcvCallback(dst)
  PROVE  Inv'
<1> USE DEF memory, setup, tx, rx, frames
<1>1. Types'
  <2>1. n' \in Counts
    BY CountType DEF Inv, Types, RcvCallback
  <2>2. queued' \in [tx : Nat, rx : Nat]
    BY DEF Inv, Types, RcvCallback, Queued
  <2>3. fRxDscCur' \in Dsc
    BY DEF Inv, Types, RcvCallback, StartRxRing, RxDsc, Dsc
  <2>4. fRxBufQueue' \in Seq(Nat)
    BY <2>1 DEF Inv, Types, RcvCallback, Counts
  <2> QED
    BY <2>1, <2>2, <2>3, <2>4 DEF Inv, Types, RcvCallback, StartRxRing, RxStarts, Queued
<1>2. Rings'
  <2>1. Len(fRxBufQueue') <= RxQueLimit
    <3>1. Len(fRxBufQueue) \in Nat /\ Len(fRxBufQueue) <= RxQueLimit
      BY QueueFacts DEF Inv, Types, Rings
    <3>2. \/ fRxBufQueue' = fRxBufQueue
          \/ Len(fRxBufQueue) < RxQueLimit /\ fRxBufQueue' = Append(fRxBufQueue, n'.rx)
      BY DEF RcvCallback
    <3>3. n'.rx \in Nat
      BY CountType DEF Inv, Types, RcvCallback, Counts
    <3> QED
      BY <3>1, <3>2, <3>3, QueueFacts, DeunaAssumption DEF Inv, Types
  <2> QED
    BY <2>1 DEF Inv, Types, Rings, RcvCallback, StartRxRing, RxStarts, Queued
<1>3. Port'
  BY DEF Inv, Types, Regs, Pr0s, Auxs, Port, Rings, Waiting, Excused, RcvCallback,
     StartRxRing, RxStarts, Queued
<1>4. Busy'
  BY DEF Inv, Types, Regs, Pr0s, Auxs, Busy, TxRing, Port, Handling, RcvCallback,
     StartRxRing, RxStarts, Queued
<1>5. TxRing'
  BY DEF Inv, Types, Regs, Pr0s, Auxs, Drivers, Dsc, TxRing, RcvCallback, StartRxRing,
     RxStarts, Queued
<1>6. Demand'
  BY DEF Inv, Types, Regs, Pr0s, Auxs, Drivers, Demand, Kicked, Asked, OnItsWay, Busy,
     Handling, TxRing, Port, RcvCallback, StartRxRing, RxStarts, Queued
<1> QED
  BY <1>1, <1>2, <1>3, <1>4, <1>5, <1>6 DEF Inv

\* Every step keeps the invariant.
LEMMA InvStep == Inv /\ [Next]_vars => Inv'
<1> SUFFICES ASSUME Inv, [Next]_vars PROVE Inv'
  OBVIOUS
<1>1. CASE Cpu
  BY <1>1, CpuCmdStep, CpuPdmdStep, CpuGiveStep, CpuTakeStep, CpuResetStep DEF Cpu
<1>2. CASE Commands
  BY <1>2, CmdResetStep, CmdSelftstStep, CmdNoopStep, CmdSetupStep, CmdStartStep,
     CmdPdmdStep,
     CmdHaltStep, CmdStopStep DEF Commands
<1>3. CASE AttnRead \/ AttnDsc \/ WritePr1 \/ WritePr0
  BY <1>3, AttnReadStep, AttnDscStep, WritePr1Step, WritePr0Step
<1>4. CASE TxRingHandler \/ TxUpdate \/ RxRingHandler \/ RxUpdate \/ RxPollHandler
  BY <1>4, TxRingHandlerStep, TxUpdateStep, RxRingHandlerStep, RxUpdateStep,
     RxPollHandlerStep
<1>5. ASSUME NEW dst \in {"own", "mcast", "other"}, RcvCallback(dst) PROVE Inv'
  BY <1>5, RcvCallbackStep
<1>6. CASE UNCHANGED vars
  BY <1>6 DEF vars, memory, setup, tx, rx, frames, Inv, Types, Rings, Port, Waiting,
     Excused, Busy,
     Handling, TxRing, Demand, Kicked, Asked, OnItsWay
<1> QED
  BY <1>1, <1>2, <1>3, <1>4, <1>5, <1>6 DEF Next, Server

-----------------------------------------------------------------------------
(* Frames.  Frame number k of a session, counted from 0, goes through entry *)
(* Slot(k) of its ring.                                                     *)

Slot(k) == k % RingSize

\* Of RingSize entries from the one of frame lo on, those flagged v hold the
\* frames of s up to hi, and no others are flagged.
Holds(flag, v, buf, s, lo, hi) ==
  /\ lo <= hi /\ hi <= lo + RingSize
  /\ \A k \in Nat : lo <= k /\ k < lo + RingSize =>
       /\ flag[Slot(k)] = v <=> k < hi
       /\ k < hi => buf[Slot(k)] = s[k + 1]

\* Frame numbers in buffers and sequences.
FrameTypes ==
  /\ txFrm \in [Entries -> Nat] /\ rxBuf \in [Entries -> Nat]
  /\ given \in Seq(Nat) /\ wire \in Seq(Nat) /\ acc \in Seq(Nat) /\ got \in Seq(Nat)
  /\ fRingValid \in BOOLEAN

\* A START that is going to be executed is the one the driver relies on, or the
\* port keeps the driver from giving another: when it does, the device is stopped.
Flagged == reg.rset \/ reg.brst
ReadFlagged == pr0.rset \/ pr0.brst
Starting ==
  /\ reg.lam /\ reg.pcmdbp = "start" /\ ~Flagged =>
       cpu.run \/ (~fRingValid /\ pc \in {"idle", "tx", "rx"})
  /\ pc \in {"prim", "cmd"} /\ pr0.cmd = "start" /\ ~ReadFlagged /\ fRingValid =>
       cpu.run \/ reg.busy \/ reg.state = "reset"
  /\ pc \in {"pr1", "pr0"} /\ ReadFlagged => ~fRingValid
  /\ fRunning =>
       reg.state \in {"run", "reset"} \/ (pc = "pr1" /\ (cpu.run \/ reg.busy))

\* While driver and device both run nothing that stops the device is pending.
Stops == {"stop", "halt", "selftst"}
Stopping ==
  /\ cpu.run => reg.pcmdbp \notin Stops
  /\ pc \in {"prim", "cmd"} /\ (pr0.cmd \in Stops \/ ReadFlagged) => ~(cpu.run /\ fRunning)
  /\ pc \in {"prim", "cmd"} /\ ~ReadFlagged /\ Flagged => ~cpu.run /\ reg.state = "reset"
  /\ cpu.run /\ fRunning => ~Flagged

\* A copy of a tx descriptor that says the device owns it is the one of the entry
\* at the ring index, and true.
TxCopies ==
  /\ fRunning /\ fTxDscCur.own => fTxDscCur.seg = fTxRingIndex /\ txOwn[fTxRingIndex]
  /\ fRunning /\ pc = "cmd" =>
       dscPC.tx.seg = fTxRingIndex /\ (dscPC.tx.own => txOwn[fTxRingIndex])

\* From START on, although the device may not run yet: what was sent is a prefix of
\* what was given, and the ring holds the rest.
TxFrames ==
  cpu.run =>
    /\ Len(wire) <= Len(given) /\ \A k \in 1 .. Len(wire) : wire[k] = given[k]
    /\ cpu.tx = Slot(Len(given))
    /\ Holds(txOwn, TRUE, txFrm, given, GivenBack, Len(given))
    /\ GivenBack \in Nat
    /\ IF fRunning THEN fTxRingIndex = Slot(GivenBack) ELSE wire = <<>>

\* The copy of the rx descriptor, as long as no PDMD replaced it with a handler queued.
RxCopies ==
  /\ fRxRingState = "busy" => fRunning
  /\ fRunning /\ ~aux.pdmdRx /\ queued.rx > 0 /\ pc # "rx" /\ fRxDscCur.own =>
       fRxDscCur.seg = fRxRingIndex /\ rxOwn[fRxRingIndex]

\* What the driver read is a prefix of what was accepted, the queue is its end, and
\* the ring holds what is between.
Filling == IF pc = "rx" THEN Moved - 1 ELSE Moved
RxFrames ==
  cpu.run /\ ~aux.pdmdRx =>
    /\ Moved \in Nat /\ Filling \in Nat
    /\ \A k \in 1 .. Len(got) : got[k] = acc[k]
    /\ \A k \in 1 .. Len(fRxBufQueue) : fRxBufQueue[k] = acc[Moved + k]
    /\ cpu.rx = Slot(Len(got))
    /\ Holds(rxOwn, FALSE, rxBuf, acc, Len(got), Moved)
    /\ IF fRunning THEN fRxRingIndex = Slot(Filling) ELSE Moved = 0

FrameInv ==
  /\ FrameTypes /\ Starting /\ Stopping
  /\ TxCopies /\ TxFrames /\ RxCopies /\ RxFrames

-----------------------------------------------------------------------------
(* Slots of a ring.                                                         *)

\* Quotient and remainder are determined by their number.
LEMMA Remainder ==
  ASSUME NEW q \in Int, NEW p \in Int, NEW r \in Entries, NEW s \in Entries,
         RingSize * q + r = RingSize * p + s
  PROVE  r = s /\ q = p
<1> USE DeunaAssumption DEF Entries
<1>1. CASE q < p
  <2>1. p >= q + 1
    BY <1>1
  <2>2. RingSize * p >= RingSize * (q + 1)
    BY <2>1
  <2>3. RingSize * (q + 1) = RingSize * q + RingSize
    OBVIOUS
  <2> QED
    BY <2>2, <2>3
<1>2. CASE p < q
  <2>1. q >= p + 1
    BY <1>2
  <2>2. RingSize * q >= RingSize * (p + 1)
    BY <2>1
  <2>3. RingSize * (p + 1) = RingSize * p + RingSize
    OBVIOUS
  <2> QED
    BY <2>2, <2>3
<1>3. CASE p = q
  BY <1>3
<1> QED
  BY <1>1, <1>2, <1>3

\* A slot is an entry, and the frame number is it plus some rounds.
LEMMA SlotOf ==
  ASSUME NEW k \in Nat
  PROVE  Slot(k) \in Entries /\ \E q \in Int : k = RingSize * q + Slot(k)
<1>1. k % RingSize \in Entries
  BY DeunaAssumption DEF Entries
<1>2. k \div RingSize \in Int /\ k = RingSize * (k \div RingSize) + (k % RingSize)
  BY DeunaAssumption
<1> QED
  BY <1>1, <1>2 DEF Slot

\* ... and the only one.
LEMMA SlotUnique ==
  ASSUME NEW k \in Nat, NEW q \in Int, NEW r \in Entries, k = RingSize * q + r
  PROVE  Slot(k) = r
<1>1. PICK p \in Int : k = RingSize * p + Slot(k)
  BY SlotOf
<1>2. Slot(k) \in Entries
  BY SlotOf
<1> HIDE DEF Slot
<1> QED
  BY <1>1, <1>2, Remainder

\* The first frame goes to entry 0, and RingSize frames on is the same entry.
LEMMA SlotZero == Slot(0) = 0
  BY Zero, SlotUnique, DeunaAssumption
LEMMA SlotWrap == ASSUME NEW k \in Nat PROVE Slot(k + RingSize) = Slot(k)
<1>1. PICK q \in Int : k = RingSize * q + Slot(k)
  BY SlotOf
<1>2. Slot(k) \in Entries /\ Slot(k) \in Int
  BY SlotOf DEF Entries
<1> HIDE DEF Slot
<1>3. RingSize * (q + 1) = RingSize * q + RingSize
  BY DeunaAssumption
<1>4. k + RingSize \in Nat /\ k + RingSize = RingSize * (q + 1) + Slot(k)
  BY <1>1, <1>2, <1>3, DeunaAssumption
<1> QED
  BY <1>2, <1>4, SlotUnique

\* An index moves as the frame number does.
LEMMA SlotMove ==
  ASSUME NEW k \in Nat, NEW i \in Nat
  PROVE  RingIndexNext(Slot(k), i) = Slot(k + i)
<1>1. PICK q \in Int : k = RingSize * q + Slot(k)
  BY SlotOf
<1>2. Slot(k) \in Nat /\ RingIndexNext(Slot(k), i) = Slot(Slot(k) + i)
  BY SlotOf DEF Entries, RingIndexNext, Slot
<1>3. PICK p \in Int : Slot(k) + i = RingSize * p + Slot(Slot(k) + i)
  BY <1>2, SlotOf
<1>4. Slot(Slot(k) + i) \in Entries /\ Slot(Slot(k) + i) \in Int
  BY <1>2, SlotOf DEF Entries
<1> HIDE DEF Slot
<1>5. RingSize * (q + p) = RingSize * q + RingSize * p
  BY DeunaAssumption
<1>6. k + i = RingSize * (q + p) + Slot(Slot(k) + i)
  BY <1>1, <1>2, <1>3, <1>4, <1>5, DeunaAssumption
<1>7. Slot(k + i) = Slot(Slot(k) + i)
  BY <1>4, <1>6, SlotUnique
<1> QED
  BY <1>2, <1>7

\* Frames less than a round apart have different entries.
LEMMA SlotApart ==
  ASSUME NEW j \in Nat, NEW k \in Nat, j < k, k < j + RingSize
  PROVE  Slot(j) # Slot(k)
<1> SUFFICES ASSUME Slot(j) = Slot(k) PROVE FALSE
  OBVIOUS
<1>1. PICK p \in Int : j = RingSize * p + Slot(j)
  BY SlotOf
<1>2. PICK q \in Int : k = RingSize * q + Slot(k)
  BY SlotOf
<1>3. Slot(j) \in Int
  BY SlotOf DEF Entries
<1> HIDE DEF Slot
<1>4. k - j \in Entries
  BY DeunaAssumption DEF Entries
<1>5. RingSize * (q - p) = RingSize * q - RingSize * p
  BY DeunaAssumption
<1>6. RingSize * (q - p) + 0 = RingSize * 0 + (k - j)
  BY <1>1, <1>2, <1>3, <1>5, DeunaAssumption
<1>7. 0 = k - j
  BY <1>4, <1>6, Zero, Remainder
<1> QED
  BY <1>7

-----------------------------------------------------------------------------
(* What a ring holds.                                                       *)

\* An entry is added behind the last one.
LEMMA HoldsAdd ==
  ASSUME NEW flag \in [Entries -> BOOLEAN], NEW v \in BOOLEAN, NEW buf \in [Entries -> Nat],
         NEW s, NEW t, NEW lo \in Nat, NEW hi \in Nat, NEW e \in Nat,
         Holds(flag, v, buf, s, lo, hi), flag[Slot(hi)] # v,
         t[hi + 1] = e, \A k \in 1 .. hi : t[k] = s[k]
  PROVE  Holds([flag EXCEPT ![Slot(hi)] = v], v, [buf EXCEPT ![Slot(hi)] = e], t, lo, hi + 1)
<1>1. RingSize \in Nat /\ RingSize > 0
  BY DeunaAssumption
<1>2. /\ lo <= hi /\ hi <= lo + RingSize
      /\ \A k \in Nat : lo <= k /\ k < lo + RingSize =>
           /\ flag[Slot(k)] = v <=> k < hi
           /\ k < hi => buf[Slot(k)] = s[k + 1]
  BY DEF Holds
<1>3. hi < lo + RingSize
  <2> SUFFICES ASSUME hi = lo + RingSize PROVE FALSE
    BY <1>1, <1>2
  <2>1. Slot(hi) = Slot(lo)
    BY SlotWrap
  <2>2. flag[Slot(lo)] = v
    BY <1>1, <1>2
  <2> QED
    BY <2>1, <2>2
<1>4. Slot(hi) \in Entries
  BY SlotOf
<1>5. ASSUME NEW k \in Nat, lo <= k, k < lo + RingSize
      PROVE  /\ [flag EXCEPT ![Slot(hi)] = v][Slot(k)] = v <=> k < hi + 1
             /\ k < hi + 1 => [buf EXCEPT ![Slot(hi)] = e][Slot(k)] = t[k + 1]
  <2>1. Slot(k) \in Entries
    BY SlotOf
  <2>2. CASE k = hi
    BY <1>4, <2>2
  <2>3. CASE k # hi
    <3>1. Slot(k) # Slot(hi)
      <4>1. CASE k < hi
        <5>1. hi < k + RingSize
          BY <1>1, <1>3, <1>5
        <5> QED
          BY <4>1, <5>1, SlotApart
      <4>2. CASE hi < k
        <5>1. k < hi + RingSize
          BY <1>1, <1>2, <1>5
        <5> QED
          BY <4>2, <5>1, SlotApart
      <4> QED
        BY <2>3, <4>1, <4>2
    <3>2. /\ [flag EXCEPT ![Slot(hi)] = v][Slot(k)] = flag[Slot(k)]
          /\ [buf EXCEPT ![Slot(hi)] = e][Slot(k)] = buf[Slot(k)]
      BY <2>1, <3>1
    <3>3. /\ flag[Slot(k)] = v <=> k < hi
          /\ k < hi => buf[Slot(k)] = s[k + 1]
      BY <1>2, <1>5
    <3>4. k < hi => t[k + 1] = s[k + 1]
      OBVIOUS
    <3>5. k < hi + 1 <=> k < hi
      BY <2>3
    <3> QED
      BY <3>2, <3>3, <3>4, <3>5
  <2> QED
    BY <2>2, <2>3
<1>6. lo <= hi + 1 /\ hi + 1 <= lo + RingSize
  BY <1>1, <1>2, <1>3
<1> QED
  BY <1>5, <1>6 DEF Holds

\* The first entry can be taken away.
LEMMA HoldsTake ==
  ASSUME NEW flag \in [Entries -> BOOLEAN], NEW v \in BOOLEAN, NEW buf, NEW bufn,
         NEW s, NEW lo \in Nat, NEW hi \in Nat,
         Holds(flag, v, buf, s, lo, hi), flag[Slot(lo)] = v,
         \A e \in Entries : e # Slot(lo) => bufn[e] = buf[e]
  PROVE  Holds([flag EXCEPT ![Slot(lo)] = ~v], v, bufn, s, lo + 1, hi)
<1>1. RingSize \in Nat /\ RingSize > 0
  BY DeunaAssumption
<1>2. /\ lo <= hi /\ hi <= lo + RingSize
      /\ \A k \in Nat : lo <= k /\ k < lo + RingSize =>
           /\ flag[Slot(k)] = v <=> k < hi
           /\ k < hi => buf[Slot(k)] = s[k + 1]
  BY DEF Holds
<1>3. lo < hi
  BY <1>1, <1>2
<1>4. Slot(lo) \in Entries
  BY SlotOf
<1>5. ASSUME NEW k \in Nat, lo + 1 <= k, k < lo + 1 + RingSize
      PROVE  /\ [flag EXCEPT ![Slot(lo)] = ~v][Slot(k)] = v <=> k < hi
             /\ k < hi => bufn[Slot(k)] = s[k + 1]
  <2>1. Slot(k) \in Entries
    BY SlotOf
  <2>2. CASE k = lo + RingSize
    <3>1. Slot(k) = Slot(lo)
      BY <2>2, SlotWrap
    <3>2. ~(k < hi)
      BY <1>1, <1>2, <2>2
    <3>3. [flag EXCEPT ![Slot(lo)] = ~v][Slot(k)] = ~v
      BY <1>4, <3>1
    <3> QED
      BY <3>2, <3>3
  <2>3. CASE k # lo + RingSize
    <3>1. k < lo + RingSize
      BY <1>1, <1>5, <2>3
    <3>2. Slot(k) # Slot(lo)
      BY <1>5, <3>1, SlotApart
    <3>3. /\ flag[Slot(k)] = v <=> k < hi
          /\ k < hi => buf[Slot(k)] = s[k + 1]
      BY <1>2, <1>5, <3>1
    <3> QED
      BY <2>1, <3>2, <3>3
  <2> QED
    BY <2>2, <2>3
<1>6. lo + 1 <= hi /\ hi <= lo + 1 + RingSize
  BY <1>1, <1>2, <1>3
<1> QED
  BY <1>5, <1>6 DEF Holds

\* A ring without a flag holds nothing.
LEMMA HoldsNothing ==
  ASSUME NEW flag, NEW v \in BOOLEAN, NEW buf, NEW s, flag = [e \in Entries |-> ~v]
  PROVE  Holds(flag, v, buf, s, 0, 0)
<1>1. RingSize \in Nat /\ RingSize > 0
  BY DeunaAssumption
<1>2. ASSUME NEW k \in Nat PROVE flag[Slot(k)] # v
  BY SlotOf
<1> QED
  BY <1>1, <1>2 DEF Holds

\* Only frames up to the last one count.
LEMMA HoldsSame ==
  ASSUME NEW flag, NEW v, NEW buf, NEW s, NEW t, NEW lo \in Nat, NEW hi \in Nat,
         Holds(flag, v, buf, s, lo, hi), \A k \in 1 .. hi : t[k] = s[k]
  PROVE  Holds(flag, v, buf, t, lo, hi)
<1>1. ASSUME NEW k \in Nat, k < hi PROVE t[k + 1] = s[k + 1]
  BY <1>1
<1> QED
  BY <1>1 DEF Holds

\* A command is written to a port that is free and not in reset; START by a driver
\* that does not use the device, when PR1 shows READY.
LEMMA CmdFacts ==
  ASSUME Inv, NEW c \in Cmds, CpuCmd(c)
  PROVE  /\ reg.state # "reset" /\ ~reg.busy
         /\ reg' \in Regs /\ reg'.state = reg.state
         /\ reg'.rset = reg.rset /\ reg'.brst = reg.brst
         /\ reg'.busy /\ reg'.lam /\ reg'.pcmdbp = c
         /\ c = "start" => cpu'.run /\ ~cpu.run /\ reg.state = "ready"
         /\ c # "start" => (cpu'.run <=> cpu.run /\ c \notin {"stop", "halt", "selftst"})
         /\ UNCHANGED <<pc, pr0, fRunning, fRingValid>>
<1>1. /\ reg' = [reg EXCEPT !.pcmd = c, !.pcmdbp = c, !.busy = TRUE, !.lam = TRUE]
      /\ reg.state # "reset" /\ ~reg.busy
  BY DEF CpuCmd, WritePcmd
<1>2. /\ reg' \in Regs /\ reg'.state = reg.state /\ reg'.rset = reg.rset
      /\ reg'.brst = reg.brst /\ reg'.busy /\ reg'.lam /\ reg'.pcmdbp = c
  BY <1>1, CmdIsCmd DEF Inv, Types, Regs
<1>3. ASSUME c = "start" PROVE cpu'.run /\ ~cpu.run /\ reg.state = "ready"
  <2>1. /\ cpu' = [run |-> TRUE, tx |-> 0, rx |-> 0, kick |-> FALSE]
        /\ ~cpu.run /\ reg.state = "ready"
    BY <1>3 DEF CpuCmd
  <2> QED
    BY <2>1
<1>4. ASSUME c # "start"
      PROVE  cpu'.run <=> cpu.run /\ c \notin {"stop", "halt", "selftst"}
  BY <1>4 DEF CpuCmd, Inv, Types, Drivers
<1>5. UNCHANGED <<pc, pr0, fRunning, fRingValid>>
  BY DEF CpuCmd, Host, setup
<1> QED
  BY <1>1, <1>2, <1>3, <1>4, <1>5

-----------------------------------------------------------------------------
(* One step with the frames.                                                *)

\* A START finds the device stopped and the rings empty.
LEMMA CpuCmdFrames ==
  ASSUME Inv, FrameInv, NEW c \in Cmds, CpuCmd(c)
  PROVE  FrameInv'
<1> USE DEF memory, setup, tx, rx, frames
<1>1. FrameTypes'
  <2>1. CASE c = "start"
    <3>1. txFrm' \in [Entries -> Nat] /\ rxBuf' \in [Entries -> Nat]
      BY <2>1 DEF CpuCmd, NoFrames, Empty
    <3>2. given' = <<>> /\ wire' = <<>> /\ got' = <<>> /\ acc' = fRxBufQueue
      BY <2>1 DEF CpuCmd
    <3>3. <<>> \in Seq(Nat) /\ fRxBufQueue \in Seq(Nat) /\ fRingValid' \in BOOLEAN
      BY DEF FrameInv, FrameTypes, Inv, Types, CpuCmd, Host
    <3> QED
      BY <3>1, <3>2, <3>3 DEF FrameTypes
  <2>2. CASE c # "start"
    BY <2>2 DEF FrameInv, FrameTypes, CpuCmd, Host
  <2> QED
    BY <2>1, <2>2
<1>2. Starting'
  BY CmdFacts DEF FrameInv, Starting, Flagged, ReadFlagged
<1>3. Stopping'
  BY CmdFacts DEF FrameInv, Stopping, Stops, Starting, Flagged, ReadFlagged
<1>4. TxCopies'
  <2>1. CASE c = "start"
    <3>1. ~fRunning
      BY <2>1 DEF CpuCmd, FrameInv, Starting
    <3> QED
      BY <2>1, <3>1 DEF TxCopies, CpuCmd, Host
  <2>2. CASE c # "start"
    BY <2>2 DEF FrameInv, TxCopies, CpuCmd, Host
  <2> QED
    BY <2>1, <2>2
<1>5. TxFrames'
  <2>1. CASE c = "start"
    <3>1. ~fRunning /\ pc # "tx"
      BY <2>1 DEF CpuCmd, FrameInv, Starting, Inv, TxRing
    <3>2. /\ given' = <<>> /\ wire' = <<>> /\ fRunning' = FALSE /\ pc' # "tx"
          /\ cpu' = [run |-> TRUE, tx |-> 0, rx |-> 0, kick |-> FALSE]
          /\ txOwn' = [i \in Entries |-> FALSE]
      BY <2>1, <3>1 DEF CpuCmd, Host, Inv, Types
    <3>3. GivenBack' = 0 /\ Len(given') = 0 /\ Len(wire') = 0
      BY <3>2 DEF GivenBack
    <3>4. Holds(txOwn', TRUE, txFrm', given', 0, 0)
      <4>1. txOwn' = [e \in Entries |-> ~TRUE]
        BY <3>2
      <4> QED
        BY <4>1, HoldsNothing
    <3>5. cpu'.tx = Slot(Len(given'))
      BY <3>2, <3>3, SlotZero
    <3>6. \A k \in 1 .. Len(wire') : wire'[k] = given'[k]
      BY <3>3
    <3> QED
      <4>1. Holds(txOwn', TRUE, txFrm', given', GivenBack', Len(given'))
        BY <3>3, <3>4
      <4>2. GivenBack' \in Nat /\ Len(wire') <= Len(given')
        BY <3>3
      <4> QED
        BY <3>2, <3>5, <3>6, <4>1, <4>2 DEF TxFrames
  <2>2. CASE c # "start"
    <3>1. /\ UNCHANGED <<pc, fRunning, fTxRingIndex, txOwn, txFrm, given, wire>>
          /\ (cpu'.run => cpu.run) /\ cpu'.tx = cpu.tx
      BY <2>2 DEF Inv, Types, Drivers, CpuCmd, Host
    <3>2. GivenBack' = GivenBack
      BY <3>1 DEF GivenBack
    <3> QED
      BY <3>1, <3>2 DEF FrameInv, TxFrames
  <2> QED
    BY <2>1, <2>2
<1>6. RxCopies'
  BY DEF FrameInv, RxCopies, Inv, Types, CpuCmd, Host
<1>7. RxFrames'
  <2>1. CASE c = "start"
    <3>1. ~fRunning /\ pc # "rx"
      BY <2>1 DEF CpuCmd, FrameInv, Starting, Inv, Rings
    <3>2. /\ acc' = fRxBufQueue' /\ got' = <<>> /\ fRunning' = FALSE /\ pc' # "rx"
          /\ cpu' = [run |-> TRUE, tx |-> 0, rx |-> 0, kick |-> FALSE]
          /\ rxOwn' = [i \in Entries |-> TRUE] /\ fRxBufQueue' \in Seq(Nat)
      BY <2>1, <3>1 DEF CpuCmd, Host, Inv, Types
    <3>3. Len(fRxBufQueue') \in Nat
      BY <3>2, LenProperties
    <3>4. Moved' = 0 /\ Filling' = 0 /\ Len(got') = 0
      BY <3>2, <3>3 DEF Moved, Filling
    <3>5. Holds(rxOwn', FALSE, rxBuf', acc', 0, 0)
      <4>1. rxOwn' = [e \in Entries |-> ~FALSE]
        BY <3>2
      <4> QED
        BY <4>1, HoldsNothing
    <3>6. cpu'.rx = Slot(Len(got'))
      BY <3>2, <3>4, SlotZero
    <3>7. /\ \A k \in 1 .. Len(got') : got'[k] = acc'[k]
          /\ \A k \in 1 .. Len(fRxBufQueue') : fRxBufQueue'[k] = acc'[Moved' + k]
      BY <3>2, <3>3, <3>4
    <3> QED
      BY <3>2, <3>4, <3>5, <3>6, <3>7 DEF RxFrames
  <2>2. CASE c # "start"
    <3>1. /\ UNCHANGED <<pc, fRunning, fRxRingIndex, rxOwn, rxBuf, got, acc, fRxBufQueue, aux>>
          /\ (cpu'.run => cpu.run) /\ cpu'.rx = cpu.rx
      BY <2>2 DEF Inv, Types, Drivers, CpuCmd, Host
    <3>2. Moved' = Moved /\ Filling' = Filling
      BY <3>1 DEF Moved, Filling
    <3> QED
      BY <3>1, <3>2 DEF FrameInv, RxFrames
  <2> QED
    BY <2>1, <2>2
<1> QED
  BY <1>1, <1>2, <1>3, <1>4, <1>5, <1>6, <1>7 DEF FrameInv

\* A PDMD moves no frame.
LEMMA CpuPdmdFrames ==
  ASSUME Inv, FrameInv, CpuPdmd
  PROVE  FrameInv'
<1> USE DEF memory, setup, tx, rx, frames
<1>1. FrameTypes'
  BY DEF FrameInv, FrameTypes, CpuPdmd, Host
<1>2. Starting'
  BY DEF FrameInv, Starting, ReadFlagged, CpuPdmd, WritePcmd, Host
<1>3. Stopping'
  BY DEF FrameInv, Stopping, Stops, Flagged, ReadFlagged, CpuPdmd, WritePcmd, Host
<1>4. TxCopies'
  BY DEF FrameInv, TxCopies, CpuPdmd, Host
<1>5. TxFrames'
  BY DEF FrameInv, TxFrames, GivenBack, Inv, Types, Drivers, CpuPdmd, Host
<1>6. RxCopies'
  BY DEF FrameInv, RxCopies, CpuPdmd, Host
<1>7. RxFrames'
  BY DEF FrameInv, RxFrames, Moved, Filling, Inv, Types, Drivers, CpuPdmd, Host
<1> QED
  BY <1>1, <1>2, <1>3, <1>4, <1>5, <1>6, <1>7 DEF FrameInv

\* A frame is added to the ring behind the last one.
LEMMA CpuGiveFrames ==
  ASSUME Inv, FrameInv, CpuGive
  PROVE  FrameInv'
<1> USE DEF memory, setup, tx, rx, frames
<1>1. FrameTypes'
  <2>1. n'.tx \in Nat
    BY CountType DEF CpuGive, Inv, Types, Counts
  <2>2. Append(given, n'.tx) \in Seq(Nat)
    BY <2>1, QueueFacts DEF FrameInv, FrameTypes
  <2>3. txFrm' \in [Entries -> Nat]
    BY <2>1 DEF CpuGive, FrameInv, FrameTypes
  <2> QED
    BY <2>2, <2>3 DEF FrameInv, FrameTypes, CpuGive, Host
<1>2. Starting'
  BY DEF FrameInv, Starting, ReadFlagged, CpuGive, Host
<1>3. Stopping'
  BY DEF FrameInv, Stopping, Flagged, ReadFlagged, CpuGive, Host
<1>4. TxCopies'
  BY DEF FrameInv, TxCopies, CpuGive, Host
<1>5. TxFrames'
  <2>1. n'.tx \in Nat
    BY CountType DEF CpuGive, Inv, Types, Counts
  <2>2. /\ given \in Seq(Nat) /\ wire \in Seq(Nat) /\ Len(given) \in Nat /\ Len(wire) \in Nat
        /\ Len(given') = Len(given) + 1 /\ given'[Len(given) + 1] = n'.tx
        /\ \A k \in 1 .. Len(given) : given'[k] = given[k]
    BY <2>1, AppendProperties, LenProperties DEF CpuGive, FrameInv, FrameTypes
  <2>3. cpu.run /\ ~txOwn[cpu.tx] /\ cpu.tx = Slot(Len(given))
    BY DEF CpuGive, FrameInv, TxFrames
  <2>4. /\ txOwn' = [txOwn EXCEPT ![Slot(Len(given))] = TRUE]
        /\ txFrm' = [txFrm EXCEPT ![Slot(Len(given))] = n'.tx]
        /\ UNCHANGED <<wire, pc, fRunning, fTxRingIndex>>
    BY <2>3 DEF CpuGive, Host
  <2>5. cpu'.tx = Slot(Len(given'))
    <3>1. cpu'.tx = RingIndexNext(Slot(Len(given)), 1)
      BY <2>3 DEF CpuGive, Inv, Types, Drivers
    <3> QED
      BY <2>2, <3>1, SlotMove
  <2>6. GivenBack' = GivenBack /\ GivenBack \in Nat
    BY <2>3, <2>4 DEF GivenBack, FrameInv, TxFrames
  <2>7. Holds(txOwn, TRUE, txFrm, given, GivenBack, Len(given))
    BY <2>3 DEF FrameInv, TxFrames
  <2>8. txOwn \in [Entries -> BOOLEAN] /\ txFrm \in [Entries -> Nat]
    BY DEF FrameInv, FrameTypes, Inv, Types
  <2>9. txOwn[Slot(Len(given))] # TRUE
    BY <2>3
  <2>10. Holds(txOwn', TRUE, txFrm', given', GivenBack, Len(given) + 1)
    BY <2>1, <2>2, <2>4, <2>6, <2>7, <2>8, <2>9, HoldsAdd
  <2>11. /\ Len(wire) <= Len(given) /\ \A k \in 1 .. Len(wire) : wire[k] = given[k]
         /\ IF fRunning THEN fTxRingIndex = Slot(GivenBack) ELSE wire = <<>>
    BY <2>3 DEF FrameInv, TxFrames
  <2>12. \A k \in 1 .. Len(wire) : wire[k] = given'[k]
    <3> SUFFICES ASSUME NEW k \in 1 .. Len(wire) PROVE wire[k] = given'[k]
      OBVIOUS
    <3>1. k \in 1 .. Len(given)
      BY <2>2, <2>11
    <3> QED
      BY <2>2, <2>11, <3>1
  <2>13. Len(wire') <= Len(given') /\ \A k \in 1 .. Len(wire') : wire'[k] = given'[k]
    BY <2>2, <2>4, <2>11, <2>12
  <2>14. cpu'.tx = Slot(Len(given')) /\ GivenBack' \in Nat
    BY <2>5, <2>6
  <2>15. Holds(txOwn', TRUE, txFrm', given', GivenBack', Len(given'))
    BY <2>2, <2>6, <2>10
  <2>16. IF fRunning' THEN fTxRingIndex' = Slot(GivenBack') ELSE wire' = <<>>
    BY <2>4, <2>6, <2>11
  <2> QED
    BY <2>13, <2>14, <2>15, <2>16 DEF TxFrames
<1>6. RxCopies'
  BY DEF FrameInv, RxCopies, CpuGive, Host
<1>7. RxFrames'
  BY DEF FrameInv, RxFrames, Moved, Filling, Inv, Types, Drivers, CpuGive, Host
<1> QED
  BY <1>1, <1>2, <1>3, <1>4, <1>5, <1>6, <1>7 DEF FrameInv

\* The first filled buffer is read and given back.
LEMMA CpuTakeFrames ==
  ASSUME Inv, FrameInv, CpuTake
  PROVE  FrameInv'
<1> USE DEF memory, setup, tx, rx, frames
<1>1. FrameTypes'
  <2>1. rxBuf[cpu.rx] \in Nat /\ cpu.rx \in Entries
    BY DEF FrameInv, FrameTypes, Inv, Types, Drivers
  <2>2. Append(got, rxBuf[cpu.rx]) \in Seq(Nat)
    BY <2>1, QueueFacts DEF FrameInv, FrameTypes
  <2>3. rxBuf' \in [Entries -> Nat]
    BY <2>1 DEF CpuTake, Empty, FrameInv, FrameTypes
  <2> QED
    BY <2>2, <2>3 DEF FrameInv, FrameTypes, CpuTake, Host
<1>2. Starting'
  BY DEF FrameInv, Starting, ReadFlagged, CpuTake, Host
<1>3. Stopping'
  BY DEF FrameInv, Stopping, Flagged, ReadFlagged, CpuTake, Host
<1>4. TxCopies'
  BY DEF FrameInv, TxCopies, CpuTake, Host
<1>5. TxFrames'
  BY DEF FrameInv, TxFrames, GivenBack, Inv, Types, Drivers, CpuTake, Host
<1>6. RxCopies'
  BY DEF FrameInv, RxCopies, CpuTake, Host
<1>7. RxFrames'
  <2> SUFFICES ASSUME ~aux.pdmdRx PROVE RxFrames'
    BY DEF RxFrames, CpuTake
  <2>1. /\ cpu.run /\ ~rxOwn[cpu.rx] /\ cpu.rx = Slot(Len(got)) /\ Moved \in Nat /\ Filling \in Nat
        /\ \A k \in 1 .. Len(got) : got[k] = acc[k]
        /\ \A k \in 1 .. Len(fRxBufQueue) : fRxBufQueue[k] = acc[Moved + k]
        /\ Holds(rxOwn, FALSE, rxBuf, acc, Len(got), Moved)
        /\ IF fRunning THEN fRxRingIndex = Slot(Filling) ELSE Moved = 0
    BY DEF CpuTake, FrameInv, RxFrames
  <2>2. rxOwn \in [Entries -> BOOLEAN] /\ rxBuf \in [Entries -> Nat] /\ Len(got) \in Nat
    BY LenProperties DEF FrameInv, FrameTypes, Inv, Types
  <2>3. Slot(Len(got)) \in Entries /\ rxOwn[Slot(Len(got))] = FALSE
    BY <2>1, <2>2, SlotOf
  <2>4. Len(got) < Moved /\ rxBuf[Slot(Len(got))] = acc[Len(got) + 1]
    <3>1. Moved \in Nat /\ Holds(rxOwn, FALSE, rxBuf, acc, Len(got), Moved)
      BY <2>1
    <3>2. RingSize \in Nat /\ RingSize > 0
      BY DeunaAssumption
    <3> QED
      BY <2>2, <2>3, <3>1, <3>2 DEF Holds
  <2>5. /\ Len(got') = Len(got) + 1 /\ got'[Len(got) + 1] = acc[Len(got) + 1]
        /\ \A k \in 1 .. Len(got) : got'[k] = got[k]
    <3>1. got \in Seq(Nat) /\ rxBuf[Slot(Len(got))] \in Nat
      BY <2>2, <2>3 DEF FrameInv, FrameTypes
    <3>2. got' = Append(got, rxBuf[Slot(Len(got))])
      BY <2>1 DEF CpuTake
    <3> QED
      BY <2>4, <3>1, <3>2, AppendProperties
  <2>6. \A k \in 1 .. Len(got') : got'[k] = acc[k]
    BY <2>1, <2>2, <2>5
  <2>7. /\ rxOwn' = [rxOwn EXCEPT ![Slot(Len(got))] = ~FALSE]
        /\ rxBuf' = [rxBuf EXCEPT ![Slot(Len(got))] = Empty]
        /\ UNCHANGED <<acc, fRxBufQueue, pc, fRunning, fRxRingIndex>>
    BY <2>1 DEF CpuTake, Host
  <2>8. \A e \in Entries : e # Slot(Len(got)) => rxBuf'[e] = rxBuf[e]
    BY <2>2, <2>7
  <2>9. Holds(rxOwn', FALSE, rxBuf', acc, Len(got) + 1, Moved)
    BY <2>1, <2>2, <2>3, <2>7, <2>8, HoldsTake
  <2>10. cpu'.rx = Slot(Len(got'))
    <3>1. cpu'.rx = RingIndexNext(Slot(Len(got)), 1)
      BY <2>1 DEF CpuTake, Inv, Types, Drivers
    <3> QED
      BY <2>2, <2>5, <3>1, SlotMove
  <2>11. Moved' = Moved /\ Filling' = Filling
    BY <2>7 DEF Moved, Filling
  <2> QED
    BY <2>1, <2>5, <2>6, <2>7, <2>9, <2>10, <2>11 DEF RxFrames
<1> QED
  BY <1>1, <1>2, <1>3, <1>4, <1>5, <1>6, <1>7 DEF FrameInv

\* A reset ends what the driver does.
LEMMA CpuResetFrames ==
  ASSUME Inv, FrameInv, NEW f \in {"rset", "brst"}, CpuReset(f)
  PROVE  FrameInv'
<1> USE DEF memory, setup, tx, rx, frames
<1>1. FrameTypes'
  BY DEF FrameInv, FrameTypes, CpuReset, Host
<1>2. Starting'
  BY DEF FrameInv, Starting, Flagged, ReadFlagged, Inv, Types, Regs, CpuReset, Host
<1>3. Stopping'
  BY DEF FrameInv, Stopping, Inv, Types, Regs, Drivers, CpuReset
<1>4. TxCopies'
  BY DEF FrameInv, TxCopies, CpuReset, Host
<1>5. TxFrames'
  BY DEF FrameInv, TxFrames, Inv, Types, Drivers, CpuReset
<1>6. RxCopies'
  BY DEF FrameInv, RxCopies, Inv, Types, Auxs, CpuReset, Host
<1>7. RxFrames'
  BY DEF FrameInv, RxFrames, Inv, Types, Drivers, CpuReset
<1> QED
  BY <1>1, <1>2, <1>3, <1>4, <1>5, <1>6, <1>7 DEF FrameInv

\* PR0 is read with the attention.
LEMMA AttnReadFrames ==
  ASSUME Inv, FrameInv, AttnRead
  PROVE  FrameInv'
<1> USE DEF memory, setup, tx, rx, frames
<1>1. FrameTypes'
  BY DEF FrameInv, FrameTypes, AttnRead
<1>2. Starting'
  BY DEF FrameInv, Starting, Flagged, ReadFlagged, AttnRead
<1>3. Stopping'
  BY DEF FrameInv, Stopping, Flagged, ReadFlagged, AttnRead
<1>4. TxCopies'
  BY DEF FrameInv, TxCopies, AttnRead
<1>5. TxFrames'
  BY DEF FrameInv, TxFrames, GivenBack, AttnRead
<1>6. RxCopies'
  BY DEF FrameInv, RxCopies, AttnRead
<1>7. RxFrames'
  BY DEF FrameInv, RxFrames, Moved, Filling, AttnRead
<1> QED
  BY <1>1, <1>2, <1>3, <1>4, <1>5, <1>6, <1>7 DEF FrameInv

\* The primary list reads the tx descriptor at the ring index.
LEMMA AttnDscFrames ==
  ASSUME Inv, FrameInv, AttnDsc
  PROVE  FrameInv'
<1> USE DEF memory, setup, tx, rx, frames
<1>1. FrameTypes'
  BY DEF FrameInv, FrameTypes, AttnDsc
<1>2. Starting'
  BY DEF FrameInv, Starting, Flagged, ReadFlagged, AttnDsc
<1>3. Stopping'
  BY DEF FrameInv, Stopping, Flagged, ReadFlagged, AttnDsc
<1>4. TxCopies'
  BY DEF FrameInv, TxCopies, AttnDsc, TxDsc
<1>5. TxFrames'
  BY DEF FrameInv, TxFrames, GivenBack, AttnDsc
<1>6. RxCopies'
  BY DEF FrameInv, RxCopies, AttnDsc
<1>7. RxFrames'
  BY DEF FrameInv, RxFrames, Moved, Filling, AttnDsc
<1> QED
  BY <1>1, <1>2, <1>3, <1>4, <1>5, <1>6, <1>7 DEF FrameInv

\* A reset stops a device the driver does not use.
LEMMA CmdResetFrames ==
  ASSUME Inv, FrameInv, CmdReset
  PROVE  FrameInv'
<1> USE DEF memory, setup, tx, rx, frames
<1>1. FrameTypes'
  BY DEF FrameInv, FrameTypes, CmdReset, Reset
<1>2. Starting'
  BY DEF FrameInv, Starting, Flagged, CmdReset, Reset, StopRings
<1>3. Stopping'
  BY DEF FrameInv, Stopping, CmdReset, Reset, StopRings
<1>4. TxCopies'
  BY DEF FrameInv, TxCopies, CmdReset, Reset, StopRings
<1>5. TxFrames'
  <2>1. ~(cpu.run /\ fRunning)
    BY DEF FrameInv, Stopping, ReadFlagged, CmdReset
  <2>2. /\ cpu' = cpu /\ (fRunning' => fRunning)
        /\ UNCHANGED <<wire, given, txOwn, txFrm>>
    BY DEF CmdReset, Reset, StopRings, Inv, Types, Auxs
  <2>3. GivenBack' = GivenBack
    BY <2>2 DEF GivenBack, CmdReset, Reset, StopRings
  <2> QED
    BY <2>1, <2>2, <2>3 DEF FrameInv, TxFrames
<1>6. RxCopies'
  BY DEF FrameInv, RxCopies, CmdReset, Reset, StopRings
<1>7. RxFrames'
  <2>1. ~(cpu.run /\ fRunning)
    BY DEF FrameInv, Stopping, ReadFlagged, CmdReset
  <2>2. /\ cpu' = cpu /\ (fRunning' => fRunning)
        /\ UNCHANGED <<got, acc, rxOwn, rxBuf, fRxBufQueue, aux.pdmdRx>>
    BY DEF CmdReset, Reset, StopRings, Inv, Types, Auxs
  <2>3. Moved' = Moved /\ Filling' = Filling
    BY <2>2 DEF Moved, Filling, CmdReset, Reset, StopRings
  <2> QED
    BY <2>1, <2>2, <2>3 DEF FrameInv, RxFrames
<1> QED
  BY <1>1, <1>2, <1>3, <1>4, <1>5, <1>6, <1>7 DEF FrameInv

\* So does a self test.
LEMMA CmdSelftstFrames ==
  ASSUME Inv, FrameInv, CmdSelftst
  PROVE  FrameInv'
<1> USE DEF memory, setup, tx, rx, frames
<1>1. FrameTypes'
  BY DEF FrameInv, FrameTypes, CmdSelftst, Reset
<1>2. Starting'
  BY DEF FrameInv, Starting, CmdSelftst, Reset, StopRings
<1>3. Stopping'
  BY DEF FrameInv, Stopping, CmdSelftst, Reset, StopRings
<1>4. TxCopies'
  BY DEF FrameInv, TxCopies, CmdSelftst, Reset, StopRings
<1>5. TxFrames'
  <2>1. ~(cpu.run /\ fRunning)
    BY DEF FrameInv, Stopping, ReadFlagged, CmdSelftst, Command, Stops
  <2>2. /\ cpu' = cpu /\ (fRunning' => fRunning)
        /\ UNCHANGED <<wire, given, txOwn, txFrm>>
    BY DEF CmdSelftst, Reset, StopRings, Command, Inv, Types, Auxs
  <2>3. GivenBack' = GivenBack
    BY <2>2 DEF GivenBack, CmdSelftst, Reset, StopRings, Command
  <2> QED
    BY <2>1, <2>2, <2>3 DEF FrameInv, TxFrames
<1>6. RxCopies'
  BY DEF FrameInv, RxCopies, CmdSelftst, Reset, StopRings
<1>7. RxFrames'
  <2>1. ~(cpu.run /\ fRunning)
    BY DEF FrameInv, Stopping, ReadFlagged, CmdSelftst, Command, Stops
  <2>2. /\ cpu' = cpu /\ (fRunning' => fRunning)
        /\ UNCHANGED <<got, acc, rxOwn, rxBuf, fRxBufQueue, aux.pdmdRx>>
    BY DEF CmdSelftst, Reset, StopRings, Command, Inv, Types, Auxs
  <2>3. Moved' = Moved /\ Filling' = Filling
    BY <2>2 DEF Moved, Filling, CmdSelftst, Reset, StopRings, Command
  <2> QED
    BY <2>1, <2>2, <2>3 DEF FrameInv, RxFrames
<1> QED
  BY <1>1, <1>2, <1>3, <1>4, <1>5, <1>6, <1>7 DEF FrameInv

\* Nothing to do.
LEMMA CmdNoopFrames ==
  ASSUME Inv, FrameInv, CmdNoop
  PROVE  FrameInv'
<1> USE DEF memory, setup, tx, rx, frames
<1>1. FrameTypes'
  BY DEF FrameInv, FrameTypes, CmdNoop
<1>2. Starting'
  BY DEF FrameInv, Starting, Flagged, CmdNoop, Command
<1>3. Stopping'
  BY DEF FrameInv, Stopping, Flagged, CmdNoop
<1>4. TxCopies'
  BY DEF FrameInv, TxCopies, CmdNoop
<1>5. TxFrames'
  BY DEF FrameInv, TxFrames, GivenBack, CmdNoop, Command
<1>6. RxCopies'
  BY DEF FrameInv, RxCopies, CmdNoop, Command
<1>7. RxFrames'
  BY DEF FrameInv, RxFrames, Moved, Filling, CmdNoop, Command
<1> QED
  BY <1>1, <1>2, <1>3, <1>4, <1>5, <1>6, <1>7 DEF FrameInv

\* Rings are made valid while no START is forgotten.
LEMMA CmdSetupFrames ==
  ASSUME Inv, FrameInv, NEW c \in Cmds, CmdSetup(c)
  PROVE  FrameInv'
<1> USE DEF memory, setup, tx, rx, frames
<1>1. FrameTypes'
  BY DEF FrameInv, FrameTypes, CmdSetup
<1>2. Starting'
  BY DEF FrameInv, Starting, Flagged, ReadFlagged, Drivers, Rings, CmdSetup, Command,
     Answer, NoPr0
<1>3. Stopping'
  BY DEF FrameInv, Stopping, Flagged, CmdSetup, Answer
<1>4. TxCopies'
  BY DEF FrameInv, TxCopies, CmdSetup, Command
<1>5. TxFrames'
  BY DEF FrameInv, TxFrames, GivenBack, CmdSetup, Command, Answer
<1>6. RxCopies'
  BY DEF FrameInv, RxCopies, CmdSetup, Command
<1>7. RxFrames'
  BY DEF FrameInv, RxFrames, Moved, Filling, CmdSetup, Command, Answer
<1> QED
  BY <1>1, <1>2, <1>3, <1>4, <1>5, <1>6, <1>7 DEF FrameInv

\* START sets both indices to the first entry, where the driver began.
LEMMA CmdStartFrames ==
  ASSUME Inv, FrameInv, CmdStart
  PROVE  FrameInv'
<1> USE DEF memory, setup, tx, rx, frames
<1>1. FrameTypes'
  BY DEF FrameInv, FrameTypes, CmdStart
<1>2. Starting'
  BY DEF FrameInv, Starting, Flagged, ReadFlagged, CmdStart, Command, Answer, NoPr0
<1>3. Stopping'
  BY DEF FrameInv, Stopping, Flagged, ReadFlagged, CmdStart, Command, Answer
<1>4. TxCopies'
  <2>1. CASE fPr1State = "ready" /\ fRingValid
    <3>1. fTxRingState = "idle"
      BY <2>1 DEF Inv, Types, Rings, TxRing
    <3>2. fTxDscCur' = TxDsc(0) /\ fTxRingIndex' = 0 /\ pc' = "pr1" /\ txOwn' = txOwn
      BY <2>1, <3>1 DEF CmdStart, StartTxRing, Answer
    <3> QED
      BY <3>2 DEF TxCopies, TxDsc
  <2>2. CASE ~(fPr1State = "ready" /\ fRingValid)
    BY <2>2 DEF FrameInv, TxCopies, CmdStart, Command, Answer
  <2> QED
    BY <2>1, <2>2
<1>5. TxFrames'
  <2>1. CASE fPr1State = "ready" /\ fRingValid
    <3>1. ~fRunning /\ pc = "cmd"
      BY <2>1 DEF Inv, Rings, CmdStart, Command
    <3>2. /\ fRunning' = TRUE /\ fTxRingIndex' = 0 /\ pc' = "pr1"
          /\ UNCHANGED <<cpu, txOwn, txFrm, wire, given>>
      BY <2>1 DEF CmdStart, Answer
    <3>3. GivenBack' = GivenBack
      BY <3>1, <3>2 DEF GivenBack
    <3>4. cpu.run => GivenBack = 0
      BY <3>1 DEF GivenBack, FrameInv, TxFrames
    <3> QED
      BY <3>1, <3>2, <3>3, <3>4, SlotZero DEF FrameInv, TxFrames
  <2>2. CASE ~(fPr1State = "ready" /\ fRingValid)
    BY <2>2 DEF FrameInv, TxFrames, GivenBack, CmdStart, Command, Answer
  <2> QED
    BY <2>1, <2>2
<1>6. RxCopies'
  <2>1. CASE fPr1State = "ready" /\ fRingValid
    <3>1. fRxRingState = "idle"
      BY <2>1 DEF FrameInv, RxCopies, Inv, Types, Rings
    <3>2. fRxDscCur' = RxDsc(0) /\ fRxRingIndex' = 0 /\ fRunning' = TRUE /\ rxOwn' = rxOwn
      BY <2>1, <3>1 DEF CmdStart, StartRxRing
    <3> QED
      BY <3>2 DEF RxCopies, RxDsc
  <2>2. CASE ~(fPr1State = "ready" /\ fRingValid)
    BY <2>2 DEF FrameInv, RxCopies, CmdStart, Command, Answer
  <2> QED
    BY <2>1, <2>2
<1>7. RxFrames'
  <2>1. CASE fPr1State = "ready" /\ fRingValid
    <3>1. ~fRunning /\ pc = "cmd"
      BY <2>1 DEF Inv, Rings, CmdStart, Command
    <3>2. /\ fRunning' = TRUE /\ fRxRingIndex' = 0 /\ pc' = "pr1" /\ aux'.pdmdRx = aux.pdmdRx
          /\ UNCHANGED <<cpu, rxOwn, rxBuf, got, acc, fRxBufQueue>>
      BY <2>1 DEF CmdStart, Answer, Inv, Types, Auxs
    <3>3. Moved' = Moved /\ Filling' = Filling /\ Filling = Moved
      BY <3>1, <3>2 DEF Moved, Filling
    <3>4. cpu.run /\ ~aux.pdmdRx => Moved = 0
      BY <3>1 DEF FrameInv, RxFrames
    <3> QED
      BY <3>1, <3>2, <3>3, <3>4, SlotZero DEF FrameInv, RxFrames
  <2>2. CASE ~(fPr1State = "ready" /\ fRingValid)
    BY <2>2 DEF FrameInv, RxFrames, Moved, Filling, CmdStart, Command, Answer
  <2> QED
    BY <2>1, <2>2
<1> QED
  BY <1>1, <1>2, <1>3, <1>4, <1>5, <1>6, <1>7 DEF FrameInv

\* PDMD uses the copies of the primary list.
LEMMA CmdPdmdFrames ==
  ASSUME Inv, FrameInv, CmdPdmd
  PROVE  FrameInv'
<1> USE DEF memory, setup, tx, rx, frames
<1>1. FrameTypes'
  BY DEF FrameInv, FrameTypes, CmdPdmd
<1>2. Starting'
  BY DEF FrameInv, Starting, Flagged, ReadFlagged, CmdPdmd, Command, Answer, NoPr0
<1>3. Stopping'
  BY DEF FrameInv, Stopping, Flagged, CmdPdmd, Answer
<1>4. TxCopies'
  <2>1. /\ fTxDscCur' \in {fTxDscCur, dscPC.tx} /\ pc = "cmd" /\ pc' = "pr1"
        /\ UNCHANGED <<txOwn, fTxRingIndex, fRunning>>
    BY DEF CmdPdmd, Command, Answer, StartTxRing
  <2> QED
    BY <2>1 DEF FrameInv, TxCopies
<1>5. TxFrames'
  BY DEF FrameInv, TxFrames, GivenBack, CmdPdmd, Command, Answer
<1>6. RxCopies'
  <2>1. CASE fRunning /\ fRxRingState # "busy"
    <3>1. aux'.pdmdRx <=> aux.pdmdRx \/ queued'.rx > 0
      BY <2>1 DEF CmdPdmd, Inv, Types, Auxs
    <3>2. fRunning' = fRunning
      BY DEF CmdPdmd
    <3> QED
      BY <2>1, <3>1, <3>2 DEF RxCopies
  <2>2. CASE fRunning /\ fRxRingState = "busy"
    <3>1. /\ UNCHANGED <<fRxDscCur, fRxRingState, fRunning, fRxRingIndex, rxOwn>>
          /\ queued'.rx = queued.rx /\ pc # "rx" /\ (~aux'.pdmdRx => ~aux.pdmdRx)
      BY <2>2 DEF CmdPdmd, Command, StartRxRing, RxStarts, Queued, Inv, Types, Auxs
    <3> QED
      BY <3>1 DEF FrameInv, RxCopies
  <2>3. CASE ~fRunning
    BY <2>3 DEF FrameInv, RxCopies, CmdPdmd, Command, Answer
  <2> QED
    BY <2>1, <2>2, <2>3
<1>7. RxFrames'
  <2>1. /\ UNCHANGED <<cpu, fRunning, fRxRingIndex, rxOwn, rxBuf, got, acc, fRxBufQueue>>
        /\ pc = "cmd" /\ pc' = "pr1" /\ (~aux'.pdmdRx => ~aux.pdmdRx)
    BY DEF CmdPdmd, Command, Answer, Inv, Types, Auxs
  <2>2. Moved' = Moved /\ Filling' = Filling
    BY <2>1 DEF Moved, Filling
  <2> QED
    BY <2>1, <2>2 DEF FrameInv, RxFrames
<1> QED
  BY <1>1, <1>2, <1>3, <1>4, <1>5, <1>6, <1>7 DEF FrameInv

\* HALT stops a device the driver does not use.
LEMMA CmdHaltFrames ==
  ASSUME Inv, FrameInv, CmdHalt
  PROVE  FrameInv'
<1> USE DEF memory, setup, tx, rx, frames
<1>1. FrameTypes'
  BY DEF FrameInv, FrameTypes, CmdHalt
<1>2. Starting'
  BY DEF FrameInv, Starting, Flagged, ReadFlagged, CmdHalt, Command, Answer, NoPr0,
     StopRings
<1>3. Stopping'
  BY DEF FrameInv, Stopping, Flagged, ReadFlagged, CmdHalt, Command, Answer
<1>4. TxCopies'
  BY DEF FrameInv, TxCopies, CmdHalt, Command, StopRings
<1>5. TxFrames'
  <2>1. ~(cpu.run /\ fRunning)
    BY DEF FrameInv, Stopping, ReadFlagged, CmdHalt, Command, Stops
  <2>2. /\ cpu' = cpu /\ (fRunning' => fRunning)
        /\ UNCHANGED <<wire, given, txOwn, txFrm>>
    BY DEF CmdHalt, Command, Answer, StopRings, Inv, Types, Auxs
  <2>3. GivenBack' = GivenBack
    BY <2>2 DEF GivenBack, CmdHalt, Command, Answer, StopRings
  <2> QED
    BY <2>1, <2>2, <2>3 DEF FrameInv, TxFrames
<1>6. RxCopies'
  BY DEF FrameInv, RxCopies, CmdHalt, Command, StopRings
<1>7. RxFrames'
  <2>1. ~(cpu.run /\ fRunning)
    BY DEF FrameInv, Stopping, ReadFlagged, CmdHalt, Command, Stops
  <2>2. /\ cpu' = cpu /\ (fRunning' => fRunning)
        /\ UNCHANGED <<got, acc, rxOwn, rxBuf, fRxBufQueue, aux.pdmdRx>>
    BY DEF CmdHalt, Command, Answer, StopRings, Inv, Types, Auxs
  <2>3. Moved' = Moved /\ Filling' = Filling
    BY <2>2 DEF Moved, Filling, CmdHalt, Command, Answer, StopRings
  <2> QED
    BY <2>1, <2>2, <2>3 DEF FrameInv, RxFrames
<1> QED
  BY <1>1, <1>2, <1>3, <1>4, <1>5, <1>6, <1>7 DEF FrameInv

\* So does STOP.
LEMMA CmdStopFrames ==
  ASSUME Inv, FrameInv, CmdStop
  PROVE  FrameInv'
<1> USE DEF memory, setup, tx, rx, frames
<1>1. FrameTypes'
  BY DEF FrameInv, FrameTypes, CmdStop
<1>2. Starting'
  BY DEF FrameInv, Starting, Flagged, ReadFlagged, Inv, Rings, CmdStop, Command, Answer,
     NoPr0
<1>3. Stopping'
  BY DEF FrameInv, Stopping, Flagged, ReadFlagged, CmdStop, Command, Answer
<1>4. TxCopies'
  BY DEF FrameInv, TxCopies, CmdStop, Command, StopRings
<1>5. TxFrames'
  <2>1. ~(cpu.run /\ fRunning)
    BY DEF FrameInv, Stopping, ReadFlagged, CmdStop, Command, Stops
  <2>2. /\ cpu' = cpu /\ (fRunning' => fRunning)
        /\ UNCHANGED <<wire, given, txOwn, txFrm>>
    BY DEF CmdStop, Command, Answer, StopRings, Inv, Types, Auxs
  <2>3. GivenBack' = GivenBack
    BY <2>2 DEF GivenBack, CmdStop, Command, Answer, StopRings
  <2> QED
    BY <2>1, <2>2, <2>3 DEF FrameInv, TxFrames
<1>6. RxCopies'
  BY DEF FrameInv, RxCopies, Inv, Rings, CmdStop, StopRings
<1>7. RxFrames'
  <2>1. ~(cpu.run /\ fRunning)
    BY DEF FrameInv, Stopping, ReadFlagged, CmdStop, Command, Stops
  <2>2. /\ cpu' = cpu /\ (fRunning' => fRunning)
        /\ UNCHANGED <<got, acc, rxOwn, rxBuf, fRxBufQueue, aux.pdmdRx>>
    BY DEF CmdStop, Command, Answer, StopRings, Inv, Types, Auxs
  <2>3. Moved' = Moved /\ Filling' = Filling
    BY <2>2 DEF Moved, Filling, CmdStop, Command, Answer, StopRings
  <2> QED
    BY <2>1, <2>2, <2>3 DEF FrameInv, RxFrames
<1> QED
  BY <1>1, <1>2, <1>3, <1>4, <1>5, <1>6, <1>7 DEF FrameInv

\* PR1 shows whether the device runs.
LEMMA WritePr1Frames ==
  ASSUME Inv, FrameInv, WritePr1
  PROVE  FrameInv'
<1> USE DEF memory, setup, tx, rx, frames
<1>1. FrameTypes'
  BY DEF FrameInv, FrameTypes, WritePr1
<1>2. Starting'
  BY DEF FrameInv, Starting, Flagged, ReadFlagged, Inv, Rings, WritePr1
<1>3. Stopping'
  BY DEF FrameInv, Stopping, Flagged, WritePr1
<1>4. TxCopies'
  BY DEF FrameInv, TxCopies, WritePr1
<1>5. TxFrames'
  BY DEF FrameInv, TxFrames, GivenBack, WritePr1
<1>6. RxCopies'
  BY DEF FrameInv, RxCopies, WritePr1
<1>7. RxFrames'
  BY DEF FrameInv, RxFrames, Moved, Filling, WritePr1
<1> QED
  BY <1>1, <1>2, <1>3, <1>4, <1>5, <1>6, <1>7 DEF FrameInv

\* The answer ends a command, and a reset that was read.
LEMMA WritePr0Frames ==
  ASSUME Inv, FrameInv, WritePr0
  PROVE  FrameInv'
<1> USE DEF memory, setup, tx, rx, frames
<1>1. FrameTypes'
  BY DEF FrameInv, FrameTypes, WritePr0
<1>2. Starting'
  BY DEF FrameInv, FrameTypes, Starting, Flagged, ReadFlagged, WritePr0
<1>3. Stopping'
  BY DEF FrameInv, Stopping, Stops, Flagged, Inv, Types, Regs, WritePr0
<1>4. TxCopies'
  BY DEF FrameInv, TxCopies, WritePr0
<1>5. TxFrames'
  BY DEF FrameInv, TxFrames, GivenBack, WritePr0
<1>6. RxCopies'
  BY DEF FrameInv, RxCopies, WritePr0
<1>7. RxFrames'
  BY DEF FrameInv, RxFrames, Moved, Filling, Inv, Types, Auxs, WritePr0
<1> QED
  BY <1>1, <1>2, <1>3, <1>4, <1>5, <1>6, <1>7 DEF FrameInv

\* The frame of the entry at the ring index is sent.
LEMMA TxRingHandlerFrames ==
  ASSUME Inv, FrameInv, TxRingHandler
  PROVE  FrameInv'
<1> USE DEF memory, setup, tx, rx, frames
<1>1. FrameTypes'
  <2>1. wire' \in Seq(Nat)
    <3>1. txFrm[fTxDscCur.seg] \in Nat
      BY DEF FrameInv, FrameTypes, Inv, Types, Dsc
    <3>2. wire' \in {wire, Append(wire, txFrm[fTxDscCur.seg])}
      BY DEF TxRingHandler
    <3> QED
      BY <3>1, <3>2, QueueFacts DEF FrameInv, FrameTypes
  <2> QED
    BY <2>1 DEF FrameInv, FrameTypes, TxRingHandler
<1>2. Starting'
  BY DEF FrameInv, Starting, Flagged, TxRingHandler
<1>3. Stopping'
  BY DEF FrameInv, Stopping, Flagged, TxRingHandler
<1>4. TxCopies'
  BY DEF FrameInv, TxCopies, TxRingHandler
<1>5. TxFrames'
  <2>1. CASE fRunning /\ fTxDscCur.own /\ cpu.run
    <3>1. /\ wire' = Append(wire, txFrm[fTxDscCur.seg]) /\ pc = "idle" /\ pc' = "tx"
          /\ UNCHANGED <<cpu, fRunning, fTxRingIndex, txOwn, txFrm, given>>
      BY <2>1 DEF TxRingHandler
    <3>2. /\ Len(wire) \in Nat /\ Len(given) \in Nat /\ wire \in Seq(Nat)
          /\ txOwn \in [Entries -> BOOLEAN]
      BY LenProperties DEF FrameInv, FrameTypes, Inv, Types
    <3>3. GivenBack = Len(wire)
      BY <3>1, <3>2 DEF GivenBack
    <3>4. /\ \A k \in 1 .. Len(wire) : wire[k] = given[k]
          /\ cpu.tx = Slot(Len(given)) /\ fTxRingIndex = Slot(Len(wire))
          /\ Holds(txOwn, TRUE, txFrm, given, Len(wire), Len(given))
      BY <2>1, <3>3 DEF FrameInv, TxFrames
    <3>5. fTxDscCur.seg = Slot(Len(wire)) /\ txOwn[Slot(Len(wire))] = TRUE
      BY <2>1, <3>2, <3>4, SlotOf DEF FrameInv, TxCopies
    <3>6. Len(wire) < Len(given) /\ txFrm[Slot(Len(wire))] = given[Len(wire) + 1]
      <4>1. Holds(txOwn, TRUE, txFrm, given, Len(wire), Len(given))
        BY <3>4
      <4>2. RingSize \in Nat /\ RingSize > 0
        BY DeunaAssumption
      <4> QED
        BY <3>2, <3>5, <4>1, <4>2 DEF Holds
    <3>7. txFrm[fTxDscCur.seg] \in Nat
      BY DEF FrameInv, FrameTypes, Inv, Types, Dsc
    <3>8. /\ Len(wire') = Len(wire) + 1 /\ wire'[Len(wire) + 1] = given[Len(wire) + 1]
          /\ \A k \in 1 .. Len(wire) : wire'[k] = wire[k]
      BY <3>1, <3>2, <3>5, <3>6, <3>7, AppendProperties
    <3>9. \A k \in 1 .. Len(wire') : wire'[k] = given'[k]
      BY <3>1, <3>2, <3>4, <3>8
    <3>10. GivenBack' = Len(wire)
      BY <3>1, <3>2, <3>8 DEF GivenBack
    <3>11. Len(wire') <= Len(given') /\ GivenBack' \in Nat
      BY <3>1, <3>2, <3>6, <3>8, <3>10
    <3>12. Holds(txOwn', TRUE, txFrm', given', GivenBack', Len(given'))
      BY <3>1, <3>4, <3>10
    <3> QED
      BY <2>1, <3>1, <3>4, <3>9, <3>10, <3>11, <3>12 DEF TxFrames
  <2>2. CASE ~(fRunning /\ fTxDscCur.own /\ cpu.run)
    <3>1. CASE ~cpu.run
      BY <3>1 DEF TxFrames, TxRingHandler
    <3>2. CASE ~(fRunning /\ fTxDscCur.own)
      BY <3>2 DEF FrameInv, TxFrames, GivenBack, TxRingHandler
    <3> QED
      BY <2>2, <3>1, <3>2
  <2> QED
    BY <2>1, <2>2
<1>6. RxCopies'
  BY DEF FrameInv, RxCopies, Inv, Types, TxRingHandler
<1>7. RxFrames'
  BY DEF FrameInv, RxFrames, Moved, Filling, TxRingHandler
<1> QED
  BY <1>1, <1>2, <1>3, <1>4, <1>5, <1>6, <1>7 DEF FrameInv

\* Its descriptor is given back.
LEMMA TxUpdateFrames ==
  ASSUME Inv, FrameInv, TxUpdate
  PROVE  FrameInv'
<1> USE DEF memory, setup, tx, rx, frames
<1>1. FrameTypes'
  BY DEF FrameInv, FrameTypes, TxUpdate
<1>2. Starting'
  BY DEF FrameInv, Starting, Flagged, TxUpdate
<1>3. Stopping'
  BY DEF FrameInv, Stopping, Flagged, TxUpdate
<1>4. TxCopies'
  BY DEF FrameInv, TxCopies, TxUpdate
<1>5. TxFrames'
  <2> SUFFICES ASSUME cpu.run PROVE TxFrames'
    BY DEF TxFrames, TxUpdate
  <2>1. /\ pc = "tx" /\ pc' = "idle" /\ fRunning
        /\ txOwn' = [txOwn EXCEPT ![fTxRingIndex] = FALSE]
        /\ fTxRingIndex' = RingIndexNext(fTxRingIndex, 1)
        /\ UNCHANGED <<cpu, fRunning, txFrm, given, wire>>
    BY DEF TxUpdate, Inv, TxRing
  <2>2. /\ Len(wire) \in Nat /\ Len(given) \in Nat /\ wire \in Seq(Nat)
        /\ txOwn \in [Entries -> BOOLEAN]
    BY LenProperties DEF FrameInv, FrameTypes, Inv, Types
  <2>3. GivenBack' = GivenBack + 1 /\ GivenBack + 1 = Len(wire) /\ GivenBack \in Nat
    BY <2>1, <2>2 DEF GivenBack, FrameInv, TxFrames
  <2>4. /\ Len(wire) <= Len(given) /\ \A k \in 1 .. Len(wire) : wire[k] = given[k]
        /\ cpu.tx = Slot(Len(given)) /\ fTxRingIndex = Slot(GivenBack)
    BY <2>1 DEF FrameInv, TxFrames
  <2>5. Holds(txOwn, TRUE, txFrm, given, GivenBack, Len(given))
    BY DEF FrameInv, TxFrames
  <2>6. txOwn[Slot(GivenBack)] = TRUE
    <3>1. GivenBack < Len(given) /\ RingSize > 0 /\ RingSize \in Nat
      BY <2>2, <2>3, <2>4, DeunaAssumption
    <3> QED
      BY <2>3, <2>5, <3>1 DEF Holds
  <2>7. txOwn' = [txOwn EXCEPT ![Slot(GivenBack)] = ~TRUE]
    BY <2>1, <2>4
  <2>8. Holds(txOwn', TRUE, txFrm, given, GivenBack + 1, Len(given))
    BY <2>2, <2>3, <2>5, <2>6, <2>7, HoldsTake
  <2>9. Holds(txOwn', TRUE, txFrm', given', GivenBack', Len(given'))
    BY <2>1, <2>3, <2>8
  <2>10. fTxRingIndex' = Slot(GivenBack') /\ GivenBack' \in Nat
    BY <2>1, <2>2, <2>3, <2>4, SlotMove
  <2> QED
    BY <2>1, <2>4, <2>9, <2>10 DEF TxFrames
<1>6. RxCopies'
  BY DEF FrameInv, RxCopies, Inv, Types, TxUpdate
<1>7. RxFrames'
  BY DEF FrameInv, RxFrames, Moved, Filling, TxUpdate
<1> QED
  BY <1>1, <1>2, <1>3, <1>4, <1>5, <1>6, <1>7 DEF FrameInv

\* The first frame of the queue goes to the entry at the ring index.
LEMMA RxRingHandlerFrames ==
  ASSUME Inv, FrameInv, RxRingHandler
  PROVE  FrameInv'
<1> USE DEF memory, setup, tx, rx, frames
<1>1. FrameTypes'
  <2>1. CASE fRunning /\ fRxDscCur.own /\ fRxBufQueue # <<>>
    <3>1. Head(fRxBufQueue) \in Nat
      BY <2>1, HeadTailProperties DEF Inv, Types
    <3>2. rxBuf' \in [Entries -> Nat]
      BY <2>1, <3>1 DEF RxRingHandler, FrameInv, FrameTypes
    <3> QED
      BY <3>2 DEF FrameInv, FrameTypes, RxRingHandler
  <2>2. CASE ~(fRunning /\ fRxDscCur.own /\ fRxBufQueue # <<>>)
    BY <2>2 DEF FrameInv, FrameTypes, RxRingHandler
  <2> QED
    BY <2>1, <2>2
<1>2. Starting'
  BY DEF FrameInv, Starting, Flagged, RxRingHandler
<1>3. Stopping'
  BY DEF FrameInv, Stopping, Flagged, RxRingHandler
<1>4. TxCopies'
  BY DEF FrameInv, TxCopies, RxRingHandler
<1>5. TxFrames'
  BY DEF FrameInv, TxFrames, GivenBack, RxRingHandler
<1>6. RxCopies'
  BY DEF FrameInv, RxCopies, RxRingHandler
<1>7. RxFrames'
  <2>1. CASE fRunning /\ fRxDscCur.own /\ fRxBufQueue # <<>> /\ cpu.run /\ ~aux.pdmdRx
    <3> DEFINE q == fRxBufQueue
    <3>1. /\ pc = "idle" /\ pc' = "rx" /\ fRxBufQueue' = Tail(fRxBufQueue)
          /\ rxBuf' = [rxBuf EXCEPT ![fRxDscCur.seg] = Head(fRxBufQueue)]
          /\ rxOwn' = [rxOwn EXCEPT ![fRxRingIndex] = FALSE]
          /\ UNCHANGED <<cpu, fRunning, fRxRingIndex, got, acc, aux>>
      BY <2>1 DEF RxRingHandler
    <3>2. /\ q \in Seq(Nat) /\ q # <<>> /\ Len(q) \in Nat /\ Len(acc) \in Nat /\ Len(got) \in Nat
          /\ rxOwn \in [Entries -> BOOLEAN] /\ rxBuf \in [Entries -> Nat]
      BY <2>1, LenProperties DEF FrameInv, FrameTypes, Inv, Types
    <3>3. /\ Len(Tail(q)) = Len(q) - 1 /\ Len(q) > 0 /\ Head(q) = q[1] /\ Head(q) \in Nat
          /\ \A k \in 1 .. Len(Tail(q)) : Tail(q)[k] = q[k + 1]
      <4>1. Len(q) > 0 /\ Head(q) = q[1] /\ q[1] \in Nat
        BY <3>2
      <4>2. Len(Tail(q)) = Len(q) - 1 /\ \A k \in 1 .. Len(Tail(q)) : Tail(q)[k] = q[k + 1]
        BY <3>2, HeadTailProperties
      <4> QED
        BY <4>1, <4>2
    <3>4. /\ Moved \in Nat /\ Filling = Moved
          /\ \A k \in 1 .. Len(got) : got[k] = acc[k]
          /\ \A k \in 1 .. Len(q) : q[k] = acc[Moved + k]
          /\ cpu.rx = Slot(Len(got)) /\ fRxRingIndex = Slot(Filling)
      BY <2>1, <3>1 DEF FrameInv, RxFrames, Filling
    <3>5. Holds(rxOwn, FALSE, rxBuf, acc, Len(got), Moved)
      BY <2>1 DEF FrameInv, RxFrames
    <3>6. queued.rx > 0
      BY DEF RxRingHandler
    <3>7. fRxDscCur.seg = Slot(Moved) /\ rxOwn[Slot(Moved)] # FALSE
      BY <2>1, <3>1, <3>4, <3>6 DEF FrameInv, RxCopies
    <3>8. acc[Moved + 1] = Head(q)
      BY <3>2, <3>3, <3>4
    <3>9. /\ rxOwn' = [rxOwn EXCEPT ![Slot(Moved)] = FALSE]
          /\ rxBuf' = [rxBuf EXCEPT ![Slot(Moved)] = Head(q)]
      BY <3>1, <3>4, <3>7
    <3>10. Holds(rxOwn', FALSE, rxBuf', acc, Len(got), Moved + 1)
      BY <3>2, <3>3, <3>4, <3>5, <3>7, <3>8, <3>9, HoldsAdd
    <3>11. Moved' = Moved + 1 /\ Filling' = Moved
      BY <3>1, <3>2, <3>3 DEF Moved, Filling
    <3>12. \A k \in 1 .. Len(fRxBufQueue') : fRxBufQueue'[k] = acc[Moved + 1 + k]
      <4> SUFFICES ASSUME NEW k \in 1 .. Len(Tail(q)) PROVE Tail(q)[k] = acc[Moved + 1 + k]
        BY <3>1
      <4>1. k + 1 \in 1 .. Len(q) /\ Moved + (k + 1) = Moved + 1 + k
        BY <3>2, <3>3, <3>4
      <4>2. q[k + 1] = acc[Moved + (k + 1)]
        BY <3>4, <4>1
      <4> QED
        BY <3>3, <4>1, <4>2
    <3>13. Holds(rxOwn', FALSE, rxBuf', acc', Len(got'), Moved')
      BY <3>1, <3>10, <3>11
    <3>14. Moved' \in Nat /\ Filling' \in Nat /\ fRxRingIndex' = Slot(Filling')
      BY <3>1, <3>4, <3>11
    <3>15. \A k \in 1 .. Len(fRxBufQueue') : fRxBufQueue'[k] = acc'[Moved' + k]
      BY <3>1, <3>11, <3>12
    <3> QED
      BY <2>1, <3>1, <3>4, <3>13, <3>14, <3>15 DEF RxFrames
  <2>2. CASE ~cpu.run \/ aux.pdmdRx
    BY <2>2 DEF RxFrames, RxRingHandler
  <2>3. CASE ~(fRunning /\ fRxDscCur.own /\ fRxBufQueue # <<>>)
    BY <2>3 DEF FrameInv, RxFrames, Moved, Filling, RxRingHandler
  <2> QED
    BY <2>1, <2>2, <2>3
<1> QED
  BY <1>1, <1>2, <1>3, <1>4, <1>5, <1>6, <1>7 DEF FrameInv

\* The next rx descriptor is read.
LEMMA RxUpdateFrames ==
  ASSUME Inv, FrameInv, RxUpdate
  PROVE  FrameInv'
<1> USE DEF memory, setup, tx, rx, frames
<1>1. FrameTypes'
  BY DEF FrameInv, FrameTypes, RxUpdate
<1>2. Starting'
  BY DEF FrameInv, Starting, Flagged, RxUpdate
<1>3. Stopping'
  BY DEF FrameInv, Stopping, Flagged, RxUpdate
<1>4. TxCopies'
  BY DEF FrameInv, TxCopies, RxUpdate
<1>5. TxFrames'
  BY DEF FrameInv, TxFrames, GivenBack, RxUpdate
<1>6. RxCopies'
  BY DEF FrameInv, RxCopies, Inv, Rings, RxUpdate, RxDsc
<1>7. RxFrames'
  <2>1. /\ pc = "rx" /\ pc' = "idle" /\ fRxRingIndex' = RingIndexNext(fRxRingIndex, 1)
        /\ UNCHANGED <<cpu, fRunning, aux, rxOwn, rxBuf, got, acc, fRxBufQueue>>
    BY DEF RxUpdate
  <2>2. Moved' = Moved /\ Filling = Moved - 1 /\ Filling' = Moved
    BY <2>1 DEF Moved, Filling
  <2>3. fRunning
    BY <2>1 DEF Inv, Rings
  <2>4. cpu.run /\ ~aux.pdmdRx => fRxRingIndex' = Slot(Filling') /\ Filling' \in Nat
    <3> SUFFICES ASSUME cpu.run, ~aux.pdmdRx
                 PROVE  fRxRingIndex' = Slot(Filling') /\ Filling' \in Nat
      OBVIOUS
    <3>1. Filling \in Nat /\ Moved \in Nat /\ fRxRingIndex = Slot(Filling)
      BY <2>3 DEF FrameInv, RxFrames
    <3>2. Filling + 1 = Filling'
      BY <2>2, <3>1
    <3> QED
      BY <2>1, <2>2, <3>1, <3>2, SlotMove
  <2> QED
    BY <2>1, <2>2, <2>3, <2>4 DEF FrameInv, RxFrames
<1> QED
  BY <1>1, <1>2, <1>3, <1>4, <1>5, <1>6, <1>7 DEF FrameInv

\* The rx ring is started with the descriptor at the ring index.
LEMMA RxPollHandlerFrames ==
  ASSUME Inv, FrameInv, RxPollHandler
  PROVE  FrameInv'
<1> USE DEF memory, setup, tx, rx, frames
<1>1. FrameTypes'
  BY DEF FrameInv, FrameTypes, RxPollHandler
<1>2. Starting'
  BY DEF FrameInv, Starting, Flagged, RxPollHandler
<1>3. Stopping'
  BY DEF FrameInv, Stopping, Flagged, RxPollHandler
<1>4. TxCopies'
  BY DEF FrameInv, TxCopies, RxPollHandler
<1>5. TxFrames'
  BY DEF FrameInv, TxFrames, GivenBack, RxPollHandler
<1>6. RxCopies'
  BY DEF FrameInv, RxCopies, RxPollHandler, StartRxRing, RxStarts, Queued, RxDsc
<1>7. RxFrames'
  BY DEF FrameInv, RxFrames, Moved, Filling, RxPollHandler
<1> QED
  BY <1>1, <1>2, <1>3, <1>4, <1>5, <1>6, <1>7 DEF FrameInv

\* A frame is accepted only while the device runs.
LEMMA RcvCallbackFrames ==
  ASSUME Inv, FrameInv, NEW dst, RcvCallback(dst)
  PROVE  FrameInv'
<1> USE DEF memory, setup, tx, rx, frames
<1>1. FrameTypes'
  <2>1. n'.rx \in Nat
    BY CountType DEF RcvCallback, Inv, Types, Counts
  <2>2. acc' \in {acc, Append(acc, n'.rx)}
    BY DEF RcvCallback
  <2>3. acc' \in Seq(Nat)
    BY <2>1, <2>2, QueueFacts DEF FrameInv, FrameTypes
  <2> QED
    BY <2>3 DEF FrameInv, FrameTypes, RcvCallback
<1>2. Starting'
  BY DEF FrameInv, Starting, Flagged, RcvCallback
<1>3. Stopping'
  BY DEF FrameInv, Stopping, Flagged, RcvCallback
<1>4. TxCopies'
  BY DEF FrameInv, TxCopies, RcvCallback
<1>5. TxFrames'
  BY DEF FrameInv, TxFrames, GivenBack, RcvCallback
<1>6. RxCopies'
  BY DEF FrameInv, RxCopies, Inv, Types, RcvCallback, StartRxRing, RxStarts, Queued,
     RxDsc
<1>7. RxFrames'
  <2> DEFINE keep == fRunning /\ Accepts(dst) /\ Len(fRxBufQueue) < RxQueLimit
             q == fRxBufQueue
  <2>1. /\ UNCHANGED <<cpu, fRunning, aux, rxOwn, rxBuf, got, fRxRingIndex, pc>> /\ pc = "idle"
        /\ fRxBufQueue' = (IF keep THEN Append(q, n'.rx) ELSE q)
        /\ acc' = (IF keep THEN Append(acc, n'.rx) ELSE acc)
    BY DEF RcvCallback
  <2>2. CASE ~keep
    <3>1. fRxBufQueue' = fRxBufQueue /\ acc' = acc
      BY <2>1, <2>2
    <3>2. Moved' = Moved /\ Filling' = Filling
      BY <2>1, <3>1 DEF Moved, Filling
    <3> QED
      BY <2>1, <3>1, <3>2 DEF FrameInv, RxFrames
  <2>3. CASE keep
    <3> SUFFICES ASSUME cpu.run, ~aux.pdmdRx PROVE RxFrames'
      BY <2>1 DEF RxFrames
    <3>1. n'.rx \in Nat /\ fRunning
      BY <2>3, CountType DEF RcvCallback, Inv, Types, Counts
    <3>2. fRxBufQueue' = Append(q, n'.rx) /\ acc' = Append(acc, n'.rx)
      BY <2>1, <2>3
    <3>3. q \in Seq(Nat) /\ acc \in Seq(Nat) /\ Len(q) \in Nat /\ Len(acc) \in Nat /\ Len(got) \in Nat
      BY LenProperties DEF FrameInv, FrameTypes, Inv, Types
    <3>4. /\ Moved \in Nat /\ Filling = Moved
          /\ \A k \in 1 .. Len(got) : got[k] = acc[k]
          /\ \A k \in 1 .. Len(q) : q[k] = acc[Moved + k]
          /\ cpu.rx = Slot(Len(got)) /\ fRxRingIndex = Slot(Filling)
      BY <2>1, <3>1 DEF FrameInv, RxFrames, Filling
    <3>5. Holds(rxOwn, FALSE, rxBuf, acc, Len(got), Moved)
      BY DEF FrameInv, RxFrames
    <3> HIDE DEF keep, q
    <3>6. /\ Len(acc') = Len(acc) + 1 /\ acc'[Len(acc) + 1] = n'.rx
          /\ \A k \in 1 .. Len(acc) : acc'[k] = acc[k]
          /\ Len(fRxBufQueue') = Len(q) + 1 /\ fRxBufQueue'[Len(q) + 1] = n'.rx
          /\ \A k \in 1 .. Len(q) : fRxBufQueue'[k] = q[k]
      BY <3>1, <3>2, <3>3, AppendProperties
    <3>7. Moved = Len(acc) - Len(q)
      BY DEF Moved, q
    <3>8. Moved' = Moved /\ Filling' = Moved
      BY <2>1, <3>3, <3>6, <3>7 DEF Moved, Filling
    <3>9. Len(got) <= Moved /\ Moved <= Len(acc)
      BY <3>3, <3>5, <3>7 DEF Holds
    <3>10. \A k \in 1 .. Len(got') : got'[k] = acc'[k]
      <4> SUFFICES ASSUME NEW k \in 1 .. Len(got) PROVE got[k] = acc'[k]
        BY <2>1
      <4>1. k \in 1 .. Len(acc)
        BY <3>3, <3>4, <3>9
      <4> QED
        BY <3>4, <3>6, <4>1
    <3>11. \A k \in 1 .. Len(fRxBufQueue') : fRxBufQueue'[k] = acc'[Moved' + k]
      <4> SUFFICES ASSUME NEW k \in 1 .. Len(q) + 1 PROVE fRxBufQueue'[k] = acc'[Moved + k]
        BY <3>6, <3>8
      <4>1. CASE k = Len(q) + 1
        <5>1. Moved + k = Len(acc) + 1
          BY <3>3, <3>4, <3>7, <4>1
        <5> QED
          BY <3>6, <4>1, <5>1
      <4>2. CASE k # Len(q) + 1
        <5>1. k \in 1 .. Len(q)
          BY <3>3, <4>2
        <5>2. Moved \in Nat /\ Len(acc) = Moved + Len(q)
          BY <3>3, <3>4, <3>7
        <5>3. Moved + k \in 1 .. Len(acc)
          BY <3>3, <5>1, <5>2
        <5> QED
          BY <3>4, <3>6, <5>1, <5>3
      <4> QED
        BY <4>1, <4>2
    <3>12. \A k \in 1 .. Moved : acc'[k] = acc[k]
      BY <3>3, <3>4, <3>6, <3>9
    <3>13. Holds(rxOwn, FALSE, rxBuf, acc', Len(got), Moved)
      BY <3>3, <3>4, <3>5, <3>12, HoldsSame
    <3>14. Holds(rxOwn', FALSE, rxBuf', acc', Len(got'), Moved')
      BY <2>1, <3>8, <3>13
    <3>15. Moved' \in Nat /\ Filling' \in Nat /\ fRxRingIndex' = Slot(Filling') /\ fRunning'
      BY <2>1, <3>1, <3>4, <3>8
    <3>16. cpu'.rx = Slot(Len(got'))
      BY <2>1, <3>4
    <3> QED
      BY <3>10, <3>11, <3>14, <3>15, <3>16 DEF RxFrames
  <2> QED
    BY <2>2, <2>3
<1> QED
  BY <1>1, <1>2, <1>3, <1>4, <1>5, <1>6, <1>7 DEF FrameInv

\* State READY: nothing was given, accepted or started.
LEMMA FrameInvInit == Init => FrameInv
<1> SUFFICES ASSUME Init PROVE FrameInv
  OBVIOUS
<1>1. FrameTypes
  <2>1. txFrm \in [Entries -> Nat] /\ rxBuf \in [Entries -> Nat]
    BY DEF Init, NoFrames, Empty
  <2>2. given \in Seq(Nat) /\ wire \in Seq(Nat) /\ acc \in Seq(Nat) /\ got \in Seq(Nat)
    BY DEF Init
  <2> QED
    BY <2>1, <2>2 DEF Init, FrameTypes
<1>2. Starting /\ Stopping
  BY DEF Init, Starting, Stopping, Flagged, ReadFlagged, NoPr0
<1>3. TxCopies /\ TxFrames /\ RxCopies /\ RxFrames
  BY DEF Init, TxCopies, TxFrames, RxCopies, RxFrames
<1> QED
  BY <1>1, <1>2, <1>3 DEF FrameInv

\* Every step keeps the invariant.
LEMMA FrameInvStep == Inv /\ FrameInv /\ [Next]_vars => FrameInv'
<1> SUFFICES ASSUME Inv, FrameInv, [Next]_vars PROVE FrameInv'
  OBVIOUS
<1>1. CASE Cpu
  BY <1>1, CpuCmdFrames, CpuPdmdFrames, CpuGiveFrames, CpuTakeFrames, CpuResetFrames DEF Cpu
<1>2. CASE Commands
  BY <1>2, CmdResetFrames, CmdSelftstFrames, CmdNoopFrames, CmdSetupFrames, CmdStartFrames,
     CmdPdmdFrames, CmdHaltFrames, CmdStopFrames DEF Commands
<1>3. CASE AttnRead \/ AttnDsc \/ WritePr1 \/ WritePr0
  BY <1>3, AttnReadFrames, AttnDscFrames, WritePr1Frames, WritePr0Frames
<1>4. CASE TxRingHandler \/ TxUpdate \/ RxRingHandler \/ RxUpdate \/ RxPollHandler
  BY <1>4, TxRingHandlerFrames, TxUpdateFrames, RxRingHandlerFrames, RxUpdateFrames,
     RxPollHandlerFrames
<1>5. ASSUME NEW dst \in {"own", "mcast", "other"}, RcvCallback(dst) PROVE FrameInv'
  BY <1>5, RcvCallbackFrames
<1>6. CASE UNCHANGED vars
  <2> USE DEF vars, memory, setup, tx, rx, frames
  <2>1. FrameTypes' /\ TxCopies' /\ RxCopies'
    BY <1>6 DEF FrameInv, FrameTypes, TxCopies, RxCopies
  <2>2. Starting' /\ Stopping'
    BY <1>6 DEF FrameInv, Starting, Stopping, Flagged, ReadFlagged
  <2>3. TxFrames'
    BY <1>6 DEF FrameInv, TxFrames, GivenBack
  <2>4. RxFrames'
    BY <1>6 DEF FrameInv, RxFrames, Moved, Filling
  <2> QED
    BY <2>1, <2>2, <2>3, <2>4 DEF FrameInv
<1> QED
  BY <1>1, <1>2, <1>3, <1>4, <1>5, <1>6 DEF Next, Server

\* A sequence that agrees with another one up to its end is a prefix of it.
LEMMA Agree ==
  ASSUME NEW s \in Seq(Nat), NEW t \in Seq(Nat), Len(s) <= Len(t),
         \A k \in 1 .. Len(s) : s[k] = t[k]
  PROVE  IsPrefix(s, t)
<1>1. Len(s) \in Nat /\ Len(t) \in Nat
  BY LenProperties
<1>2. /\ SubSeq(s, 1, Len(s)) = [k \in 1 .. Len(s) |-> s[k]]
      /\ SubSeq(t, 1, Len(s)) = [k \in 1 .. Len(s) |-> t[k]]
  BY <1>1
<1>3. SubSeq(s, 1, Len(s)) = SubSeq(t, 1, Len(s))
  BY <1>2
<1> QED
  BY <1>3 DEF IsPrefix

-----------------------------------------------------------------------------
(* What it shows.                                                           *)

\* Handler indices stay within the rings and the receive queue within its limit;
\* a ring that is busy or polling has a handler queued or its timer on, and a port
\* that is busy or in reset gets its answer, but for the self test and for a reset
\* acknowledged before it was seen.
THEOREM RingsAndPortAlive == Spec => []PortInv
<1>1. Inv => PortInv
  <2> SUFFICES ASSUME Inv PROVE PortInv
    OBVIOUS
  <2>1. TypeOK
    BY DEF Inv, Types, Regs, Dsc, Rings, TypeOK
  <2>2. RingAlive
    BY DEF Inv, Rings, RingAlive
  <2>3. PortAnswered
    BY DEF Inv, Types, Port, Waiting, Excused, PortAnswered
  <2> QED
    BY <2>1, <2>2, <2>3 DEF PortInv
<1> QED
  BY <1>1, InvInit, InvStep, PTL DEF Spec

\* A frame in the tx ring for which the driver did its PDMD is on its way: the PDMD
\* is pending at the port, at work in the handler, or has queued the tx handler.
THEOREM FramesNotStranded == Spec => []TxNotStranded
<1>1. Inv => TxNotStranded
  <2> SUFFICES ASSUME Inv, fRunning, cpu.run, txOwn[fTxRingIndex], ~cpu.kick, ~aux.pdmdLost,
                      ~aux.stale, ~aux.early, ~reg.lam, pc = "idle"
               PROVE  queued.tx > 0
    BY DEF TxNotStranded
  <2>1. OnItsWay
    BY DEF Inv, Demand, Kicked
  <2>2. ~Asked
    BY DEF Inv, Busy, Handling, Asked
  <2> QED
    BY <2>1, <2>2 DEF OnItsWay, Inv, Rings
<1> QED
  BY <1>1, InvInit, InvStep, PTL DEF Spec

\* Frames the driver gave are sent in order and once, across stops, resets and
\* handlers left over from before them: what TxRingHandler() sent is a prefix of what
\* was given, and the entries the device owns hold the rest, from its index on.
THEOREM FramesSentInOrder == Spec => []TxExact
<1>1. Inv /\ FrameInv => TxExact
  <2> SUFFICES ASSUME Inv, FrameInv, fRunning, cpu.run
               PROVE  /\ GivenBack <= Len(given) /\ Len(given) <= GivenBack + RingSize
                      /\ IsPrefix(wire, given)
                      /\ \A k \in Entries :
                           LET e == RingIndexNext(fTxRingIndex, k)
                           IN /\ txOwn[e] <=> GivenBack + k < Len(given)
                              /\ txOwn[e] => txFrm[e] = given[GivenBack + k + 1]
    BY DEF TxExact
  <2>1. /\ Len(wire) <= Len(given) /\ \A k \in 1 .. Len(wire) : wire[k] = given[k]
        /\ GivenBack \in Nat /\ fTxRingIndex = Slot(GivenBack)
    BY DEF FrameInv, TxFrames
  <2>2. Holds(txOwn, TRUE, txFrm, given, GivenBack, Len(given))
    BY DEF FrameInv, TxFrames
  <2>3. IsPrefix(wire, given)
    BY <2>1, Agree DEF FrameInv, FrameTypes
  <2>4. ASSUME NEW k \in Entries
        PROVE  LET e == RingIndexNext(fTxRingIndex, k)
               IN /\ txOwn[e] <=> GivenBack + k < Len(given)
                  /\ txOwn[e] => txFrm[e] = given[GivenBack + k + 1]
    <3>1. k \in Nat /\ GivenBack + k \in Nat /\ GivenBack <= GivenBack + k
          /\ GivenBack + k < GivenBack + RingSize
      BY <2>1, DeunaAssumption DEF Entries
    <3>2. RingIndexNext(fTxRingIndex, k) = Slot(GivenBack + k)
      BY <2>1, <3>1, SlotMove
    <3>3. /\ txOwn[Slot(GivenBack + k)] = TRUE <=> GivenBack + k < Len(given)
          /\ GivenBack + k < Len(given) => txFrm[Slot(GivenBack + k)] = given[(GivenBack + k) + 1]
      BY <2>2, <3>1 DEF Holds
    <3>4. txOwn[Slot(GivenBack + k)] \in BOOLEAN
      BY <3>1, SlotOf DEF Inv, Types
    <3> QED
      BY <3>2, <3>3, <3>4
  <2> QED
    BY <2>2, <2>3, <2>4 DEF Holds
<1> QED
  BY <1>1, InvInit, InvStep, FrameInvInit, FrameInvStep, PTL DEF Spec

\* Frames accepted by RcvCallback() reach the driver in order and once, unless a PDMD
\* started the rx ring with the descriptor of the wrong entry: what the driver read is
\* a prefix of what was accepted, fRxBufQueue is its end, and the filled buffers from
\* the driver's entry on hold what is between.
THEOREM FramesReceivedInOrder == Spec => []RxExact
<1>1. Inv /\ FrameInv => RxExact
  <2> SUFFICES ASSUME Inv, FrameInv, ~aux.pdmdRx, fRunning, cpu.run
               PROVE  /\ Len(got) <= Moved /\ Moved <= Len(got) + RingSize
                      /\ IsPrefix(got, acc) /\ fRxBufQueue = SubSeq(acc, Moved + 1, Len(acc))
                      /\ \A k \in Entries :
                           LET e == RingIndexNext(cpu.rx, k)
                           IN /\ ~rxOwn[e] <=> Len(got) + k < Moved
                              /\ ~rxOwn[e] => rxBuf[e] = acc[Len(got) + k + 1]
    BY DEF RxExact, RxInOrder
  <2>1. /\ Moved \in Nat /\ cpu.rx = Slot(Len(got))
        /\ \A k \in 1 .. Len(got) : got[k] = acc[k]
        /\ \A k \in 1 .. Len(fRxBufQueue) : fRxBufQueue[k] = acc[Moved + k]
    BY DEF FrameInv, RxFrames
  <2>2. Holds(rxOwn, FALSE, rxBuf, acc, Len(got), Moved)
    BY DEF FrameInv, RxFrames
  <2>3. /\ got \in Seq(Nat) /\ acc \in Seq(Nat) /\ fRxBufQueue \in Seq(Nat)
        /\ Len(got) \in Nat /\ Len(acc) \in Nat /\ Len(fRxBufQueue) \in Nat
    BY LenProperties DEF FrameInv, FrameTypes, Inv, Types
  <2>4. Len(got) <= Moved /\ Moved <= Len(got) + RingSize
    BY <2>2 DEF Holds
  <2>5. Moved = Len(acc) - Len(fRxBufQueue)
    BY DEF Moved
  <2>6. IsPrefix(got, acc)
    <3>1. Len(got) <= Len(acc)
      BY <2>1, <2>3, <2>4, <2>5
    <3> QED
      BY <2>1, <2>3, <3>1, Agree
  <2>7. fRxBufQueue = SubSeq(acc, Moved + 1, Len(acc))
    <3>1. /\ SubSeq(acc, Moved + 1, Len(acc)) \in Seq(Nat)
          /\ Len(SubSeq(acc, Moved + 1, Len(acc))) = Len(fRxBufQueue)
          /\ \A k \in 1 .. Len(fRxBufQueue) :
               SubSeq(acc, Moved + 1, Len(acc))[k] = acc[Moved + k]
      <4> DEFINE m == Moved + 1
                 l == Len(acc)
                 sub == SubSeq(acc, m, l)
      <4>1. m \in 1 .. l + 1 /\ l \in m - 1 .. l /\ l - m + 1 = Len(fRxBufQueue)
        BY <2>1, <2>3, <2>5
      <4>2. /\ sub \in Seq(Nat) /\ Len(sub) = l - m + 1
            /\ \A k \in 1 .. l - m + 1 : sub[k] = acc[m + k - 1]
        <5>1. m \in Int /\ l \in Int /\ \A i \in m .. l : acc[i] \in Nat
          BY <2>1, <2>3
        <5>2. (IF m <= l THEN l - m + 1 ELSE 0) = l - m + 1
          BY <4>1, <5>1
        <5> HIDE DEF m, l
        <5> QED
          BY <5>1, <5>2, SubSeqProperties
      <4>3. ASSUME NEW k \in 1 .. Len(fRxBufQueue) PROVE m + k - 1 = Moved + k
        BY <2>1, <2>3
      <4> QED
        BY <4>1, <4>2, <4>3
    <3> QED
      BY <2>1, <2>3, <3>1, SeqEqual
  <2>8. ASSUME NEW k \in Entries
        PROVE  LET e == RingIndexNext(cpu.rx, k)
               IN /\ ~rxOwn[e] <=> Len(got) + k < Moved
                  /\ ~rxOwn[e] => rxBuf[e] = acc[Len(got) + k + 1]
    <3>1. k \in Nat /\ Len(got) + k \in Nat /\ Len(got) <= Len(got) + k
          /\ Len(got) + k < Len(got) + RingSize
      BY <2>3, DeunaAssumption DEF Entries
    <3>2. RingIndexNext(cpu.rx, k) = Slot(Len(got) + k)
      BY <2>1, <2>3, <3>1, SlotMove
    <3>3. /\ rxOwn[Slot(Len(got) + k)] = FALSE <=> Len(got) + k < Moved
          /\ Len(got) + k < Moved => rxBuf[Slot(Len(got) + k)] = acc[(Len(got) + k) + 1]
      BY <2>2, <3>1 DEF Holds
    <3>4. rxOwn[Slot(Len(got) + k)] \in BOOLEAN
      BY <3>1, SlotOf DEF Inv, Types
    <3> QED
      BY <3>2, <3>3, <3>4
  <2> QED
    BY <2>4, <2>6, <2>7, <2>8
<1> QED
  BY <1>1, InvInit, InvStep, FrameInvInit, FrameInvStep, PTL DEF Spec
=============================================================================
