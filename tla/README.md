# A verification project for w11

w11 is a PDP-11/70 on an FPGA, together with a backend program that emulates
its disks, tapes, terminals and network interface. FPGA and backend are
connected by *rlink*, a packet protocol over a serial or USB line: the backend
sends lists of register reads and writes, the FPGA answers, and it announces
on its own that a device wants attention. Everything an operating system on
the w11 does with a device goes through this protocol and through the
backend's server thread. This project models that core, and the device
controllers that live on it, in TLA+, checks them with TLC and proves parts of
them with TLAPS.

Paths below are relative to the repository root; `librlink/` and `librw11/`
stand for `tools/src/librlink/` and `tools/src/librw11/`, `ibus/` for
`rtl/ibus/`.

## Inventory

### Components, their state and how they interact

| component | state | operations | talks to |
|---|---|---|---|
| `RlinkServer` (`librlink/RlinkServer.cpp`, `RlinkServerEventLoop.cpp`) | handler list, action list, patterns `fAttnPatt` and `fAttnNotiPatt`, thread, `fStopPending`, wakeup event | `Start`, `Resume`, `Stop`, `Wakeup`, `QueueAction`, `Add/RemoveAttnHandler`, `Add/RemovePollHandler`, the event loop with `CallAttnHandler`, `CallActnHandler` | handlers call `RlinkConnect::Exec` and `QueueAction`; clients share the connection lock |
| `ReventLoop` (`librlink/ReventLoop.cpp`) | handler list, the loop's private copy, `fUpdatePoll` | `AddPollHandler`, `RemovePollHandler`, `DoPoll`, `DoCall` | called by clients and by the handlers it calls |
| `RlinkConnect` (`librlink/RlinkConnect.cpp`) | connection lock, sequence numbers, `fAttnNotiPatt` of its own | `Exec`, `WaitAttn`, `SndAttn`, `HandleUnsolicitedData`, `LinkInit` | all threads; hands notifies to the server |
| `RlinkPacketBufSnd/Rcv`, `RlinkPort*` | raw and packet buffers, receive state machine | build and accept packets, read and write the device | `RlinkConnect`, the operating system |
| link FSM of `rlink_core` (`rtl/vlib/rlink/rlink_core.vhd`) | state, retransmit buffer with two pointers, attention flags, NAK state | one state per byte or comma | byte stream of the host, bus FSM |
| bus FSM of `rlink_core` | state, word counters, timeout, `DOFIFO` | rbus reads and writes, single or block | link FSM by one cycle pulses, rbus slaves |
| disk controllers (`librw11/Rw11CntlRK11/RL11/RHRP.cpp`, `ibus/ibdr_rk11/rl11/rhrp.vhd`), `Rw11Rdma`, `Rw11RdmaDisk` | device registers, request parameters, transfer progress, buffer, files | GO, attention handler, chunks as requeued actions, exits | CPU by registers and attentions, memory, `RlinkServer`, clients that attach files |
| tape controller (`librw11/Rw11CntlTM11.cpp`, `ibus/ibdr_tm11.vhd`), `Rw11VirtTapeTap` | registers, tape file, position and counts | eight functions, record and mark level file access, positioning | the same |
| terminals (`librw11/Rw11CntlDL11/DZ11.cpp`, `Rw11UnitTerm.cpp`, `ibus/ibdr_dl11_buf/dz11.vhd`) | two fifos, line state and the handler's copy of it, receive queues | block reads and writes, CAL words, queue limits | CPU, terminal sockets |
| printer and paper tape (`librw11/Rw11CntlLP11/PC11.cpp`, `ibus/ibdr_lp11_buf/pc11_buf.vhd`) | fifos, error and busy flags, end of tape state | block reads and writes, attach, detach | CPU, files |
| ethernet (`librw11/Rw11CntlDEUNA.cpp`, `ibus/ibdr_deuna.vhd`) | port registers, two rings in memory, cached descriptors, receive queue, poll timer | port commands, ring handlers as actions, receive callback | CPU, memory, tap device |
| serial front ends, `byte2cdata`, `fifo_2c_dram`, `cdc_*`, XON/XOFF | FIFOs, escape state, synchronisers | move and code bytes | `rlink_core`, the line |
| `Rw11Cpu` | CPU state flags, register copies | start, stop, examine | `RlinkServer`, Tcl |
| other ibus devices, w11a CPU (`ibus/`, `rtl/w11a`) | registers, cache, MMU, sequencer | the machine itself | rbus, memory |
| Tcl bindings, logging, board support | none of interest here | | |

An attention takes this way: a device sets a LAM; the link FSM collects it in
`attn` and sends a *notify* packet, once, after which `arpend` keeps it silent
until an attn command reads and clears the pattern. The notify is read by
whichever thread reads the port, the server or a client in the middle of its own
`Exec()`, and ends up in `fAttnNotiPatt` of the server. The event loop merges it
into `fAttnPatt` and calls the matching handlers. Each handler sends a list
that starts with an attn command, which reads the bits of *all* devices; bits
that belong to others are kept in `hnext` for the next round. Bits without a
handler get a default treatment that clears them.

A device controller has two halves. The FPGA half keeps the registers: a write
of the CPU clears a ready flag or fills a fifo and raises an attention. The
backend half is an attention handler of the server thread. It reads the
registers with one list, answers with another, or queues an action that moves
data chunk by chunk and is called between other work. The CPU runs on between
any two lists; clients attach, detach and position files.

### What is hard

* A notify can arrive at any moment and at any thread, while the server is
  about to sleep, is starting, or is being stopped.
* The FPGA announces once and is then mute. If the backend loses a notify, or
  leaves out one attn command, no device is ever served again.
* One attn command harvests everybody's bits.
* Handler lists change while they are walked; the poll loop works on a copy.
* The byte stream is cut anywhere, bytes are damaged or lost, an answer comes
  after its timeout, notifies come in between.
* The link FSM keeps responses for retransmission and parks write data in the
  same memory. Aborts, overflows and NAKs may come at any symbol.
* The two FSMs of `rlink_core` have no handshake; `DOFIFO` has no back pressure.
* Transfers are truncated, fail in a middle chunk, are reported in a list that
  runs before the file is written, and are disturbed by resets and clients.
* A write to a tape truncates it, or not, depending on what came before; a file
  write may fail between the two tags of a record.
* Fifos raise an attention when they stop being empty, and handlers decide from
  fill levels they saw whether they must look again.
* Ring handlers act on descriptors read earlier, and one queued before a stop
  runs after the next start.

`PROJECT.json` lists these hazards with the line where each bites and the
properties that cover it.

### What makes each component correct

* Server: no attention is lost, the FPGA is not left mute, the loop never
  sleeps on work, every attention and action is served, `Stop()` returns.
* Poll loop: it never sleeps on a stale list, what it polls is what is
  registered, removed handlers are called at most once more, ready descriptors
  are served.
* Command execution: at most once, and a success is the answer to this very
  list; on a good line nothing fails and no notify is lost.
* Link FSM: a retransmitted response is the response, a block is written as it
  was sent. Bus FSM: pulses and bytes are not lost, data in order, the done
  count exact, transfers end.
* Disks: registers, memory and file after a function are what the function says,
  whatever the chunks; every GO is answered.
* Tape: the file is a tape to its user; counts and flags are exact.
* Terminals, printer, paper tape: characters in order and once, and none waits
  without an event that will move it.
* Ethernet: frames in order and once, the port and its rings never get stuck.

## Modules

| module | models | built on |
|---|---|---|
| `RlinkAttn` | attention unit of the FPGA as the host sees it | |
| `RlinkServer` | server thread, clients, `RlinkConnect` as far as all threads share it | `RlinkAttn` |
| `RlinkServer_proofs` | theorems about `RlinkServer` | `RlinkServer` |
| `RlinkCore`, `RlinkCore_proofs` | link FSM and retransmit buffer, theorems | |
| `RlinkBus`, `RlinkBus_proofs` | bus FSM, data phases of the link FSM, `DOFIFO`, per clock, theorems | |
| `ReventLoop`, `ReventLoop_proofs` | poll loop and handler list, theorems | |
| `RlinkPacketBuf` | packets and the receive buffer, as operators | |
| `RlinkConnect` | `Exec`, `WaitAttn`, unsolicited data over an unreliable line | `RlinkPacketBuf` |
| `RlinkExec` | abstract: what `Exec` promises | refined by `RlinkConnect` |
| `Rw11Disk`, `Rw11Disk_proofs` | RK11, RL11, RHRP, `Rw11Rdma`, `Rw11RdmaDisk` and their devices, theorems | |
| `Rw11VirtTapeTap` | tape files, as operators | |
| `Rw11CntlTM11` | tape controller, its device and one tape | `Rw11VirtTapeTap` |
| `TapeMedium` | abstract: what a tape is to its user | refined by `Rw11CntlTM11` |
| `Rw11Term`, `Rw11Term_proofs` | DL11 and DZ11 with their devices and units, theorems | |
| `Rw11Stream`, `Rw11Stream_proofs` | LP11 and PC11 with their devices and files, theorems | |
| `Rw11CntlDEUNA`, `Rw11CntlDEUNA_proofs` | ethernet controller, its device and rings, theorems | |
| `MC...` | constants of the instances TLC checks | |

`PROJECT.json` maps every definition to its lines.

### RlinkAttn and RlinkServer

`RlinkAttn` keeps `R_LREGS.attn`, `anreq`, `arpend` and `R_CREGS.anena`, a
coarse phase of the link FSM, and the packets on the two directions of the
link. A command list is reduced to what touches attentions: does it hold an
attn command, does it set `anena`, which device does it read. The attn timeout
(`atoena`) is left out because the server never enables it.

`RlinkServer` composes this with the threads. One action is one stretch of code
between two points where another thread can interfere: taking the lock, sending
a list, reading one packet, reading or writing a member outside the lock. `spc`
and `cpc` are program counters:

| `spc` | code |
|---|---|
| `top`, `poll`, `call`, `hud` | `EventLoop()`, `DoPoll()`, `DoCall()`, `HandleUnsolicitedData()` |
| `attn`, `merge`, `loop`, `hcall`, `dcall`, `fin` | `CallAttnHandler()`: test, pattern merge, handler loop, call of a handler, default handling, end |
| `actn`, `alock` | `CallActnHandler()` |
| `wait`, `acc` | inside `Exec()`: waiting for the response, response accepted; `ctx` tells for whom |
| `none`, `done`, `crashed` | no thread, loop left, loop left by an exception |

The client operations (`Ops`) are `Exec` of a plain and of an attn list,
`WaitAttn`, `QueueAction`, `Start`, `Resume`, `Stop`, `AddAttnHandler` and
`RemoveAttnHandler`. `Start` and `Resume` are several steps: list, response,
creation of the thread, assignment of `fServerThread`, and for `Resume` the
`SndAttn()` afterwards, so that the new thread runs before its creator is done.
A device and its handler have one name. `req` is auxiliary: the devices that
have raised an attention and whose registers have not been read since by their
handler.

### RlinkCore

All states of `proc_lnext`. The host may send any symbol at any time, with good
or bad crc. A byte is known by its position (`Tx(k)` of the response, `Rx(k)` of
a block), so order and completeness of what leaves the buffer can be stated. The
values of crc, data and status are left out; that a crc is right or wrong is the
host's choice.

### RlinkBus

One step is one clock. Link FSM, bus FSM, `DOFIFO` and the level flag `wfifo`
step together (`Tick`); `RL_HOLD` and the slave's busy, ack and err are free in
every cycle. Words are known by their number in the block. `good` counts, as an
observer, the words done before the first error.

### ReventLoop

The loop's steps are the stretches between accesses to what clients change.
`fUpdatePoll` is read without a lock, as in the code. Clients add and remove
handlers and then signal the wakeup event; handlers may ask for their removal,
or register another handler from inside the loop as the telnet terminals do
(`Rw11VirtTermTcp`). `late` counts calls of handlers that were removed before.
That descriptors get ready is the environment (`poll(2)`) and marked external.

### RlinkPacketBuf, RlinkConnect and RlinkExec

A symbol is one byte on the line, known by what it stands for. A crc symbol
carries the bytes it was computed from, so a crc fits exactly when the receiver
has seen these bytes. `RlinkPacketBuf` has the receive state machine
(`ProcessDataIdle`, `ProcessDataFill`), which stops at the end of a packet with
raw bytes left, and the reading of counts, data and crc.

`RlinkConnect` keeps the lock from begin to end of an operation, as the code
does; `pc` tells how far it is: `snd`, `resp` (`ReadResponse`), `respnext`
(`ProcessData` after a read), `wait` and its parts (`WaitAttn`). `RespRead`
takes any number of bytes off the line, so the stream is cut everywhere;
`RespTimeout` and `RespExpired` are the two timeouts, of the port and of the
whole response, `LineFault` damages or loses a byte, and a request may reach the
FPGA damaged or not at all. The FPGA answers with the sequence numbers it was
sent, leaves a list open that lost its EOP, and aborts at a failing `labo`.

`ExecService` says that this implements `RlinkExec`: one call at a time, a list
executed at most once and from its start, and a success only with the answers of
this list, executed to its end. The refinement mapping is direct: the call under
way is the one `pc` is in, the answers are those of the FPGA. What has to hold is
that a late answer is never taken for that of the next list, which rests on the
sequence numbers in the echoed commands. There are `NSeq` of them per command.

### Rw11Disk

`kind` is the controller. `reg` holds what the CPU wrote, `cur` the request and
the memory and disk at its GO. The steps of the server are the lists it executes:
`AttnRead` (harvest), `AttnRegs` (the controller's registers), `AttnHandler`
(the rest, up to the fast exit or `QueueDiskRead` and its like), `RdmaExec` (one
chunk: pre hook, one list with the register update of the last chunk behind its
labo), `RdmaPost` (post hook, and the completion callback, which throws if the labo
let an error pass; `pc` is `dead` then). GO keeps in `err` what the device keeps: the
RK11 its hard errors, until a reset or until the host writes RKER again. A bus reset, a drive
clear, a seek, and `Attach` and `Detach` of a client come between any two.
Memory ends at `MemWords`, so a chunk can run out of it. `gdisk` is the disk as
the reported completions tell it.

### Rw11VirtTapeTap, Rw11CntlTM11 and TapeMedium

A tape file is a sequence of bytes: those of length tags, of marks, and data. The
operators of `Rw11VirtTapeTap` are the member functions; each returns the tape
after it and what the call returned, also for files that are cut off or damaged
and for writes that fail after any of their parts. `Rw11CntlTM11` adds the
registers and the handler; a transfer is one step, since `Rw11Disk` has the
chunks. `view` is what a user sees, records, marks and a place; it is computed
from the file by a walk over its tags, so it does not rest on the code's own
bookkeeping. `TapeService` says that `view` steps like `TapeMedium`.
`FunctionExact` compares every undisturbed function with a definition of what it
should do on that view, byte counts included; its comment names where the code
departs from it (READ of a part of a record, WRITE on a bad tape, the last byte of an
odd record). The first of these can leave the file position inside a record, outside
of what `TapeMedium` knows; this is the only way out of the refinement (`Astray`).
`PosExact` says that `fPosFile` and `fPosRecord`, where
they are known, count the marks and records before the place.

### Rw11Term

One module for both controllers, because they share the scheme: a transmit fifo
that raises an attention when it stops being empty, `RblkNext` and `RblkEnd` that
read it word by word while the CPU goes on, the fill level that comes with each
word, and the decision (`LastSeen`) whether to read again. Of these levels the code
asks only which ones came with a block, so the model keeps them as a set (`fuses`). The primary list of
the attention handler and the queued `TxRcvHandler` take turns. `RcvCallback`
fills the queue of a line, `RxCollect` and `WblkNext` move it into the receive
fifo. The DZ11 adds the scanner that picks the ready line, CAL words for CSR, RXON
and BRK, which wait in `reg.q` and share the fifo, and characters of a line in break
(`ferr`), which `TxProcess` discards. `fCur` is the handler's copy;
`CalView` applies the CAL words still under way to it, and the result must be what
the device holds. `ChrsOf` selects the characters of one line from a block or fifo.

### Rw11Stream

Printer and punch are one "output"; the reader has `rbusy`, the fifo, and
`fPrDrain`, which delays the end of the tape until the CPU has read the last
character. Reader and punch share the attention handler: the reader's part works
with `snap`, read before the punch's characters were processed, and quits if `rbusy`
was not set then. `snap` stays until the next attention, so it tells whether a CPU
that waits asked too late (`AskedTooLate`). `out` records what
`WriteChar()` did with each character, written or dropped.
Files fail, end, and are exchanged.

### Rw11CntlDEUNA

Port registers with the two command fields (one kept while the port is busy), the
rings as ownership flags, the handlers split where they access memory
(`TxRingHandler`/`TxUpdate`, `RxRingHandler`/`RxUpdate`) and an answer split into
the writes of PR1 and PR0. `dscPC` holds the copies of descriptors read by the
primary list. `queued` counts actions, so handlers left from before a stop run
after a start. `aux` records that a known defect was met (see below). `TxExact` and
`RxExact` say which entries of a ring are in use, counted from the index of the side
that empties it, and which frame is in each.

## Runs

| run | shows | bounds |
|---|---|---|
| `ServerAttn` | resume, stop, `WaitAttn`, clients that use the link and remove handlers: `NoAttnLost`, `AttnAnnounced`, `PendingHasAttn`, `NoLostWakeup` | 2 lines, 2 devices, 3 operations |
| `ServerLive` | `AttnServed` with two devices on one line, `ActnServed` with actions that requeue themselves for ever, `StopReturns` | 1 line, 2 devices, 2 actions, 3 operations |
| `CoreRetra` | `RetransmitInOrder`, `WblkDataInOrder`, and in `CoreInv` that a retransmission is complete | buffer of 10 bytes, blocks of 2 words, 14 symbols or fields |
| `BusSteps` | `NoPulseMissed`, `DataInOrder`, `TransferEnds`, and in `BusInv` that no byte is lost and the done count is exact | FIFO 32 with levels 28 and 2 as in the code, blocks of up to 18 words, timeout 3 |
| `LoopChange` | `NoStaleSleep`, `ReadyServed`, and in `PollInv` the faithful copy and at most one late call | 2 descriptors, 3 handlers, 1 client, 2 ready events |
| `ConnectExec` | the refinement `ExecService` under one fault; without faults `GoodSucceeds`, `NotifyKept` and that no read finds raw bytes left (`ConnectInv`) | 2 calls, 2 notifies, 1 fault, 4 sequence numbers |
| `DiskTransfer` | `CompletionExact`, `DiskAsReported`, `GoAnswered`, and that no reset ends the server thread (`DiskInv`) | 3 controllers, 2 units of 4 blocks of 2 words, 5 words of memory, chunks of 2 words, 2 functions, 1 reset and 1 client call |
| `TapeFunc` | `FunctionExact`, the refinement `TapeService`, and in `TapeInv` exact position counts and no forgotten GO | tags of 2 bytes, 6 bytes of memory, 3 functions, 1 disturbance |
| `TermIO` | `TxExact`, `RxExact`, `NotStranded`, and in `TermInv` no overrun and a true copy of the line state | DL11, and DZ11 with 2 lines; fifos of 2; 4 characters each way (DL11), 1 and 2 (DZ11); 2 control writes |
| `StreamIO` | `StreamExact`, `NotStranded`, and in `StreamInv` that a block for the reader fits | fifos of 2, tapes of 0 and 4 characters, 3 output characters, 2 disturbances |
| `DeunaRings` | `TxExact`, `RxExact`, `TxNotStranded`, and in `PortInv` that rings and port can be used again | rings of 2, queue of 2, up to 3 commands, 2 PDMD, 2 frames sent, 3 received, 2 resets, 7 of these in all |
| `StartLosesNotify` | a finding, see below | 1 operation |

Deadlock is checked for the server and the bus. Elsewhere a bounded environment
stops: the host, the CPU or the line has done all that the bounds allow.

Why the bounds are enough. Two devices with disjoint bits are what one harvest
needs to carry a bit for somebody else; devices raise any number of times.
Three client operations are enough to resume, disturb and stop, or to stop and
resume again. The retransmit buffer of `CoreRetra` is small so that one list
overflows it, in the response as well as in the data of a wblk, and a second
list and a NAK still fit into 14 symbols. In `BusSteps` the FIFO and its levels
are the real ones, and a block of 18 words (36 bytes) exceeds the FIFO. In
`ConnectExec` the second call meets whatever the first one left behind; a
list is a register read, an attn command, or a block read behind a labo. Four
sequence numbers do not repeat within two calls; the code's 32 repeat for an
answer that is 32 commands late, which the model therefore does not have. Disk requests of one word up to more than a
track start in every place of interest, so that they end inside a block, at its
end, at the end of track, cylinder and disk and of memory; they take up to two
chunks. Two functions let one meet what the other left; the second may be given
while the first still runs, after a reset. Tapes hold up to a few records and
marks, in both dialects, cut off or damaged ones among them. Fifos of two have
the states empty, one, full; block sizes and queue limits vary within them. A
ring of two is the smallest the code accepts, and both wrap around; three frames
fill the receive ring and start the poll timer, two resets reach the window
between the writes of PR1 and PR0.

Bounds that keep a defect out of reach: in `TapeFunc` every WRITE has memory for its
first word, and the tape on which a short READ takes the next record's tag for its own
is write protected, so that no write begins inside a record (see the observations).

### Fairness

* Server: weak fairness of the FPGA, of its notify request, of the server
  thread and of every client that has begun an operation. The hardware runs,
  and the request logic in `proc_lnext` is outside the `case` over states, so
  it acts also while lists are executed; without the separate condition a model
  in which an action repeats itself for ever could starve it. Threads are
  scheduled by the operating system. Clients begin boundedly many operations,
  so the lock cannot be kept from the server for ever; operations are never
  forced to begin.
* Bus: the clock runs, and the host side does not hold for ever (strong
  fairness of steps that take a byte, since `RL_HOLD` may come and go).
* Poll loop: the loop thread is scheduled, and a client that has changed the
  list goes on to its `Wakeup()`.
* Disks: weak fairness of the server's step. That an attention and a queued action
  get their turn is what `AttnServed` and `ActnServed` show for the server.

`NoAttnLost` and `AttnServed` speak of the handlers registered at start
(`fAttnDsc = InitDsc`): a bit whose handler was removed is nobody's.

### Finding

`StartLosesNotify`: `Start()` sends attn and sets `anena` in one list. A notify
read together with the response is processed before `fServerThread` is assigned.
It goes to `RlinkConnect::fAttnNotiPatt`, which the comment says can be inquired
with `HarvestAttnNotifies()`; this method does not exist, the server never looks
there, and the FPGA waits for an attn command that does not come.

### Observations

Behaviour the models have, which a maintainer may want to look at. Where a
property would fail because of one of them, its comment or the module names the
condition.

Server and link:

* The new thread can reach `HandleUnsolicitedData()` before its creator has
  assigned `fServerThread` (`librlink/RlinkServer.cpp:418`); its precondition
  fails, it throws (`RlinkConnect.cpp:732`) and the event loop ends.
* The loop over `fAttnDsc` is unlocked between calls (`RlinkServer.cpp:463`).
  Removing an entry shifts the list and the next handler is skipped; one that is
  removed and registered again while a round is past its place is not called, and
  the default handling drops its bits.
* `hnext &= ~hmatch` drops a bit an earlier harvest had kept if two handlers share
  it; the code says "works for single lam handlers only" (`:484`).
* `sl_txcrch` tests `rtaddra_red` before `anact` (`rlink_core.vhd:1213`): after a
  list that filled the retransmit buffer a notify ends in a NAK, and the next
  list of the host is skipped. After an overflow of a wblk, a wblk with count zero
  is refused, because the flag is only reloaded in `sl_wblk`.
* A poll handler that asks for its removal is removed by descriptor number, so a
  handler registered meanwhile for the same number goes.
* The exception "faulty response" (`RlinkConnect.cpp:775`) is constructed but not
  thrown. `DecodeResponse()` then runs on what is there and fails the list; this
  is what `ExecService` relies on. The packet stays until it is dropped by the
  next read of unsolicited data.
* `ReadResponse()` documents that a partial packet is discarded (`:1086`); after a
  port timeout (`:1107`) it is not.
* `Exec()` does not clear check flags of an earlier execution.
* A damaged notify is dropped, and the FPGA is mute until another attn command.
* `WaitAttn()` returns with raw data left if two notifies came in one read.

Disks:

* RHRP: `AddNormalExit()` writes `RPCS2` bits to `kRPER1` (`Rw11CntlRHRP.cpp:654`),
  so missing memory shows as WLE; a mismatch of a write check sets RWCO by the
  parity of the words done (`:570`), not of the word that failed; the address check is `>`
  where the last valid value is one less.
* After a reset a new GO may be answered by the end of the old transfer.
* `Detach()` between two chunks makes `VirtWrite()` throw; the server thread ends.
* RK11 counts an overrun from the truncated size. GO clears only the soft errors
  (`ibdr_rk11.vhd:354`) and a function without errors does not write RKER
  (`Rw11CntlRK11.cpp:619`), so a good function after a bad one still shows the hard
  error.
* The RHRP tests for a missed abort with a variable it has never set
  (`Rw11CntlRHRP.cpp:583`).
* The registers are updated before the file is written: a failing write is
  reported as success.

Tape (`Rw11VirtTapeTap.cpp`, `Rw11CntlTM11.cpp`):

* A READ shorter than its record seeks by the padded length of the whole record
  after part of it was read (`:181`). What it finds there is taken for the closing tag:
  most often the tape is bad from then on, and a record length error is not reported;
  if the next record has the same length, its tag passes, the error is
  reported and the position is inside that record. Padded odd records do the same.
* A WRITE on a bad tape writes nothing and is reported as done.
* A WRITE whose first word has no memory writes a mark or an end tag; a WRITE with
  the largest count writes a tag that cannot be read.
* A failed write is reported as success; an odd last byte without memory is
  counted.
* `Detach()` between queueing and completion leads to a null pointer; `SetPos` runs
  without the lock and without `UnitSetup()`; GO clears BOT of all units.

Terminals, printer, paper tape:

* DZ11: a CLR that waits for a full fifo, followed by a write to LPR, has its RXON
  word overtaken; the handler then drops input. A bus reset switches the DZ11 off
  without a CAL word. A character dropped because its line is off should raise an
  attention when the fifo is empty, says the comment at `ibdr_dz11.vhd:480`; the test
  at `:484` is for a fifo that is not empty. A block dropped as a whole strands what
  the queues still hold, and so does the read of the last value in maintenance mode,
  which raises no attention (`aux.mute`).
* A character that finds the fifo filled by CAL words after TRDY is lost; a bus
  reset sets ready with a full fifo (DL11, LP11, PC11).
* `Rw11UnitTerm::Snd` compares with 177 decimal, `StatIncTx` assigns with `&=`.
* PC11: if the handler reads RBUF before the CPU enables the reader, it returns at
  `Rw11CntlPC11.cpp:458` with the fifo empty. RENB raises no attention (a test states it,
  `test_pc11_pr.tcl:152`), so the request is not answered until the punch raises one or
  a tape is attached, in the middle of the tape as at its end (`AskedTooLate`). A
  program that reads a character and asks for the next one at once wins this race.
  After the end `SetPos` does not restart the reader. Results of `VirtFlush` are
  ignored.

DEUNA (`Rw11CntlDEUNA.cpp`):

* `StartTxRing()` tests the copy `fTxDscCurPC` instead of the descriptor it was
  given (`:1499`), so START may find a frame that is not there, or none where one
  is (`aux.stale`).
* The descriptor of the next receive entry is read into `fRxDscCurPC`; a PDMD then
  starts the ring with the wrong buffer (`aux.pdmdRx`). `RcvCallback()` tests
  `fTxRingState` where it means the receive ring. A frame that meets a full idle
  ring does not start the poll timer, and a poll that finds no buffer is not
  repeated: the frame waits for the next event.
* SELFTST is never answered (`aux.selftst`); an answer with PCEI drops a PDMD
  written while busy (`aux.pdmdLost`); a reset while a command is being answered is
  masked by the answer (`aux.reset`). A reset also raises busy; if it comes while
  the handler answers an earlier command, that answer ends busy (`ibdr_deuna.vhd:333`)
  before the reset is handled, so the driver may write a command over a PDMD that
  still waits (`aux.early`).
* `Reset()` leaves `fMode`, and frames stay queued across stop and reset.

## Proofs

TLC checks small instances; the theorems hold for every value of the constants
that the assumptions allow: every number of clients, handlers, lines and
descriptors, every buffer, fifo, ring and block size, every choice of operations,
and every value of the bounds that the runs set. Each proof module states the
inductive invariant as a conjunction of named parts, has one lemma per action or
group of actions, and ends in the theorems. The invariants were checked with TLC
before they were proved.

### The server (`RlinkServer_proofs`)

From `ServerAssumption` (types of the constants, and that `"srv"`, `"free"` and
`"none"` are no names of clients or devices):

* `TypeCorrect`: `Spec => []TypeOK`. More than types: part of it is that the
  action list is not empty while an action is called, which `CallActnHandler()`
  relies on when it looks at the list again after the call. `TypeOK` is
  inductive in five parts, one lemma each.
* `LockDiscipline`: `Spec => [](LockInv /\ ThreadInv)`. The lock is held exactly
  by the thread that is inside an operation, and a running server is known to
  `IsActive()` unless its creator still holds the lock.
* `WakeupNeverLost`: `Spec => []NoLostWakeup`. The event loop decides to block
  without a lock. The argument: work added after that decision comes with a
  signal of the wakeup event, if `IsActive()` is true at that moment. That needs
  `ThreadInv`, and `ThreadInv` needs `LockInv`: the only time a thread runs while
  `IsActive()` is false its creator holds the lock. What is left, a notify
  processed by the creator itself in this window, is kept elsewhere (the finding
  `StartLosesNotify`) and is not work the loop knows of.
* `NotifyHasCause`: `Spec => []PendingHasAttn`. The FPGA never waits for an attn
  command with nothing to read. Inductive with the type invariant.
* `OneListAtATime`: at most one list or response is on the link (`ListInv`), it is
  that of the thread which waits for it (`OwnList`), and only one client starts
  servers, with none running (`StarterInv`). The model has queues in both
  directions; that a response read is the response to one's own list is a
  consequence of the lock, and the two theorems that follow rest on it.
* `NotifyAnswered`: `Spec => []AttnAnnounced` if `Start()` is not among the
  operations. The hypothesis is needed: the run `StartLosesNotify` has the
  counterexample. With `Resume()` the gap is closed by the `SndAttn()` that the
  creator sends after it has assigned `fServerThread` (`ResumeInv`).
* `AttentionKept`: `Spec => []NoAttnLost` under two hypotheses. `DisjointMasks`: the
  handlers share no bit, as the comment at `RlinkServer.cpp:484` says. `OneWay`:
  clients register handlers or remove them, but not both; otherwise the list may
  be the initial one again after a handler was out of it for a while (see the
  observations). `FixedInv` says that a changed list never becomes what it was.
  `RoundInv` is the account of the handler loop: the match belongs to the handler
  at `i`, the bits of handlers already passed are in `hdone`, the default handling
  holds no handler's bit, and a device whose registers have been read since is owed a
  call only if it raised again. `NoAttnLost` is then inductive: a bit moves from
  `attn` to a harvest, from there to `hnext` or `hdone`, from a notify to
  `fAttnNotiPatt` and `fAttnPatt`, and each place is among those it names.

### The poll loop (`ReventLoop_proofs`)

From `LoopAssumption`: `NeverSleepsStale` (`NoStaleSleep`) and `PollListSafe`
(`PollInv`). The inductive invariant is `LoopInv`. It adds `CallInv`: a handler about
to be called belongs to the copy, and a removed handler has been called only if the
copy is known to be stale and the loop is past the call; the next test of
`fUpdatePoll` then leaves the loop.

### The link FSM (`RlinkCore_proofs`)

From `CoreAssumption`, for every size of the retransmit buffer and every sequence of
symbols: `ResponseKept` (`CoreInv`), `ReplayInOrder` (`RetransmitInOrder`),
`BlockInOrder` (`WblkDataInOrder`). The invariant: a pointer is red exactly at the
top and goes bad only there (`PointerOK`); the buffer holds the response up to port
a, all of it unless port a is bad (`Kept`), and then the list ends in a NAK
(`CutShort`); a replay reads port b from the bottom, `bcnt` bytes from the end
(`Replay`); a block is parked behind the response (`Parking`) and read back from the
same place (`Unparking`), so that it neither overwrites the response nor is
overwritten by it; `Counts` ties the byte and word counters together.

### The bus FSM (`RlinkBus_proofs`)

From `BusAssumption` and `MarginAssumption`: `NoByteIsLost` (`BusInv`), `PulsesHeeded`
(`NoPulseMissed`), `DataPassesInOrder` (`DataInOrder`), for every block length, every
FIFO size and every pattern of holds, busy and errors. `MarginAssumption` is
`High + 4 <= FifoSize`. The code has 28 and 32 and a FIXME that asks for the right
number (`rlink_core.vhd:1369`): the proof shows that four is enough (`Room`: after the
level is reached the word under way and the one behind it still come, and a byte may
be in flight), and TLC finds a lost byte when it is three, so the margin is exact.
The invariant ties the two state machines together (`OpOK`, `InStep`), counts words
left and bytes pushed and popped (`WordsLeft`, `WriteWord`, `ReadBytes`) and the
done count (`Counted`).

### Disks (`Rw11Disk_proofs`)

From `DiskAssumption` (types; no size is zero; there is a unit) and `ReqsAssumption`
(a count of zero means the largest count, so counts are positive; the head field of
the RK11 and RL11 is one bit wide, so that only the RHRP can be given a head that does not
exist): `HandlersNeverThrow` (`DiskInv`), `TransferExact` (`CompletionExact`) and
`FilesAsReported` (`DiskAsReported`), for every geometry, block, chunk and memory
size and every sequence of functions, resets and client calls.

The invariant has a part that holds whatever happens and one for requests that
nothing disturbed (`clean`, as in the properties). Always: a device that is not ready
has a request of the CPU, and that of an RHRP is in range (`Given`); the handler's
copy is sane, a chunk is within the request, and a chunk that was cut short ends at
the end of memory (`Handler`). Undisturbed: the host works on the request the CPU
waits for and on no other (`Current`, which uses that a lam is spurious while a
transfer is active); after `k` words memory is `Moved(k)` and the buffer holds the
words moved (`Progress`); the file differs from what was reported only between the
fused register update and `PostRdmaHook()`, and then by the padded buffer (`Files`).
`Handler` also says that the labo aborted exactly when the chunk was cut short, so that
the missed abort for which the callbacks would throw does not happen.
`CompletionExact` is itself a part, since it is about the past of a request and only
the step that ends the request establishes it.

The properties count words, the code blocks. `BlocksTouched` shows that
`Nwrd2Nblk(n)` is the number of blocks that `n` words lie in, `Truncated` that the
overrun test on blocks cuts the count where the words end, `Geometry` that
`Lba2Chs()` inverts `Chs2Lba()`, `CheckExact` that `WriteCheck()` stops at the first
word that differs.

### Terminals (`Rw11Term_proofs`)

From `TermAssumption`: `PictureSafe` (`TermInv`: types, no overrun of the receive fifo,
a true copy of the line state), `TransmitExact` (`TxExact`), `ReceiveExact`
(`RxExact`) and `TermNotStranded` (`NotStranded`), for the DL11 and the DZ11 with every
number of lines, every fifo size, block size, queue limit and sequence of characters,
control writes and resets. `TermAssumption` asks that the smallest block (`MinRblk`, 4
in the code) is no larger than the fifo: `ibdr_dl11_buf` asserts an AWIDTH of at least
4, which gives 15 places.

The invariant, beside the types:

* `Room`: the usage of the receive fifo that the handler remembers is never below the
  true one, and a block for it fits; the CPU, which runs at any time, only makes room.
  Maintenance mode is the exception, there the device writes to the fifo itself.
* `Fetch`: a transmit fifo that holds something has an attention pending or a read to
  come. A block in which the usage one was seen (`LastSeen`) took the last entry, so
  that what the fifo holds now came into an empty fifo and raised an attention.
* `Refill`: with a receive queue that holds something the CPU has something to read,
  whose end raises an attention, or an attention is pending, or the handler at work
  is going to look at the queues, or the DZ11 kept silent (`aux.mute`, see the
  observations).
* `Cal`: the handler's copy with the CAL words under way applied to it (`Believed`) is
  what the device holds, but for the words that still wait in `reg.q`.
* `Transmitted` and `Received`: per line, what was handed over, the block and the fifo
  are what the CPU wrote; what the CPU read, the fifo, the block and the queue are
  what the line received, and even with characters dropped they stay in order
  (`RisingDrop`, `RisingAdd`).

`ChrsOf` and `CalView` are recursive functions over sequences, and induction over data
is out of reach. The lemmas `FoldExists`, `FoldUnique` and `FoldCat` do without: two
functions that satisfy the same recursion differ nowhere, because the least place
where they differ (`Least`, a fact about sets of numbers) contradicts the recursion;
concatenation follows from the same argument.

### Printer and paper tape (`Rw11Stream_proofs`)

From `StreamAssumption`: `BlocksFit` (`StreamInv`), `CharactersExact` (`StreamExact`),
`CharactersNotStranded` (`NotStranded`), for every fifo size, queue limit and tape. The
invariant: `Block` (a block has room, although the usage was read before), `Output`
(what was sent is what was handed over, the block and the fifo, in order), `Fetch` (a
filled output fifo has an attention or a read to come), `Reader` (what the CPU got,
the fifo and the block are the tape up to its position, and the drain state knows
about its end), `Refill` (an empty reader fifo of an online reader has an attention
or a handler that fills it, or the last handler found no request; without that
exception the statement is false, see the observations).

### DEUNA (`Rw11CntlDEUNA_proofs`)

From `DeunaAssumption` and `CmdsAssumption`: `RingsAndPortAlive` (`PortInv`),
`FramesNotStranded` (`TxNotStranded`), `FramesSentInOrder` (`TxExact`) and
`FramesReceivedInOrder` (`RxExact`), for every ring and queue size and every
sequence of commands and resets. The invariant of the first two: `Rings` (a handler at work is still
queued), `Port` (a port that waits has an attention or a handler at work), `Busy`
(busy while a command is pending or at work), `TxRing` (a busy ring has a descriptor
it owns), `Demand` (where the PDMD of a frame can be: at the port, waiting for an
answer, at work, or in the ring). The attempt to prove `Demand` found the case that
`aux.early` now names.

The order of frames rests on it and on a second invariant, `FrameInv`. Frame `k` of a
session goes through entry `Slot(k)`, `k` modulo the ring size; `Holds` says that the
entries from one frame on which carry a mark are those of the frames up to another
one, and hold them. Three lemmas about it (`HoldsAdd`, `HoldsTake`, `HoldsNothing`)
serve both rings: the tx ring holds what was given and not given back (`TxFrames`), the
rx ring what was moved from the queue and not read (`RxFrames`). `TxCopies` and
`RxCopies` say that a cached descriptor which claims ownership is that of the entry
at the ring index, and still true; for rx only until a PDMD puts the next entry's
descriptor in its place while a handler is queued, which is the defect `aux.pdmdRx`.
What is left is that a session is one session: that the device is stopped when the
driver gives START (`Starting`) and that nothing which stops it is pending while both
run (`Stopping`). With ring handlers left over, a busy that was ended early, and resets
acknowledged unseen this takes an argument through the port registers, and the proof
shows that none of these defects disturbs the order of frames.

### Only model-checked

* Liveness (`AttnServed`, `ActnServed`, `StopReturns`, `TransferEnds`, `ReadyServed`,
  `GoAnswered`): fairness is out of the prover's reach.
* The refinements `ExecService` and `TapeService`, and all of `RlinkConnect` and
  `Rw11CntlTM11`. Their state is built with recursive functions and folds over byte
  sequences (packets, tape files); what these compute for every input needs
  induction over data, for which the library's theorems cannot be instantiated.
  Where a least element of a set of numbers is enough, as in `Rw11Stream_proofs`,
  `Rw11Disk_proofs` and `Rw11Term_proofs`, induction is avoided; a packet or a tape
  file is parsed by recursions within recursions, and the argument of the terminals
  would have to be made for each of them.

## Not modelled

* The instruction set, MMU and data path of the w11a: a question of data, out of
  TLC's reach. The cache and the interrupt logic are candidates.
* Board support, system designs, test benches, the FX2 firmware.
* Tcl bindings (`librlinktpp`, `librwxxtpp`, `librtcltools`), `librtools`, command
  lists and address maps: argument parsing, containers, formatting. They are more
  than half of the C++ code and hold no protocol state; for this reason the
  models cover a small share of all C++ lines (about 10 %), although most of the
  code that runs in or beside the server thread is among it. The models also cover
  about 1900 lines of VHDL.
* `Rw11Cpu`: register and memory access as command lists. `WaitCpuActDown`, a
  hand-over between threads, is planned.
* Of the modelled parts: crc values, monitor outputs, `RESET` of `rlink_core`, the
  status byte, `LinkInit`, `Open` and `Close`; seek timing and interrupt logic of
  the devices; the unbuffered DL11, LP11 and PC11; DTR and line enables of the
  DZ11; sizes, padding and chaining of ethernet frames, counters, attach and detach
  of the tap device; the overlay and RAM disks; statistics, tracing, logging.
* The link is reliable in `RlinkServer` and for the devices; `RlinkConnect` covers
  the unreliable one, `RlinkCore` a host that sends anything.

## Plan

Done: `RlinkAttn`, `RlinkServer`, `RlinkCore`, `RlinkBus`, `ReventLoop`, the disk,
terminal, stream and ethernet controllers with the proofs; `RlinkPacketBuf`,
`RlinkConnect` and the tape controller. Left, in this order:

1. Theorems: `NotifyKept` and the refinement of `RlinkExec`; `TapeInv`.
2. `Fifo2c`: two clocks, gray counters, reset from either side, as a refinement
   of a bounded queue; XON/XOFF.
3. `Rw11Cpu::WaitCpuActDown` with the attention of the CPU; `LinkInit`.
4. The cache and its memory interface; interrupt requests of the ibus devices.
