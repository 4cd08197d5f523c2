----------------------------- MODULE RlinkServer -----------------------------
(***************************************************************************)
(* The backend server (tools/src/librlink/RlinkServer.cpp): the server     *)
(* thread with its event loop, the client threads that share the           *)
(* connection with it, and the attention unit of the FPGA they talk to     *)
(* (module RlinkAttn).                                                     *)
(*                                                                         *)
(* An attention bit b is raised by a device and must reach the handlers    *)
(* registered for it.  On its way it is in the FPGA (attn), announced by a *)
(* notify packet, in fAttnNotiPatt, in fAttnPatt, or in the harvest of an  *)
(* attn command another handler has sent.                                  *)
(*                                                                         *)
(* The link is reliable here; loss and timeouts belong to RlinkConnect.    *)
(* Attention handlers are identified with the device they serve; Mask[h]   *)
(* is the mask a handler is registered with (AttnId::fMask).               *)
(***************************************************************************)
EXTENDS RlinkAttn

CONSTANTS Client,    \* threads outside the server
          Main,      \* the client that starts and stops the server
          Actn,      \* actions that can be queued
          Mask,      \* handler -> set of attention bits
          InitDsc,   \* handlers registered before the server is started
          Ops,       \* the operations clients perform in this instance
          MaxOps     \* bound on the number of client operations

OpNames == {"exec", "attn", "wait", "queue", "start", "resume", "stop",
            "addattn", "rmattn"}

ASSUME ServerAssumption ==
  /\ Main \in Client
  /\ "srv" \notin Client /\ "free" \notin Client
  /\ "none" \notin Dev
  /\ Mask \in [Dev -> SUBSET Lam]
  /\ InitDsc \in Seq(Dev)
  /\ Ops \subseteq OpNames
  /\ MaxOps \in Nat

VARIABLES
  lock,            \* owner of RlinkConnect::fConnectMutex
  connNoti,        \* RlinkConnect::fAttnNotiPatt
  fAttnDsc, fActnList, fAttnPatt, fAttnNotiPatt,
  fServerThread,   \* TRUE when joinable
  fStopPending,
  wake,            \* fWakeupEvent is readable
  spc,             \* program counter of the server thread
  ctx,             \* what the server waits for: "hdl", "dflt", "actn"
  blocking,        \* poll() timeout: TRUE for -1, FALSE for 0
  revents,         \* ready file descriptors not yet served by DoCall
  i,               \* loop index in CallAttnHandler, starting at 1
  hdl,             \* the handler matched last
  hmatch, hnext, hdone,
  rsp,             \* attention pattern of the response last decoded
  cpc, cctx,       \* program counter and operation of each client
  nops,            \* client operations still allowed
  req              \* devices owed a call of their handler (auxiliary)

connVars == <<lock, connNoti>>
servVars == <<fAttnDsc, fActnList, fAttnPatt, fAttnNotiPatt, fServerThread,
              fStopPending, wake>>
loopVars == <<spc, ctx, blocking, revents, i, hdl, hmatch, hnext, hdone, rsp>>
cliVars  == <<cpc, cctx, nops>>
vars == <<fpgaVars, connVars, servVars, loopVars, cliVars, req>>

Range(s) == {s[k] : k \in DOMAIN s}

\* RlinkServer::IsActive(): the thread object is joinable.
IsActive == fServerThread
AttnPending == fAttnPatt # {} \/ fAttnNotiPatt # {}
ActnPending == fActnList # <<>>

Dead == {"none", "done", "crashed"}
SrvPC == Dead \cup {"top", "poll", "call", "hud", "attn", "merge", "loop",
                    "hcall", "dcall", "fin", "actn", "alock",
                    "wait", "acc"}
CliPC == {"idle", "wait", "acc", "assign", "sndattn", "wakeup", "join"}

Init ==
  /\ AttnInit
  /\ lock = "free" /\ connNoti = {}
  /\ fAttnDsc = InitDsc /\ fActnList = <<>>
  /\ fAttnPatt = {} /\ fAttnNotiPatt = {}
  /\ fServerThread = FALSE /\ fStopPending = FALSE /\ wake = FALSE
  /\ spc = "none" /\ ctx = "hdl" /\ blocking = FALSE /\ revents = {}
  /\ i = 1 /\ hdl = "none"
  /\ hmatch = {} /\ hnext = {} /\ hdone = {} /\ rsp = {}
  /\ cpc = [c \in Client |-> "idle"] /\ cctx = [c \in Client |-> "exec"]
  /\ nops = MaxOps
  /\ req = {}

-----------------------------------------------------------------------------
(* Devices and FPGA.                                                        *)

\* A device raises its attention; its handlers now owe it a call.
DevRaise(b) ==
  /\ RaiseLam(b)
  /\ req' = req \cup {h \in Range(fAttnDsc) : b \in Mask[h]}
  /\ UNCHANGED <<connVars, servVars, loopVars, cliVars>>

\* The attn command executes.  A pattern read by a client is its own to deal
\* with: Start() throws it away, a script handles it.
FpgaReadAttn ==
  /\ ReadAttn
  /\ req' = IF lock = "srv" THEN req ELSE {}
  /\ UNCHANGED <<connVars, servVars, loopVars, cliVars>>

\* The tail of a handler's list reads the state of its device: served.
FpgaFinishList ==
  /\ FinishList
  /\ req' = req \ {Head(down).for}
  /\ UNCHANGED <<connVars, servVars, loopVars, cliVars>>

FpgaLink ==
  /\ \/ RequestNotify \/ StartNotify \/ AcceptPoll
     \/ SendNotify \/ AcceptList
  /\ UNCHANGED <<connVars, servVars, loopVars, cliVars, req>>

-----------------------------------------------------------------------------
(* Pieces of RlinkConnect used by every thread.                             *)

Send(rattn, ranena, rfor) ==
  /\ down' = Append(down, [typ |-> "req", attn |-> rattn, anena |-> ranena,
                           for |-> rfor])
  /\ UNCHANGED <<attn, anreq, arpend, anena, lstate, harv, up>>

\* Mutant of ProcessAttnNotify: SignalAttnNotify() without its Wakeup().
ProcessAttnNotifyNoWakeup(p) ==
  /\ fAttnNotiPatt' = IF IsActive THEN fAttnNotiPatt \cup p ELSE fAttnNotiPatt
  /\ wake' = wake
  /\ connNoti' = IF IsActive THEN connNoti ELSE connNoti \cup p

\* ProcessAttnNotify() with SignalAttnNotify(): a zero pattern is ignored;
\* an active server is signalled, otherwise RlinkConnect keeps the pattern.
ProcessAttnNotify(p) ==
  /\ fAttnNotiPatt' = IF IsActive THEN fAttnNotiPatt \cup p ELSE fAttnNotiPatt
  /\ wake' = (wake \/ (IsActive /\ p # {}))
  /\ connNoti' = IF IsActive THEN connNoti ELSE connNoti \cup p

\* One packet leaves the uplink.
Receive(ty) ==
  /\ up # <<>> /\ Head(up).typ = ty
  /\ up' = Tail(up)
  /\ UNCHANGED <<attn, anreq, arpend, anena, lstate, harv, down>>

\* ReadResponse() and AcceptResponse() -> ProcessUnsolicitedData(): a notify
\* is taken out of the stream while a thread waits for its response, or
\* right after the response when it was read together with it.
TakeNotify ==
  /\ Receive("anot")
  /\ ProcessAttnNotify(Head(up).pat)
  /\ UNCHANGED <<lock, fAttnDsc, fActnList, fAttnPatt, fServerThread,
                 fStopPending, loopVars, cliVars, req>>

-----------------------------------------------------------------------------
(* Server thread: RlinkServerEventLoop::EventLoop().                        *)

\* while (!StopPending()) with the choice of the poll timeout.
SrvTop ==
  /\ spc = "top"
  /\ spc' = IF fStopPending THEN "done" ELSE "poll"
  /\ blocking' = ~(AttnPending \/ ActnPending)
  /\ UNCHANGED <<fpgaVars, connVars, servVars, ctx, revents, i, hdl, hmatch,
                 hnext, hdone, rsp, cliVars, req>>

\* DoPoll() on the wakeup event and the rlink port.
SrvPoll ==
  /\ spc = "poll"
  /\ LET ready == {fd \in {"wake", "rlink"} : \/ fd = "wake" /\ wake
                                              \/ fd = "rlink" /\ up # <<>>}
     IN /\ blocking => ready # {}
        /\ revents' = ready
        /\ spc' = IF ready # {} THEN "call" ELSE "attn"
  /\ UNCHANGED <<fpgaVars, connVars, servVars, ctx, blocking, i, hdl, hmatch,
                 hnext, hdone, rsp, cliVars, req>>

\* DoCall() for the wakeup event: WakeupHandler() reads the event.
SrvWakeup ==
  /\ spc = "call" /\ "wake" \in revents
  /\ wake' = FALSE
  /\ revents' = revents \ {"wake"}
  /\ spc' = IF "rlink" \in revents THEN "call" ELSE "attn"
  /\ UNCHANGED <<fpgaVars, connVars, fAttnDsc, fActnList, fAttnPatt,
                 fAttnNotiPatt, fServerThread, fStopPending, ctx, blocking, i,
                 hdl, hmatch, hnext, hdone, rsp, cliVars, req>>

\* DoCall() for the rlink port: RlinkHandler() -> HandleUnsolicitedData(),
\* which throws unless it sees itself inside an active server.  The check is
\* made before the lock is taken; an exception ends the event loop.
SrvRlink ==
  /\ spc = "call" /\ revents = {"rlink"}
  /\ revents' = {}
  /\ spc' = IF fServerThread THEN "hud" ELSE "crashed"
  /\ UNCHANGED <<fpgaVars, connVars, servVars, ctx, blocking, i, hdl, hmatch,
                 hnext, hdone, rsp, cliVars, req>>

\* HandleUnsolicitedData() under the lock; the data may be gone by then.
SrvUnsolicited ==
  /\ spc = "hud" /\ lock = "free"
  /\ spc' = "attn"
  /\ \/ /\ up = <<>>
        /\ UNCHANGED <<fpgaVars, fAttnNotiPatt, wake, connNoti>>
     \/ /\ Receive("anot")
        /\ ProcessAttnNotify(Head(up).pat)
  /\ UNCHANGED <<lock, fAttnDsc, fActnList, fAttnPatt, fServerThread,
                 fStopPending, ctx, blocking, revents, i, hdl, hmatch, hnext,
                 hdone, rsp, cliVars, req>>

\* if (AttnPending()) CallAttnHandler();
SrvAttn ==
  /\ spc = "attn"
  /\ spc' = IF AttnPending THEN "merge" ELSE "actn"
  /\ UNCHANGED <<fpgaVars, connVars, servVars, ctx, blocking, revents, i, hdl,
                 hmatch, hnext, hdone, rsp, cliVars, req>>

\* CallAttnHandler(): transfer the notifier pattern, start the handler loop.
SrvMerge ==
  /\ spc = "merge"
  /\ fAttnNotiPatt # {} => lock = "free"
  /\ fAttnPatt' = fAttnPatt \cup fAttnNotiPatt
  /\ fAttnNotiPatt' = {}
  /\ i' = 1 /\ hnext' = {} /\ hdone' = {}
  /\ spc' = "loop"
  /\ UNCHANGED <<fpgaVars, connVars, fAttnDsc, fActnList, fServerThread,
                 fStopPending, wake, ctx, blocking, revents, hdl, hmatch, rsp,
                 cliVars, req>>

\* The loop head: the match is computed before the lock is taken.
SrvMatch ==
  /\ spc = "loop" /\ i <= Len(fAttnDsc)
  /\ hdl' = fAttnDsc[i]
  /\ hmatch' = fAttnPatt \cap Mask[fAttnDsc[i]]
  /\ IF hmatch' # {} THEN spc' = "hcall" /\ i' = i
                     ELSE spc' = "loop"  /\ i' = i + 1
  /\ UNCHANGED <<fpgaVars, connVars, servVars, ctx, blocking, revents, hnext,
                 hdone, rsp, cliVars, req>>

\* The handler that is called is the one at index i once the lock is held.
\* If the list was shortened in between, fAttnDsc[i] is a destroyed element:
\* the erased handler may still be called, or the loop dies.
CalledHdl == IF i <= Len(fAttnDsc) THEN fAttnDsc[i] ELSE hdl

\* The handler runs under the lock and harvests: GetAttnInfo() sends a list
\* that starts with attn and then reads the device.
SrvCallHandler ==
  /\ spc = "hcall" /\ lock = "free"
  /\ lock' = "srv"
  /\ Send(TRUE, FALSE, CalledHdl)
  /\ spc' = "wait" /\ ctx' = "hdl"
  /\ UNCHANGED <<connNoti, servVars, blocking, revents, i, hdl, hmatch, hnext,
                 hdone, rsp, cliVars, req>>

SrvCallErased ==
  /\ spc = "hcall" /\ lock = "free" /\ i > Len(fAttnDsc)
  /\ spc' = "crashed"
  /\ UNCHANGED <<fpgaVars, connVars, servVars, ctx, blocking, revents, i, hdl,
                 hmatch, hnext, hdone, rsp, cliVars, req>>

\* A notify arrives while the server waits for, or has just got, a response.
SrvNotify ==
  /\ spc \in {"wait", "acc"}
  /\ TakeNotify

\* The response arrives and is decoded.
SrvResponse ==
  /\ spc = "wait"
  /\ Receive("resp")
  /\ rsp' = Head(up).pat
  /\ spc' = "acc"
  /\ UNCHANGED <<connVars, servVars, ctx, blocking, revents, i, hdl, hmatch,
                 hnext, hdone, cliVars, req>>

\* Mutant of HarvestOthers: bits harvested for other handlers are dropped.
HarvestOthersDropped(next, harvest, mask, match) == next \ match

\* The handler is done: what it harvested for others is kept for the next
\* round, what was its own is not.  It may have queued an action.
HarvestOthers(next, harvest, mask, match) == (next \cup (harvest \ mask)) \ match

SrvHandlerDone ==
  /\ spc = "acc" /\ ctx = "hdl"
  /\ hnext' = HarvestOthers(hnext, rsp, Mask[CalledHdl], hmatch)
  /\ hdone' = hdone \cup hmatch
  /\ \/ fActnList' = fActnList
     \/ \E a \in Actn \ Range(fActnList) : fActnList' = Append(fActnList, a)
  /\ i' = i + 1 /\ hdl' = "none" /\ hmatch' = {} /\ rsp' = {}
  /\ lock' = "free"
  /\ spc' = "loop"
  /\ UNCHANGED <<fpgaVars, connNoti, fAttnDsc, fAttnPatt, fAttnNotiPatt,
                 fServerThread, fStopPending, wake, ctx, blocking, revents,
                 cliVars, req>>

\* After the loop: the bits nobody handled are left in fAttnPatt.
SrvLoopEnd ==
  /\ spc = "loop" /\ i > Len(fAttnDsc)
  /\ fAttnPatt' = fAttnPatt \ hdone
  /\ spc' = IF fAttnPatt' # {} THEN "dcall" ELSE "fin"
  /\ UNCHANGED <<fpgaVars, connVars, fAttnDsc, fActnList, fAttnNotiPatt,
                 fServerThread, fStopPending, wake, ctx, blocking, revents, i,
                 hdl, hmatch, hnext, hdone, rsp, cliVars, req>>

\* Default handling of unhandled attentions: harvest, drop what is unhandled.
SrvDefault ==
  /\ spc = "dcall" /\ lock = "free"
  /\ lock' = "srv"
  /\ Send(TRUE, FALSE, "none")
  /\ spc' = "wait" /\ ctx' = "dflt"
  /\ UNCHANGED <<connNoti, servVars, blocking, revents, i, hdl, hmatch, hnext,
                 hdone, rsp, cliVars, req>>

SrvDefaultDone ==
  /\ spc = "acc" /\ ctx = "dflt"
  /\ hnext' = hnext \cup (rsp \ fAttnPatt)
  /\ rsp' = {}
  /\ lock' = "free"
  /\ spc' = "fin"
  /\ UNCHANGED <<fpgaVars, connNoti, servVars, ctx, blocking, revents, i, hdl,
                 hmatch, hdone, cliVars, req>>

\* fAttnPatt = hnext ends CallAttnHandler() and the life of its locals.
SrvAttnEnd ==
  /\ spc = "fin"
  /\ fAttnPatt' = hnext
  /\ spc' = "actn"
  /\ i' = 1 /\ hdl' = "none" /\ hmatch' = {} /\ hnext' = {} /\ hdone' = {}
  /\ UNCHANGED <<fpgaVars, connVars, fAttnDsc, fActnList, fAttnNotiPatt,
                 fServerThread, fStopPending, wake, ctx, blocking, revents,
                 rsp, cliVars, req>>

\* Mutant of SrvActn: CallActnHandler() is called unconditionally.
SrvActnUnchecked ==
  /\ spc = "actn"
  /\ spc' = "alock"
  /\ UNCHANGED <<fpgaVars, connVars, servVars, ctx, blocking, revents, i, hdl,
                 hmatch, hnext, hdone, rsp, cliVars, req>>

\* if (ActnPending()) CallActnHandler();
SrvActn ==
  /\ spc = "actn"
  /\ spc' = IF ActnPending THEN "alock" ELSE "top"
  /\ UNCHANGED <<fpgaVars, connVars, servVars, ctx, blocking, revents, i, hdl,
                 hmatch, hnext, hdone, rsp, cliVars, req>>

\* CallActnHandler(): the first action runs under the lock and uses the link.
SrvCallAction ==
  /\ spc = "alock" /\ lock = "free"
  /\ lock' = "srv"
  /\ Send(FALSE, FALSE, "none")
  /\ spc' = "wait" /\ ctx' = "actn"
  /\ UNCHANGED <<connNoti, servVars, blocking, revents, i, hdl, hmatch, hnext,
                 hdone, rsp, cliVars, req>>

\* Mutant of RequeueOrDrop: an action to be repeated stays in front.
RequeueAtFront(list) == {Tail(list), list}

\* irc > 0: requeue at the end, otherwise drop.
RequeueOrDrop(list) == {Tail(list), Append(Tail(list), Head(list))}

SrvActionDone ==
  /\ spc = "acc" /\ ctx = "actn"
  /\ fActnList' \in RequeueOrDrop(fActnList)
  /\ lock' = "free"
  /\ spc' = "top"
  /\ UNCHANGED <<fpgaVars, connNoti, fAttnDsc, fAttnPatt, fAttnNotiPatt,
                 fServerThread, fStopPending, wake, ctx, blocking, revents, i,
                 hdl, hmatch, hnext, hdone, rsp, cliVars, req>>

-----------------------------------------------------------------------------
(* Client threads.                                                          *)

\* Client c, idle, begins operation op.
Begin(c, op) ==
  /\ op \in Ops
  /\ cpc[c] = "idle" /\ nops > 0
  /\ nops' = nops - 1

Goto(c, pc) == cpc' = [cpc EXCEPT ![c] = pc]

\* Exec() of a list without (op = exec) or with (op = attn) an attn command;
\* the latter is trapped while the server is active.
CliExec(c, op) ==
  /\ op \in {"exec", "attn"}
  /\ Begin(c, op)
  /\ op = "attn" => ~IsActive
  /\ lock = "free" /\ lock' = c
  /\ Send(op = "attn", FALSE, "none")
  /\ Goto(c, "wait")
  /\ cctx' = [cctx EXCEPT ![c] = op]
  /\ UNCHANGED <<connNoti, servVars, loopVars, req>>

\* StartOrResume(): enable notifies; Start() also reads and drops attentions.
CliStart(c, op) ==
  /\ op \in {"start", "resume"}
  /\ c = Main
  /\ Begin(c, op)
  /\ ~IsActive
  /\ lock = "free" /\ lock' = c
  /\ Send(op = "start", TRUE, "none")
  /\ Goto(c, "wait")
  /\ cctx' = [cctx EXCEPT ![c] = op]
  /\ UNCHANGED <<connNoti, servVars, loopVars, req>>

CliNotify(c) ==
  /\ cpc[c] \in {"wait", "acc"}
  /\ TakeNotify

CliResponse(c) ==
  /\ cpc[c] = "wait"
  /\ Receive("resp")
  /\ Goto(c, "acc")
  /\ UNCHANGED <<connVars, servVars, loopVars, cctx, nops, req>>

CliExecDone(c) ==
  /\ cpc[c] = "acc" /\ cctx[c] \in {"exec", "attn"}
  /\ lock' = "free"
  /\ Goto(c, "idle")
  /\ UNCHANGED <<fpgaVars, connNoti, servVars, loopVars, cctx, nops, req>>

\* UnStop() and the creation of the thread, which runs from here on.
CliThread(c) ==
  /\ cpc[c] = "acc" /\ cctx[c] \in {"start", "resume"}
  /\ fStopPending' = FALSE
  /\ spc' = "top"
  /\ Goto(c, "assign")
  /\ UNCHANGED <<fpgaVars, connVars, fAttnDsc, fActnList, fAttnPatt,
                 fAttnNotiPatt, fServerThread, wake, ctx, blocking, revents, i,
                 hdl, hmatch, hnext, hdone, rsp, cctx, nops, req>>

\* Mutant of CliAssign: Resume() ends without SndAttn().
CliAssignNoSndAttn(c) ==
  /\ cpc[c] = "assign"
  /\ fServerThread' = TRUE
  /\ Goto(c, "idle") /\ lock' = "free"
  /\ UNCHANGED <<fpgaVars, connNoti, fAttnDsc, fActnList, fAttnPatt,
                 fAttnNotiPatt, fStopPending, wake, loopVars, cctx, nops, req>>

\* The thread object is assigned to fServerThread.
CliAssign(c) ==
  /\ cpc[c] = "assign"
  /\ fServerThread' = TRUE
  /\ IF cctx[c] = "resume"
       THEN Goto(c, "sndattn") /\ lock' = lock
       ELSE Goto(c, "idle") /\ lock' = "free"
  /\ UNCHANGED <<fpgaVars, connNoti, fAttnDsc, fActnList, fAttnPatt,
                 fAttnNotiPatt, fStopPending, wake, loopVars, cctx, nops, req>>

\* Resume() asks for a notify of whatever is pending.
CliSndAttn(c) ==
  /\ cpc[c] = "sndattn"
  /\ down' = Append(down, Poll)
  /\ lock' = "free"
  /\ Goto(c, "idle")
  /\ UNCHANGED <<attn, anreq, arpend, anena, lstate, harv, up, connNoti,
                 servVars, loopVars, cctx, nops, req>>

\* Stop(): set the flag, wake the thread, join it.
CliStop(c) ==
  /\ c = Main
  /\ Begin(c, "stop")
  /\ IsActive
  /\ fStopPending' = TRUE
  /\ Goto(c, "wakeup")
  /\ UNCHANGED <<fpgaVars, connVars, fAttnDsc, fActnList, fAttnPatt,
                 fAttnNotiPatt, fServerThread, wake, loopVars, cctx, req>>

\* Mutant of CliStopWakeup: Stop() joins without waking the event loop.
CliStopNoWakeup(c) ==
  /\ cpc[c] = "wakeup"
  /\ wake' = wake
  /\ Goto(c, "join")
  /\ UNCHANGED <<fpgaVars, connVars, fAttnDsc, fActnList, fAttnPatt,
                 fAttnNotiPatt, fServerThread, fStopPending, loopVars, cctx,
                 nops, req>>

CliStopWakeup(c) ==
  /\ cpc[c] = "wakeup"
  /\ wake' = TRUE
  /\ Goto(c, "join")
  /\ UNCHANGED <<fpgaVars, connVars, fAttnDsc, fActnList, fAttnPatt,
                 fAttnNotiPatt, fServerThread, fStopPending, loopVars, cctx,
                 nops, req>>

CliJoin(c) ==
  /\ cpc[c] = "join"
  /\ spc \in {"done", "crashed"}
  /\ spc' = "none"
  /\ fServerThread' = FALSE
  /\ Goto(c, "idle")
  /\ UNCHANGED <<fpgaVars, connVars, fAttnDsc, fActnList, fAttnPatt,
                 fAttnNotiPatt, fStopPending, wake, ctx, blocking, revents, i,
                 hdl, hmatch, hnext, hdone, rsp, cctx, nops, req>>

\* QueueAction() from outside the server thread.  Bound: an action is in the
\* list at most once.
CliQueue(c, a) ==
  /\ Begin(c, "queue")
  /\ lock = "free"
  /\ a \notin Range(fActnList)
  /\ fActnList' = Append(fActnList, a)
  /\ wake' = (wake \/ IsActive)
  /\ UNCHANGED <<fpgaVars, connVars, fAttnDsc, fAttnPatt, fAttnNotiPatt,
                 fServerThread, fStopPending, loopVars, cpc, cctx, req>>

\* WaitAttn(), allowed while no server is active: a pattern kept from earlier
\* is returned, otherwise the next notify that arrives is.
CliWaitAttn(c) ==
  /\ Begin(c, "wait")
  /\ ~IsActive
  /\ lock = "free"
  /\ \/ connNoti # {} /\ UNCHANGED fpgaVars
     \/ connNoti = {} /\ Receive("anot")
  /\ connNoti' = {}
  /\ UNCHANGED <<lock, servVars, loopVars, cpc, cctx, req>>

\* AddAttnHandler(), RemoveAttnHandler(): refused for a handler that is, or
\* is not, registered.  A removed handler is owed nothing.
CliAddAttn(c, h) ==
  /\ Begin(c, "addattn")
  /\ lock = "free"
  /\ h \notin Range(fAttnDsc)
  /\ fAttnDsc' = Append(fAttnDsc, h)
  /\ UNCHANGED <<fpgaVars, connVars, fActnList, fAttnPatt, fAttnNotiPatt,
                 fServerThread, fStopPending, wake, loopVars, cpc, cctx, req>>

RemoveAt(s, k) == SubSeq(s, 1, k - 1) \o SubSeq(s, k + 1, Len(s))

CliRemoveAttn(c, k) ==
  /\ Begin(c, "rmattn")
  /\ lock = "free"
  /\ k \in DOMAIN fAttnDsc
  /\ fAttnDsc' = RemoveAt(fAttnDsc, k)
  /\ req' = req \ {fAttnDsc[k]}
  /\ UNCHANGED <<fpgaVars, connVars, fActnList, fAttnPatt, fAttnNotiPatt,
                 fServerThread, fStopPending, wake, loopVars, cpc, cctx>>

-----------------------------------------------------------------------------
FpgaStep == FpgaReadAttn \/ FpgaFinishList \/ FpgaLink

SrvStep ==
  \/ SrvTop \/ SrvPoll \/ SrvWakeup \/ SrvRlink \/ SrvUnsolicited
  \/ SrvAttn \/ SrvMerge \/ SrvMatch \/ SrvCallHandler \/ SrvCallErased
  \/ SrvNotify \/ SrvResponse \/ SrvHandlerDone \/ SrvLoopEnd
  \/ SrvDefault \/ SrvDefaultDone \/ SrvAttnEnd
  \/ SrvActn \/ SrvCallAction \/ SrvActionDone

\* Steps that complete an operation a client has begun.
CliContinue(c) ==
  \/ CliNotify(c) \/ CliResponse(c) \/ CliExecDone(c) \/ CliThread(c)
  \/ CliAssign(c) \/ CliSndAttn(c) \/ CliStopWakeup(c) \/ CliJoin(c)

CliBegin(c) ==
  \/ \E op \in {"exec", "attn"} : CliExec(c, op)
  \/ \E op \in {"start", "resume"} : CliStart(c, op)
  \/ CliStop(c)
  \/ \E a \in Actn : CliQueue(c, a)
  \/ CliWaitAttn(c)
  \/ \E h \in Dev : CliAddAttn(c, h)
  \/ \E k \in DOMAIN fAttnDsc : CliRemoveAttn(c, k)

Next ==
  \/ \E b \in Lam : DevRaise(b)
  \/ FpgaStep
  \/ SrvStep
  \/ \E c \in Client : CliBegin(c) \/ CliContinue(c)

\* The hardware runs, and requests a notify in every cycle that calls for one,
\* also while a list is executed.  Threads are scheduled, and a mutex that is
\* free is eventually granted to the server thread that waits for it: clients
\* perform boundedly many operations.
Fairness ==
  /\ WF_vars(FpgaStep)
  /\ WF_vars(FpgaLink /\ RequestNotify)
  /\ WF_vars(SrvStep)
  /\ \A c \in Client : WF_vars(CliContinue(c))

Spec == Init /\ [][Next]_vars
FairSpec == Spec /\ Fairness
-----------------------------------------------------------------------------
(* Properties.                                                              *)

ServTypeOK ==
  /\ lock \in Client \cup {"free", "srv"}
  /\ connNoti \subseteq Lam
  /\ fAttnDsc \in Seq(Dev)
  /\ fAttnPatt \subseteq Lam /\ fAttnNotiPatt \subseteq Lam
  /\ fServerThread \in BOOLEAN /\ fStopPending \in BOOLEAN /\ wake \in BOOLEAN

LoopTypeOK ==
  /\ spc \in SrvPC /\ ctx \in {"hdl", "dflt", "actn"}
  /\ blocking \in BOOLEAN /\ revents \subseteq {"wake", "rlink"}
  /\ i \in Nat \ {0} /\ hdl \in Dev \cup {"none"}
  /\ hmatch \subseteq Lam /\ hnext \subseteq Lam /\ hdone \subseteq Lam
  /\ rsp \subseteq Lam

\* The list holds at least the action that is being called.
ActnTypeOK ==
  /\ fActnList \in Seq(Actn)
  /\ spc = "alock" \/ (spc \in {"wait", "acc"} /\ ctx = "actn") => ActnPending

CliTypeOK ==
  /\ cpc \in [Client -> CliPC]
  /\ cctx \in [Client -> {"exec", "attn", "start", "resume"}]
  /\ nops \in Nat
  /\ req \subseteq Dev

\* Every variable keeps its type.
TypeOK == AttnTypeOK /\ ServTypeOK /\ LoopTypeOK /\ ActnTypeOK /\ CliTypeOK

\* The server is inside CallAttnHandler().
InRound == \/ spc \in {"loop", "hcall", "dcall", "fin"}
           \/ spc \in {"wait", "acc"} /\ ctx # "actn"

\* Bits the server will act on without hearing from the FPGA again: the
\* current pattern, or inside CallAttnHandler() what is kept for the next.
Kept == fAttnNotiPatt \cup (IF InRound THEN hnext ELSE fAttnPatt)

\* The server's attn command is on its way: for a handler, or by default.
Harvesting == spc \in {"wait", "acc"} /\ ctx # "actn"

\* The pattern of that command: executed but not yet evaluated.
HarvestInTransit ==
  (IF lstate = "tail" THEN harv ELSE {})
  \cup (UNION {p.pat : p \in {q \in Range(up) : q.typ = "resp"}})
  \cup (IF spc = "acc" THEN rsp ELSE {})

\* What the evaluation of that pattern will keep.
HarvestKept ==
  IF Harvesting
  THEN HarvestInTransit \ (IF ctx = "hdl" THEN Mask[CalledHdl] ELSE fAttnPatt)
  ELSE {}

\* Handler h is matched in the running round and its call is still to come.
CallToCome(h) ==
  /\ InRound /\ fAttnPatt \cap Mask[h] # {}
  /\ \E k \in DOMAIN fAttnDsc :
        /\ fAttnDsc[k] = h
        /\ \/ k >= i /\ spc \in {"loop", "hcall"}
           \/ k > i /\ spc \in {"wait", "acc"} /\ ctx = "hdl"

\* The list of handler h is on its way: the device will be read.
ReadToCome(h) == \E r \in Range(down) : r.typ = "req" /\ r.for = h

\* No attention is lost while the list of handlers stays as it is: as long as a
\* device has not been served, an attention bit of its handler is in the FPGA,
\* in the server's patterns, in a harvest another handler is about to pass on,
\* or its call is under way.  (A handler removed in the middle of a round makes
\* the loop skip the next one, and the default handling then drops its bits.)
NoAttnLost ==
  fAttnDsc = InitDsc => \A h \in req :
                         \/ Mask[h] \cap (attn \cup Kept \cup HarvestKept) # {}
                         \/ CallToCome(h)
                         \/ ReadToCome(h)

\* A notify with a pattern, or the means to get one, is on its way.
NotifyToCome ==
  \/ lstate = "anot"
  \/ \E p \in Range(up) : p.typ = "anot" /\ p.pat # {}
  \/ \E r \in Range(down) : r.typ = "poll"
  \/ \E c \in Client : cpc[c] \in {"assign", "sndattn"} /\ cctx[c] = "resume"

\* The server will send an attn command without a further notify.
HarvestToCome ==
  \/ fAttnNotiPatt # {}
  \/ fAttnPatt # {} /\ ~InRound
  \/ fAttnPatt # {} /\ spc \in {"loop", "hcall"} /\ hdone = {}
  \/ spc = "dcall"
  \/ lstate # "tail" /\ \E r \in Range(down) : r.typ = "req" /\ r.attn

\* arpend mutes the FPGA until the next attn command, and the server never
\* enables the attn timeout.  So while a server runs and arpend is set, an
\* attn command must be certain to follow: otherwise every attention of every
\* device is stuck for good.
AttnAnnounced == spc \notin Dead /\ arpend => NotifyToCome \/ HarvestToCome

\* The event loop never sleeps on pending work: when it blocks in poll()
\* with an attention or an action pending, or a Stop() past its Wakeup(),
\* the wakeup event is set.
NoLostWakeup ==
  spc = "poll" /\ blocking =>
    /\ AttnPending \/ ActnPending => wake
    /\ fStopPending => wake \/ \E c \in Client : cpc[c] = "wakeup"

\* An attention raised is eventually served, if the server stays up and the
\* list of handlers does not change.
AttnServed ==
  [](fAttnDsc = InitDsc) /\ <>[](spc \notin Dead) => \A h \in Dev : h \in req ~> h \notin req

\* A queued action is eventually called, however often others are requeued
\* and whatever attentions arrive, if the server stays up.
ActnServed ==
  <>[](spc \notin Dead) =>
    \A a \in Actn : a \in Range(fActnList) ~>
        (spc = "acc" /\ ctx = "actn" /\ ActnPending /\ Head(fActnList) = a)

\* Stop() returns: the join() succeeds whatever the event loop is doing.
StopReturns == \A c \in Client : cpc[c] = "join" ~> cpc[c] = "idle"
-----------------------------------------------------------------------------
(* The inductive invariant behind the safety properties.                    *)

\* The connection lock is held exactly by the thread that uses the link.
LockInv ==
  /\ lock = "srv" <=> spc \in {"wait", "acc"}
  /\ \A c \in Client :
       lock = c <=> cpc[c] \in {"wait", "acc", "assign", "sndattn"}

\* A running server thread is known to IsActive(), except while its creator
\* still holds the lock.
ThreadInv == spc \notin Dead => IsActive \/ \E c \in Client : cpc[c] = "assign"

=============================================================================
