----------------------------- MODULE ReventLoop -----------------------------
(***************************************************************************)
(* The poll loop (tools/src/librlink/ReventLoop.cpp) as the server uses    *)
(* it: handlers are added and removed by client threads while the loop     *)
(* thread works on a private copy of the list.  fPollDscMutex protects the *)
(* list but not fUpdatePoll, which tells the loop that its copy is stale,  *)
(* and no lock is held while a handler runs.                               *)
(*                                                                         *)
(* A handler object is registered for a file descriptor, at most once in   *)
(* its life; a descriptor number can be closed and used again.  Wake is    *)
(* the descriptor of RlinkServer::fWakeupEvent, whose handler is always    *)
(* registered.  All polls block (timeout -1); what happens with attentions *)
(* and actions pending is in module RlinkServer.                           *)
(***************************************************************************)
EXTENDS SequencesExt, Naturals

CONSTANTS Fd,        \* descriptors handlers are registered for
          Wake,      \* the wakeup event
          Hdl,       \* handler objects
          WakeHdl,   \* RlinkServer::WakeupHandler
          Client,    \* client threads
          MaxReady   \* bound on the number of times a descriptor gets ready

ASSUME LoopAssumption ==
  /\ Wake \notin Fd /\ WakeHdl \notin Hdl
  /\ MaxReady \in Nat

VARIABLES
  fPollDsc,          \* registered handlers, [h |-> handler, fd |-> descriptor]
  fUpdatePoll,
  fPoll,             \* fPollFd and fPollHdl, the copy of the loop
  revents,           \* indices of fPoll that poll() reported
  ready,             \* descriptors poll() would report
  spc, i,            \* program counter and loop index of the loop thread
  cpc,               \* clients: "idle", or "wakeup" before its Wakeup()
  used,              \* handler objects registered so far
  late,              \* calls of removed handlers with this copy (auxiliary)
  nready             \* ready events still allowed

vars == <<fPollDsc, fUpdatePoll, fPoll, revents, ready, spc, i, cpc,
          used, late, nready>>

Dsc == [h: Hdl \cup {WakeHdl}, fd: Fd \cup {Wake}]
Registered(h) == \E k \in DOMAIN fPollDsc : fPollDsc[k].h = h
HasFd(fd) == \E k \in DOMAIN fPollDsc : fPollDsc[k].fd = fd

\* The handler of a descriptor is erased; there is one at most.
WithoutFd(fd) ==
  IF HasFd(fd) THEN RemoveAt(fPollDsc, CHOOSE k \in DOMAIN fPollDsc : fPollDsc[k].fd = fd)
               ELSE fPollDsc

Init ==
  /\ fPollDsc = <<[h |-> WakeHdl, fd |-> Wake]>>
  /\ fUpdatePoll = TRUE
  /\ fPoll = <<>> /\ revents = {} /\ ready = {}
  /\ spc = "update" /\ i = 1
  /\ cpc = [c \in Client |-> "idle"]
  /\ used = {} /\ late = 0
  /\ nready = MaxReady

-----------------------------------------------------------------------------
(* The loop thread.                                                         *)

\* DoPoll(): renew the copy if it is stale.
LoopUpdate ==
  /\ spc = "update"
  /\ IF fUpdatePoll
       THEN /\ fPoll' = fPollDsc
            /\ fUpdatePoll' = FALSE
            /\ late' = 0
       ELSE UNCHANGED <<fPoll, fUpdatePoll, late>>
  /\ revents' = {}
  /\ spc' = "poll"
  /\ UNCHANGED <<fPollDsc, ready, i, cpc, used, nready>>

\* poll() blocks until a descriptor of the copy is ready.
LoopPoll ==
  /\ spc = "poll"
  /\ revents' = {k \in DOMAIN fPoll : fPoll[k].fd \in ready}
  /\ revents' # {}
  /\ spc' = "again"
  /\ UNCHANGED <<fPollDsc, fUpdatePoll, fPoll, ready, i, cpc, used,
                 late, nready>>

\* while (fUpdatePoll): poll again if the list has changed meanwhile.
LoopAgain ==
  /\ spc = "again"
  /\ spc' = IF fUpdatePoll THEN "update" ELSE "next"
  /\ i' = 1
  /\ UNCHANGED <<fPollDsc, fUpdatePoll, fPoll, revents, ready, cpc,
                 used, late, nready>>

\* Mutant of LoopNext: the loop is not left when the list has changed.
LoopNextNoBreak ==
  /\ spc = "next"
  /\ IF i > Len(fPoll) THEN spc' = "update" /\ i' = i
     ELSE IF i \in revents THEN spc' = "call" /\ i' = i
                           ELSE spc' = "next" /\ i' = i + 1
  /\ UNCHANGED <<fPollDsc, fUpdatePoll, fPoll, revents, ready, cpc,
                 used, late, nready>>

\* DoCall(): end or break of the loop, an index to skip, or a handler to call.
LoopNext ==
  /\ spc = "next"
  /\ IF i > Len(fPoll) \/ fUpdatePoll THEN spc' = "update" /\ i' = i
     ELSE IF i \in revents THEN spc' = "call" /\ i' = i
                           ELSE spc' = "next" /\ i' = i + 1
  /\ UNCHANGED <<fPollDsc, fUpdatePoll, fPoll, revents, ready, cpc,
                 used, late, nready>>

LateCalls(h) == IF Registered(h) THEN late ELSE late + 1

\* The handler runs: it reads its descriptor, or asks to be removed because
\* of an error condition.
LoopCall ==
  /\ spc = "call"
  /\ LET h == fPoll[i].h
     IN /\ late' = LateCalls(h)
        /\ \/ /\ ready' = ready \ {fPoll[i].fd}
              /\ spc' = "next" /\ i' = i + 1
           \/ /\ h # WakeHdl
              /\ spc' = "remove"
              /\ UNCHANGED <<ready, i>>
  /\ UNCHANGED <<fPollDsc, fUpdatePoll, fPoll, revents, cpc, used, nready>>

\* The handler runs and registers another one, as that of a telnet terminal
\* does: when a connection is accepted it takes the listener out, when one has
\* ended the listener is added and the handler asks to be removed.  No wakeup
\* is needed inside the server thread.
LoopCallAdd(h, fd) ==
  /\ spc = "call" /\ fPoll[i].h # WakeHdl
  /\ h \notin used /\ ~HasFd(fd)
  /\ late' = LateCalls(fPoll[i].h)
  /\ ready' = ready \ {fPoll[i].fd}
  /\ fUpdatePoll' = TRUE
  /\ used' = used \cup {h}
  /\ \/ /\ fPollDsc' = Append(WithoutFd(fPoll[i].fd), [h |-> h, fd |-> fd])
        /\ spc' = "next" /\ i' = i + 1
     \/ /\ fPollDsc' = Append(fPollDsc, [h |-> h, fd |-> fd])
        /\ spc' = "remove"
        /\ i' = i
  /\ UNCHANGED <<fPoll, revents, cpc, nready>>

\* RemovePollHandler(fd, events, nothrow=true) for a handler that asked.
LoopRemove ==
  /\ spc = "remove"
  /\ IF HasFd(fPoll[i].fd)
       THEN /\ fPollDsc' = WithoutFd(fPoll[i].fd)
            /\ fUpdatePoll' = TRUE
       ELSE UNCHANGED <<fPollDsc, fUpdatePoll>>
  /\ spc' = "next" /\ i' = i + 1
  /\ UNCHANGED <<fPoll, revents, ready, cpc, used, late, nready>>

Loop == \/ LoopUpdate \/ LoopPoll \/ LoopAgain \/ LoopNext \/ LoopCall
        \/ LoopRemove
        \/ \E h \in Hdl, fd \in Fd : LoopCallAdd(h, fd)

-----------------------------------------------------------------------------
(* Client threads.  RlinkServer::AddPollHandler() and RemovePollHandler()   *)
(* change the list and then wake the loop.                                  *)

\* Mutant of CliAdd: AddPollHandler() without its Wakeup().
CliAddNoWakeup(c, h, fd) ==
  /\ cpc[c] = "idle"
  /\ h \notin used /\ ~HasFd(fd)
  /\ fPollDsc' = Append(fPollDsc, [h |-> h, fd |-> fd])
  /\ fUpdatePoll' = TRUE
  /\ used' = used \cup {h}
  /\ UNCHANGED <<fPoll, revents, ready, spc, i, cpc, late, nready>>

CliAdd(c, h, fd) ==
  /\ cpc[c] = "idle"
  /\ h \notin used /\ ~HasFd(fd)
  /\ fPollDsc' = Append(fPollDsc, [h |-> h, fd |-> fd])
  /\ fUpdatePoll' = TRUE
  /\ used' = used \cup {h}
  /\ cpc' = [cpc EXCEPT ![c] = "wakeup"]
  /\ UNCHANGED <<fPoll, revents, ready, spc, i, late, nready>>

CliRemove(c, fd) ==
  /\ cpc[c] = "idle"
  /\ HasFd(fd)
  /\ fPollDsc' = WithoutFd(fd)
  /\ fUpdatePoll' = TRUE
  /\ cpc' = [cpc EXCEPT ![c] = "wakeup"]
  /\ UNCHANGED <<fPoll, revents, ready, spc, i, used, late, nready>>

CliWakeup(c) ==
  /\ cpc[c] = "wakeup"
  /\ ready' = ready \cup {Wake}
  /\ cpc' = [cpc EXCEPT ![c] = "idle"]
  /\ UNCHANGED <<fPollDsc, fUpdatePoll, fPoll, revents, spc, i, used,
                 late, nready>>

\* Data or an error condition shows up on a descriptor.
GetsReady(fd) ==
  /\ nready > 0 /\ fd \notin ready
  /\ ready' = ready \cup {fd}
  /\ nready' = nready - 1
  /\ UNCHANGED <<fPollDsc, fUpdatePoll, fPoll, revents, spc, i, cpc,
                 used, late>>

Next ==
  \/ Loop
  \/ \E c \in Client : \/ \E h \in Hdl, fd \in Fd : CliAdd(c, h, fd)
                       \/ \E fd \in Fd : CliRemove(c, fd)
                       \/ CliWakeup(c)
  \/ \E fd \in Fd : GetsReady(fd)

\* The loop thread is scheduled, and clients complete their calls.
Fairness == WF_vars(Loop) /\ \A c \in Client : WF_vars(CliWakeup(c))

Spec == Init /\ [][Next]_vars
FairSpec == Spec /\ Fairness
-----------------------------------------------------------------------------
(* Properties.                                                              *)

\* Every variable keeps its type.
TypeOK ==
  /\ fPollDsc \in Seq(Dsc) /\ fUpdatePoll \in BOOLEAN /\ fPoll \in Seq(Dsc)
  /\ revents \subseteq DOMAIN fPoll /\ ready \subseteq Fd \cup {Wake}
  /\ spc \in {"update", "poll", "again", "next", "call", "remove"}
  /\ i \in Nat
  /\ cpc \in [Client -> {"idle", "wakeup"}]
  /\ used \subseteq Hdl /\ late \in Nat /\ nready \in Nat

\* The loop never sleeps on a stale list: when it is in poll() and the list
\* has changed, the wakeup event is set or about to be.
NoStaleSleep ==
  spc = "poll" /\ fUpdatePoll =>
    Wake \in ready \/ \E c \in Client : cpc[c] = "wakeup"

\* A handler may be called after RemovePollHandler() has returned, because
\* the loop may be past its test of fUpdatePoll; but only one, however many
\* were removed and are ready: then the loop is left and the copy is renewed.
LateCallOnce == late <= 1

\* What the loop polls is what is registered, unless it knows better.
CopyFaithful == ~fUpdatePoll => fPoll = fPollDsc

\* The types, and the copy of the list: true to it, or known to be old and then
\* used for one more call at most.
PollInv == TypeOK /\ CopyFaithful /\ LateCallOnce

\* A registered handler whose descriptor stays ready is called, however the
\* list changes meanwhile.
ReadyServed ==
  \A fd \in Fd : HasFd(fd) /\ fd \in ready ~> ~HasFd(fd) \/ fd \notin ready
-----------------------------------------------------------------------------
(* The inductive invariant behind the safety properties.                    *)

\* The handler to be called is one of the copy, and a removed handler has been
\* called only if the copy is known to be stale and the loop has moved on.
CallInv ==
  /\ fUpdatePoll \in BOOLEAN /\ cpc \in [Client -> {"idle", "wakeup"}]
  /\ revents \subseteq DOMAIN fPoll
  /\ spc = "call" => i \in revents
  /\ late = 0 \/ (late = 1 /\ fUpdatePoll /\ spc # "call")

LoopInv == CallInv /\ CopyFaithful /\ NoStaleSleep
=============================================================================
