-------------------------- MODULE ReventLoop_proofs --------------------------
(***************************************************************************)
(* Safety of the poll loop for any number of clients, handlers and         *)
(* descriptors.                                                            *)
(***************************************************************************)
EXTENDS ReventLoop, SequenceTheorems, TLAPS

\* The initial state satisfies the invariant.
LEMMA LoopInit == Init => LoopInv
  BY DEF Init, LoopInv, CallInv, CopyFaithful, NoStaleSleep

\* A handler of the copy is registered as long as the copy is not stale.
LEMMA CopyRegistered ==
  ASSUME CopyFaithful, i \in DOMAIN fPoll, ~fUpdatePoll
  PROVE  Registered(fPoll[i].h)
  BY DEF CopyFaithful, Registered

\* The loop thread keeps the invariant.
LEMMA LoopThreadStep == LoopInv /\ Loop => LoopInv'
<1> SUFFICES ASSUME LoopInv, Loop PROVE LoopInv'
  OBVIOUS
<1> USE DEF LoopInv, CallInv, CopyFaithful, NoStaleSleep
<1>1. CASE LoopUpdate
  BY <1>1 DEF LoopUpdate
<1>2. CASE LoopPoll
  BY <1>2 DEF LoopPoll
<1>3. CASE LoopAgain
  BY <1>3 DEF LoopAgain
<1>4. CASE LoopNext
  BY <1>4 DEF LoopNext
<1>5. CASE LoopCall
  <2>1. late = 0
    BY <1>5 DEF LoopCall
  <2>2. LateCalls(fPoll[i].h) = 0 \/ (LateCalls(fPoll[i].h) = 1 /\ fUpdatePoll)
    BY <1>5, <2>1, CopyRegistered DEF LoopCall, LateCalls
  <2>3. late' = LateCalls(fPoll[i].h) /\ spc' \in {"next", "remove"}
    BY <1>5 DEF LoopCall
  <2>4. UNCHANGED <<fPollDsc, fUpdatePoll, fPoll, revents, cpc>>
    BY <1>5 DEF LoopCall
  <2> QED
    BY <2>2, <2>3, <2>4
<1>6. CASE LoopRemove
  BY <1>6 DEF LoopRemove
<1>7. ASSUME NEW h \in Hdl, NEW fd \in Fd, LoopCallAdd(h, fd)
      PROVE  LoopInv'
  <2>1. late = 0
    BY <1>7 DEF LoopCallAdd
  <2>2. LateCalls(fPoll[i].h) \in {0, 1}
    BY <2>1 DEF LateCalls
  <2>3. late' = LateCalls(fPoll[i].h) /\ spc' \in {"next", "remove"}
    BY <1>7 DEF LoopCallAdd
  <2>4. UNCHANGED <<fPoll, revents, cpc>> /\ fUpdatePoll' = TRUE
    BY <1>7 DEF LoopCallAdd
  <2> QED
    BY <2>2, <2>3, <2>4
<1> QED
  BY <1>1, <1>2, <1>3, <1>4, <1>5, <1>6, <1>7 DEF Loop

\* So does every step.
LEMMA LoopStep == LoopInv /\ [Next]_vars => LoopInv'
<1> SUFFICES ASSUME LoopInv, [Next]_vars PROVE LoopInv'
  OBVIOUS
<1>1. CASE Loop
  BY <1>1, LoopThreadStep
<1> USE DEF LoopInv, CallInv, CopyFaithful, NoStaleSleep
<1>2. ASSUME NEW c \in Client, NEW h \in Hdl, NEW fd \in Fd, CliAdd(c, h, fd)
      PROVE  LoopInv'
  BY <1>2 DEF CliAdd
<1>3. ASSUME NEW c \in Client, NEW fd \in Fd, CliRemove(c, fd)
      PROVE  LoopInv'
  BY <1>3 DEF CliRemove
<1>4. ASSUME NEW c \in Client, CliWakeup(c)
      PROVE  LoopInv'
  BY <1>4 DEF CliWakeup
<1>5. ASSUME NEW fd \in Fd, GetsReady(fd)
      PROVE  LoopInv'
  BY <1>5 DEF GetsReady
<1>6. CASE UNCHANGED vars
  BY <1>6 DEF vars
<1> QED
  BY <1>1, <1>2, <1>3, <1>4, <1>5, <1>6 DEF Next

-----------------------------------------------------------------------------
(* Types.                                                                   *)

\* Erasing a handler leaves a list of handlers.
LEMMA WithoutFdType ==
  ASSUME NEW fd, fPollDsc \in Seq(Dsc)
  PROVE  WithoutFd(fd) \in Seq(Dsc)
<1>1. CASE ~HasFd(fd)
  BY <1>1 DEF WithoutFd
<1>2. CASE HasFd(fd)
  <2> DEFINE k == CHOOSE k \in DOMAIN fPollDsc : fPollDsc[k].fd = fd
  <2>1. k \in 1..Len(fPollDsc)
    BY <1>2 DEF HasFd
  <2>2. WithoutFd(fd) = SubSeq(fPollDsc, 1, k - 1) \o SubSeq(fPollDsc, k + 1, Len(fPollDsc))
    BY <1>2 DEF WithoutFd, RemoveAt
  <2> HIDE DEF k
  <2>3. /\ SubSeq(fPollDsc, 1, k - 1) \in Seq(Dsc)
        /\ SubSeq(fPollDsc, k + 1, Len(fPollDsc)) \in Seq(Dsc)
    BY <2>1
  <2> QED
    BY <2>2, <2>3, ConcatProperties
<1> QED
  BY <1>1, <1>2

\* The types hold initially.
LEMMA TypeInit == Init => TypeOK
  BY LoopAssumption DEF Init, TypeOK, Dsc

\* Every step keeps the types, given what the loop knows about its copy.
LEMMA TypeStep == TypeOK /\ LoopInv /\ [Next]_vars => TypeOK'
<1> SUFFICES ASSUME TypeOK, LoopInv, [Next]_vars PROVE TypeOK'
  OBVIOUS
<1>1. \A x : WithoutFd(x) \in Seq(Dsc)
  BY WithoutFdType DEF TypeOK
<1>2. ASSUME NEW h \in Hdl, NEW fd \in Fd, NEW q \in Seq(Dsc)
      PROVE  Append(q, [h |-> h, fd |-> fd]) \in Seq(Dsc)
  BY DEF Dsc
<1> USE DEF TypeOK
<1>3. CASE LoopUpdate
  <2>1. fUpdatePoll' \in BOOLEAN
    BY <1>3 DEF LoopUpdate
  <2>2. fPoll' \in Seq(Dsc) /\ late' \in Nat /\ revents' \subseteq DOMAIN fPoll'
    BY <1>3 DEF LoopUpdate
  <2> QED
    BY <1>3, <2>1, <2>2 DEF LoopUpdate
<1>4. CASE LoopPoll
  BY <1>4 DEF LoopPoll
<1>5. CASE LoopAgain
  BY <1>5 DEF LoopAgain
<1>6. CASE LoopNext
  BY <1>6 DEF LoopNext
<1>7. CASE LoopCall
  BY <1>7 DEF LoopCall, LateCalls
<1>8. CASE LoopRemove
  <2>1. fUpdatePoll' \in BOOLEAN
    BY <1>8 DEF LoopRemove
  <2>2. fPollDsc' \in Seq(Dsc)
    BY <1>1, <1>8 DEF LoopRemove
  <2> QED
    BY <1>8, <2>1, <2>2 DEF LoopRemove
<1>9. ASSUME NEW h \in Hdl, NEW fd \in Fd, LoopCallAdd(h, fd)
      PROVE  TypeOK'
  <2>1. fUpdatePoll' \in BOOLEAN
    BY <1>9 DEF LoopCallAdd
  <2>2. fPollDsc' \in Seq(Dsc)
    BY <1>1, <1>2, <1>9 DEF LoopCallAdd
  <2>3. late' \in Nat
    BY <1>9 DEF LoopCallAdd, LateCalls
  <2> QED
    BY <1>9, <2>1, <2>2, <2>3 DEF LoopCallAdd
<1>10. ASSUME NEW c \in Client, NEW h \in Hdl, NEW fd \in Fd, CliAdd(c, h, fd)
       PROVE  TypeOK'
  BY <1>2, <1>10 DEF CliAdd
<1>11. ASSUME NEW c \in Client, NEW fd \in Fd, CliRemove(c, fd)
       PROVE  TypeOK'
  BY <1>1, <1>11 DEF CliRemove
<1>12. ASSUME NEW c \in Client, CliWakeup(c)
       PROVE  TypeOK'
  BY <1>12 DEF CliWakeup
<1>13. ASSUME NEW fd \in Fd, GetsReady(fd)
       PROVE  TypeOK'
  BY <1>13 DEF GetsReady
<1>14. CASE UNCHANGED vars
  BY <1>14 DEF vars
<1> QED
  BY <1>3, <1>4, <1>5, <1>6, <1>7, <1>8, <1>9, <1>10, <1>11, <1>12, <1>13, <1>14
     DEF Next, Loop

-----------------------------------------------------------------------------
(* The theorems.                                                            *)

\* The loop thread never sleeps on a stale list: RlinkServer wakes it after
\* every change.
THEOREM NeverSleepsStale == Spec => []NoStaleSleep
<1>1. LoopInv => NoStaleSleep
  BY DEF LoopInv
<1> QED
  BY LoopInit, LoopStep, <1>1, PTL DEF Spec

\* The loop polls what is registered or knows that its copy is old, and after a
\* removal at most one removed handler is still called (DoPoll and DoCall).
THEOREM PollListSafe == Spec => []PollInv
<1>1. LoopInv /\ TypeOK => PollInv
  BY DEF LoopInv, CallInv, PollInv, LateCallOnce
<1>2. Init => LoopInv /\ TypeOK
  BY LoopInit, TypeInit
<1>3. LoopInv /\ TypeOK /\ [Next]_vars => (LoopInv /\ TypeOK)'
  BY LoopStep, TypeStep
<1> QED
  BY <1>1, <1>2, <1>3, PTL DEF Spec
=============================================================================
