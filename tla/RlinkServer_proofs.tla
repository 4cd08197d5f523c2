------------------------- MODULE RlinkServer_proofs -------------------------
(* Theorems about RlinkServer, checked with TLAPS.                          *)
EXTENDS RlinkServer, TLAPS

-----------------------------------------------------------------------------
(* Sequences used as packet queues.                                         *)

\* Appending keeps the elements in place and adds one at the end.
LEMMA AppendFacts ==
  ASSUME NEW S, NEW s \in Seq(S), NEW e \in S
  PROVE  /\ Append(s, e) \in Seq(S)
         /\ Len(Append(s, e)) = Len(s) + 1
         /\ \A k \in 1..Len(s) : Append(s, e)[k] = s[k]
         /\ Append(s, e)[Len(s) + 1] = e
         /\ Range(Append(s, e)) = Range(s) \cup {e}
<1>1. /\ Append(s, e) \in Seq(S)
      /\ Len(Append(s, e)) = Len(s) + 1
      /\ \A k \in 1..Len(s) : Append(s, e)[k] = s[k]
      /\ Append(s, e)[Len(s) + 1] = e
  OBVIOUS
<1>2. DOMAIN Append(s, e) = DOMAIN s \cup {Len(s) + 1} /\ DOMAIN s = 1..Len(s)
  OBVIOUS
<1>3. Range(Append(s, e)) = Range(s) \cup {e}
  BY <1>1, <1>2 DEF Range
<1>. QED BY <1>1, <1>3

\* Taking the first element shifts the others.
LEMMA TailFacts ==
  ASSUME NEW S, NEW s \in Seq(S), s # <<>>
  PROVE  /\ Tail(s) \in Seq(S)
         /\ Len(s) \in Nat /\ Len(s) >= 1
         /\ Len(Tail(s)) = Len(s) - 1
         /\ Head(s) = s[1] /\ Head(s) \in S
         /\ \A k \in 1..(Len(s) - 1) : Tail(s)[k] = s[k + 1]
         /\ Range(s) = {Head(s)} \cup Range(Tail(s))
<1>1. /\ Tail(s) \in Seq(S)
      /\ Len(s) \in Nat /\ Len(s) >= 1
      /\ Len(Tail(s)) = Len(s) - 1
      /\ Head(s) = s[1] /\ Head(s) \in S
      /\ \A k \in 1..(Len(s) - 1) : Tail(s)[k] = s[k + 1]
  OBVIOUS
<1>2. DOMAIN s = 1..Len(s) /\ DOMAIN Tail(s) = 1..(Len(s) - 1)
  BY <1>1
<1>3. ASSUME NEW x \in Range(s) PROVE x \in {Head(s)} \cup Range(Tail(s))
  <2>1. PICK k \in 1..Len(s) : x = s[k]
    BY <1>2 DEF Range
  <2>2. CASE k = 1
    BY <2>1, <2>2, <1>1
  <2>3. CASE k # 1
    <3>1. k - 1 \in 1..(Len(s) - 1) /\ Tail(s)[k - 1] = s[k]
      BY <2>3, <1>1
    <3>. QED BY <3>1, <2>1, <1>2 DEF Range
  <2>. QED BY <2>2, <2>3
<1>4. ASSUME NEW x \in {Head(s)} \cup Range(Tail(s)) PROVE x \in Range(s)
  <2>1. CASE x = Head(s)
    BY <2>1, <1>1, <1>2 DEF Range
  <2>2. CASE x \in Range(Tail(s))
    <3>1. PICK k \in 1..(Len(s) - 1) : x = Tail(s)[k]
      BY <2>2, <1>2 DEF Range
    <3>2. k + 1 \in 1..Len(s) /\ x = s[k + 1]
      BY <3>1, <1>1
    <3>. QED BY <3>2, <1>2 DEF Range
  <2>. QED BY <2>1, <2>2
<1>. QED BY <1>1, <1>3, <1>4

\* Elements of a queue have the type of the queue.
LEMMA RangeType ==
  ASSUME NEW S, NEW s \in Seq(S)
  PROVE  Range(s) \subseteq S /\ DOMAIN s = 1..Len(s)
BY DEF Range

-----------------------------------------------------------------------------
(* Type correctness, one lemma per group of variables.                      *)

\* A request put on the downlink is a packet.
LEMMA SendType ==
  ASSUME AttnTypeOK, NEW ra \in BOOLEAN, NEW rn \in BOOLEAN,
         NEW rf \in Dev \cup {"none"}, Send(ra, rn, rf)
  PROVE  AttnTypeOK'
<1>1. [typ |-> "req", attn |-> ra, anena |-> rn, for |-> rf] \in DownPacket
  BY DEF DownPacket, Request
<1>2. down' \in Seq(DownPacket)
  BY <1>1, AppendFacts DEF Send, AttnTypeOK
<1>. QED BY <1>2 DEF Send, AttnTypeOK

\* What is taken from the uplink is a packet with a pattern.
LEMMA ReceiveType ==
  ASSUME AttnTypeOK, NEW ty, Receive(ty)
  PROVE  AttnTypeOK' /\ Head(up) \in UpPacket /\ Head(up).pat \subseteq Lam
<1>1. up' \in Seq(UpPacket) /\ Head(up) \in UpPacket
  BY TailFacts DEF Receive, AttnTypeOK
<1>2. Head(up).pat \subseteq Lam
  BY <1>1 DEF UpPacket
<1>. QED BY <1>1, <1>2 DEF Receive, AttnTypeOK


\* The attention unit and the two packet queues.
LEMMA AttnTypeStep ==
  ASSUME TypeOK, [Next]_vars
  PROVE  AttnTypeOK'
<1>. USE ServerAssumption DEF TypeOK, AttnTypeOK, LinkState, fpgaVars
<1>1. ASSUME NEW b \in Lam, DevRaise(b) PROVE AttnTypeOK'
  BY <1>1
     DEF DevRaise, RaiseLam
<1>2. CASE FpgaReadAttn
  BY <1>2
     DEF FpgaReadAttn, ReadAttn
<1>3. CASE FpgaFinishList
  BY <1>3, AppendFacts, TailFacts
     DEF FpgaFinishList, FinishList, Response, UpPacket
<1>4. CASE FpgaLink /\ RequestNotify
  BY <1>4
     DEF FpgaLink, RequestNotify
<1>5. CASE FpgaLink /\ StartNotify
  BY <1>5
     DEF FpgaLink, StartNotify
<1>6. CASE FpgaLink /\ AcceptPoll
  BY <1>6, TailFacts
     DEF FpgaLink, AcceptPoll
<1>7. CASE FpgaLink /\ SendNotify
  <2>1. Notify(attn) \in UpPacket
    BY DEF Notify, UpPacket
  <2>2. up' \in Seq(UpPacket)
    BY <1>7, <2>1, AppendFacts DEF SendNotify
  <2>. QED BY <1>7, <2>2 DEF SendNotify
<1>8. CASE FpgaLink /\ AcceptList
  BY <1>8
     DEF FpgaLink, AcceptList
<1>9. CASE SrvUnsolicited
  BY <1>9, ReceiveType DEF SrvUnsolicited
<1>10. CASE SrvCallHandler
  <2>1. CalledHdl \in Dev \cup {"none"}
    BY DEF CalledHdl, ServTypeOK, LoopTypeOK
  <2>. QED BY <1>10, <2>1, SendType DEF SrvCallHandler
<1>11. CASE SrvNotify
  BY <1>11, ReceiveType DEF SrvNotify, TakeNotify
<1>12. CASE SrvResponse
  BY <1>12, ReceiveType DEF SrvResponse
<1>13. CASE SrvDefault
  BY <1>13, SendType DEF SrvDefault
<1>14. CASE SrvCallAction
  BY <1>14, SendType DEF SrvCallAction
<1>15. ASSUME NEW c \in Client, CliNotify(c) PROVE AttnTypeOK'
  BY <1>15, ReceiveType DEF CliNotify, TakeNotify
<1>16. ASSUME NEW c \in Client, CliResponse(c) PROVE AttnTypeOK'
  BY <1>16, ReceiveType DEF CliResponse
<1>17. ASSUME NEW c \in Client, CliSndAttn(c) PROVE AttnTypeOK'
  <2>1. Poll \in DownPacket
    BY DEF DownPacket
  <2>2. down' \in Seq(DownPacket)
    BY <1>17, <2>1, AppendFacts DEF CliSndAttn
  <2>. QED BY <1>17, <2>2 DEF CliSndAttn
<1>18. ASSUME NEW c \in Client, CliWaitAttn(c) PROVE AttnTypeOK'
  BY <1>18, ReceiveType DEF CliWaitAttn
<1>19. ASSUME NEW c \in Client, NEW op \in {"exec", "attn"}, CliExec(c, op)
      PROVE  AttnTypeOK'
  BY <1>19, SendType DEF CliExec
<1>20. ASSUME NEW c \in Client, NEW op \in {"start", "resume"}, CliStart(c, op)
      PROVE  AttnTypeOK'
  BY <1>20, SendType DEF CliStart
<1>21. CASE UNCHANGED fpgaVars
  BY <1>21
<1>. QED
  BY <1>1, <1>2, <1>3, <1>4, <1>5, <1>6, <1>7, <1>8, <1>9, <1>10, <1>11,
      <1>12, <1>13, <1>14, <1>15, <1>16, <1>17, <1>18, <1>19, <1>20, <1>21
     DEF Next, FpgaStep, FpgaLink, SrvStep, CliBegin, CliContinue, vars,
         SrvTop, SrvPoll, SrvWakeup, SrvRlink, SrvAttn, SrvMerge, SrvMatch,
         SrvCallErased, SrvHandlerDone, SrvLoopEnd, SrvDefaultDone,
         SrvAttnEnd, SrvActn, SrvActionDone, CliExecDone, CliThread,
         CliAssign, CliStopWakeup, CliJoin, CliStop, CliQueue, CliAddAttn,
         CliRemoveAttn

\* The shared state of server and connection.
LEMMA ServTypeStep ==
  ASSUME TypeOK, [Next]_vars
  PROVE  ServTypeOK'
<1>. USE ServerAssumption DEF TypeOK, ServTypeOK, connVars, servVars
<1>1. CASE SrvWakeup
  BY <1>1
     DEF SrvWakeup
<1>2. CASE SrvUnsolicited
  <2>1. CASE up = <<>> /\ UNCHANGED <<fpgaVars, fAttnNotiPatt, wake, connNoti>>
    BY <1>2, <2>1 DEF SrvUnsolicited
  <2>2. CASE Receive("anot") /\ ProcessAttnNotify(Head(up).pat)
    <3>1. Head(up).pat \subseteq Lam
      BY <2>2, ReceiveType
    <3>. QED BY <1>2, <2>2, <3>1 DEF SrvUnsolicited, ProcessAttnNotify, IsActive
  <2>. QED BY <1>2, <2>1, <2>2 DEF SrvUnsolicited
<1>3. CASE SrvMerge
  BY <1>3
     DEF SrvMerge, AttnPending
<1>4. CASE SrvCallHandler
  BY <1>4
     DEF SrvCallHandler, Send, CalledHdl
<1>5. CASE SrvNotify
  <2>1. Head(up).pat \subseteq Lam
    BY <1>5, ReceiveType DEF SrvNotify, TakeNotify, AttnTypeOK
  <2>. QED BY <1>5, <2>1 DEF SrvNotify, TakeNotify, ProcessAttnNotify, IsActive
<1>6. CASE SrvHandlerDone
  BY <1>6
     DEF SrvHandlerDone, HarvestOthers, CalledHdl
<1>7. CASE SrvLoopEnd
  BY <1>7
     DEF SrvLoopEnd
<1>8. CASE SrvDefault
  BY <1>8
     DEF SrvDefault, Send
<1>9. CASE SrvDefaultDone
  BY <1>9
     DEF SrvDefaultDone
<1>10. CASE SrvAttnEnd
  BY <1>10, TypeOK
     DEF SrvAttnEnd, LoopTypeOK
<1>11. CASE SrvCallAction
  BY <1>11
     DEF SrvCallAction, Send
<1>12. CASE SrvActionDone
  BY <1>12
     DEF SrvActionDone, RequeueOrDrop
<1>13. ASSUME NEW c \in Client, CliNotify(c) PROVE ServTypeOK'
  <2>1. Head(up).pat \subseteq Lam
    BY <1>13, ReceiveType DEF CliNotify, TakeNotify, AttnTypeOK
  <2>. QED BY <1>13, <2>1 DEF CliNotify, TakeNotify, ProcessAttnNotify, IsActive
<1>14. ASSUME NEW c \in Client, CliExecDone(c) PROVE ServTypeOK'
  BY <1>14
     DEF CliExecDone, Goto
<1>15. ASSUME NEW c \in Client, CliThread(c) PROVE ServTypeOK'
  BY <1>15
     DEF CliThread, Goto
<1>16. ASSUME NEW c \in Client, CliAssign(c) PROVE ServTypeOK'
  BY <1>16
     DEF CliAssign, Goto
<1>17. ASSUME NEW c \in Client, CliSndAttn(c) PROVE ServTypeOK'
  BY <1>17
     DEF CliSndAttn, Goto, Poll
<1>18. ASSUME NEW c \in Client, CliStopWakeup(c) PROVE ServTypeOK'
  BY <1>18
     DEF CliStopWakeup, Goto
<1>19. ASSUME NEW c \in Client, CliJoin(c) PROVE ServTypeOK'
  BY <1>19
     DEF CliJoin, Goto
<1>20. ASSUME NEW c \in Client, CliStop(c) PROVE ServTypeOK'
  BY <1>20
     DEF CliStop, Begin, IsActive, Goto
<1>21. ASSUME NEW c \in Client, CliWaitAttn(c) PROVE ServTypeOK'
  BY <1>21
     DEF CliWaitAttn, Receive, Begin, IsActive
<1>22. ASSUME NEW c \in Client, NEW op \in {"exec", "attn"}, CliExec(c, op)
      PROVE  ServTypeOK'
  BY <1>22
     DEF CliExec, Send, Begin, IsActive, Goto
<1>23. ASSUME NEW c \in Client, NEW op \in {"start", "resume"}, CliStart(c, op)
      PROVE  ServTypeOK'
  BY <1>23
     DEF CliStart, Send, Begin, IsActive, Goto
<1>24. ASSUME NEW c \in Client, NEW a \in Actn, CliQueue(c, a)
      PROVE  ServTypeOK'
  BY <1>24
     DEF CliQueue, Begin, IsActive
<1>25. ASSUME NEW c \in Client, NEW h \in Dev, CliAddAttn(c, h)
      PROVE  ServTypeOK'
  BY <1>25
     DEF CliAddAttn, Begin
<1>26. ASSUME NEW c \in Client, NEW k \in DOMAIN fAttnDsc, CliRemoveAttn(c, k)
      PROVE  ServTypeOK'
  <2>1. fAttnDsc' \in Seq(Dev)
    <3>1. k \in 1..Len(fAttnDsc) /\ Len(fAttnDsc) \in Nat
      OBVIOUS
    <3>2. /\ SubSeq(fAttnDsc, 1, k - 1) \in Seq(Dev)
          /\ SubSeq(fAttnDsc, k + 1, Len(fAttnDsc)) \in Seq(Dev)
      BY <3>1
    <3>. QED BY <1>26, <3>2 DEF CliRemoveAttn, RemoveAt
  <2>. QED BY <1>26, <2>1 DEF CliRemoveAttn
<1>27. CASE UNCHANGED <<connVars, servVars>>
  BY <1>27
<1>. QED
  BY <1>1, <1>2, <1>3, <1>4, <1>5, <1>6, <1>7, <1>8, <1>9, <1>10, <1>11,
      <1>12, <1>13, <1>14, <1>15, <1>16, <1>17, <1>18, <1>19, <1>20, <1>21,
      <1>22, <1>23, <1>24, <1>25, <1>26, <1>27
     DEF Next, FpgaStep, FpgaLink, SrvStep, CliBegin, CliContinue, vars,
         DevRaise, RaiseLam, FpgaReadAttn, ReadAttn, FpgaFinishList,
         FinishList, RequestNotify, StartNotify, AcceptPoll, SendNotify,
         AcceptList, SrvTop, SrvPoll, SrvRlink, SrvAttn, SrvMatch,
         SrvCallErased, SrvResponse, Receive, SrvActn, CliResponse

\* The local state of the server thread.
LEMMA LoopTypeStep ==
  ASSUME TypeOK, [Next]_vars
  PROVE  LoopTypeOK'
<1>. USE ServerAssumption DEF TypeOK, LoopTypeOK, SrvPC, Dead, loopVars
<1>1. CASE SrvTop
  BY <1>1
     DEF SrvTop, AttnPending, ActnPending
<1>2. CASE SrvPoll
  BY <1>2
     DEF SrvPoll
<1>3. CASE SrvWakeup
  BY <1>3
     DEF SrvWakeup
<1>4. CASE SrvRlink
  BY <1>4
     DEF SrvRlink
<1>5. CASE SrvUnsolicited
  BY <1>5 DEF SrvUnsolicited
<1>6. CASE SrvAttn
  BY <1>6
     DEF SrvAttn, AttnPending
<1>7. CASE SrvMerge
  BY <1>7
     DEF SrvMerge, AttnPending, ServTypeOK
<1>8. CASE SrvMatch
  BY <1>8, RangeType
     DEF SrvMatch, ServTypeOK
<1>9. CASE SrvCallHandler
  BY <1>9
     DEF SrvCallHandler, Send, CalledHdl
<1>10. CASE SrvCallErased
  BY <1>10
     DEF SrvCallErased
<1>11. CASE SrvResponse
  BY <1>11, ReceiveType DEF SrvResponse
<1>12. CASE SrvHandlerDone
  BY <1>12
     DEF SrvHandlerDone, HarvestOthers, CalledHdl
<1>13. CASE SrvLoopEnd
  BY <1>13
     DEF SrvLoopEnd
<1>14. CASE SrvDefault
  BY <1>14
     DEF SrvDefault, Send
<1>15. CASE SrvDefaultDone
  BY <1>15
     DEF SrvDefaultDone
<1>16. CASE SrvAttnEnd
  BY <1>16
     DEF SrvAttnEnd
<1>17. CASE SrvActn
  BY <1>17
     DEF SrvActn, ActnPending
<1>18. CASE SrvCallAction
  BY <1>18
     DEF SrvCallAction, Send
<1>19. CASE SrvActionDone
  BY <1>19
     DEF SrvActionDone, RequeueOrDrop
<1>20. ASSUME NEW c \in Client, CliThread(c) PROVE LoopTypeOK'
  BY <1>20
     DEF CliThread, Goto
<1>21. ASSUME NEW c \in Client, CliJoin(c) PROVE LoopTypeOK'
  BY <1>21
     DEF CliJoin, Goto
<1>22. CASE UNCHANGED loopVars
  BY <1>22
<1>. QED
  BY <1>1, <1>2, <1>3, <1>4, <1>5, <1>6, <1>7, <1>8, <1>9, <1>10, <1>11,
      <1>12, <1>13, <1>14, <1>15, <1>16, <1>17, <1>18, <1>19, <1>20, <1>21,
      <1>22
     DEF Next, FpgaStep, FpgaLink, SrvStep, CliBegin, CliContinue, vars,
         DevRaise, RaiseLam, FpgaReadAttn, ReadAttn, FpgaFinishList,
         FinishList, RequestNotify, StartNotify, AcceptPoll, SendNotify,
         AcceptList, SrvNotify, TakeNotify, Receive, CliNotify, CliResponse,
         CliExecDone, CliAssign, CliSndAttn, CliStopWakeup, CliStop,
         CliWaitAttn, CliExec, Send, CliStart, CliQueue, CliAddAttn,
         CliRemoveAttn

\* The list of actions.
LEMMA ActnTypeStep ==
  ASSUME TypeOK, [Next]_vars
  PROVE  ActnTypeOK'
<1>. USE ServerAssumption DEF TypeOK, ActnTypeOK, ActnPending, loopVars,
       servVars
<1>1. CASE SrvTop
  BY <1>1
     DEF SrvTop, AttnPending, ActnPending
<1>2. CASE SrvPoll
  BY <1>2
     DEF SrvPoll
<1>3. CASE SrvWakeup
  BY <1>3
     DEF SrvWakeup
<1>4. CASE SrvRlink
  BY <1>4
     DEF SrvRlink
<1>5. CASE SrvUnsolicited
  BY <1>5 DEF SrvUnsolicited
<1>6. CASE SrvAttn
  BY <1>6
     DEF SrvAttn, AttnPending
<1>7. CASE SrvMerge
  BY <1>7
     DEF SrvMerge, AttnPending
<1>8. CASE SrvMatch
  BY <1>8
     DEF SrvMatch
<1>9. CASE SrvCallHandler
  BY <1>9 DEF SrvCallHandler
<1>10. CASE SrvCallErased
  BY <1>10
     DEF SrvCallErased
<1>11. CASE SrvResponse
  BY <1>11 DEF SrvResponse
<1>12. CASE SrvHandlerDone
  <2>1. fActnList' \in Seq(Actn)
    <3>1. CASE fActnList' = fActnList
      BY <3>1
    <3>2. ASSUME NEW a \in Actn, fActnList' = Append(fActnList, a)
          PROVE  fActnList' \in Seq(Actn)
      BY <3>2, AppendFacts
    <3>. QED BY <1>12, <3>1, <3>2 DEF SrvHandlerDone
  <2>. QED BY <1>12, <2>1 DEF SrvHandlerDone
<1>13. CASE SrvLoopEnd
  BY <1>13
     DEF SrvLoopEnd
<1>14. CASE SrvDefault
  BY <1>14 DEF SrvDefault
<1>15. CASE SrvDefaultDone
  BY <1>15
     DEF SrvDefaultDone
<1>16. CASE SrvAttnEnd
  BY <1>16
     DEF SrvAttnEnd
<1>17. CASE SrvActn
  BY <1>17
     DEF SrvActn, ActnPending
<1>18. CASE SrvCallAction
  BY <1>18 DEF SrvCallAction
<1>19. CASE SrvActionDone
  <2>1. Tail(fActnList) \in Seq(Actn) /\ Head(fActnList) \in Actn
    BY <1>19, TailFacts DEF SrvActionDone
  <2>2. Append(Tail(fActnList), Head(fActnList)) \in Seq(Actn)
    BY <2>1, AppendFacts
  <2>3. \/ fActnList' = Tail(fActnList)
        \/ fActnList' = Append(Tail(fActnList), Head(fActnList))
    BY <1>19 DEF SrvActionDone, RequeueOrDrop
  <2>. QED BY <1>19, <2>1, <2>2, <2>3 DEF SrvActionDone
<1>20. ASSUME NEW c \in Client, CliThread(c) PROVE ActnTypeOK'
  BY <1>20 DEF CliThread
<1>21. ASSUME NEW c \in Client, CliJoin(c) PROVE ActnTypeOK'
  BY <1>21 DEF CliJoin
<1>22. ASSUME NEW c \in Client, NEW a \in Actn, CliQueue(c, a)
      PROVE  ActnTypeOK'
  <2>1. fActnList' \in Seq(Actn) /\ fActnList' # <<>>
    BY <1>22, AppendFacts DEF CliQueue
  <2>. QED BY <1>22, <2>1 DEF CliQueue
<1>23. CASE UNCHANGED <<fActnList, spc, ctx>>
  BY <1>23
<1>. QED
  BY <1>1, <1>2, <1>3, <1>4, <1>5, <1>6, <1>7, <1>8, <1>9, <1>10, <1>11,
      <1>12, <1>13, <1>14, <1>15, <1>16, <1>17, <1>18, <1>19, <1>20, <1>21,
      <1>22, <1>23
     DEF Next, FpgaStep, FpgaLink, SrvStep, CliBegin, CliContinue, vars,
         DevRaise, RaiseLam, FpgaReadAttn, ReadAttn, FpgaFinishList,
         FinishList, RequestNotify, StartNotify, AcceptPoll, SendNotify,
         AcceptList, SrvNotify, TakeNotify, Receive, CliNotify, CliResponse,
         CliExecDone, CliAssign, CliSndAttn, CliStopWakeup, CliStop,
         CliWaitAttn, CliExec, Send, CliStart, CliAddAttn, CliRemoveAttn

\* The clients and the auxiliary variable.
LEMMA CliTypeStep ==
  ASSUME TypeOK, [Next]_vars
  PROVE  CliTypeOK'
<1>. USE ServerAssumption DEF TypeOK, CliTypeOK, CliPC, cliVars
<1>1. ASSUME NEW b \in Lam, DevRaise(b) PROVE CliTypeOK'
  BY <1>1, RangeType
     DEF DevRaise, RaiseLam, ServTypeOK
<1>2. CASE FpgaReadAttn
  BY <1>2
     DEF FpgaReadAttn, ReadAttn
<1>3. CASE FpgaFinishList
  BY <1>3
     DEF FpgaFinishList, FinishList, Response
<1>4. ASSUME NEW c \in Client, CliResponse(c) PROVE CliTypeOK'
  BY <1>4 DEF CliResponse, Goto
<1>5. ASSUME NEW c \in Client, CliExecDone(c) PROVE CliTypeOK'
  BY <1>5
     DEF CliExecDone, Goto
<1>6. ASSUME NEW c \in Client, CliThread(c) PROVE CliTypeOK'
  BY <1>6
     DEF CliThread, Goto
<1>7. ASSUME NEW c \in Client, CliAssign(c) PROVE CliTypeOK'
  BY <1>7
     DEF CliAssign, Goto
<1>8. ASSUME NEW c \in Client, CliSndAttn(c) PROVE CliTypeOK'
  BY <1>8
     DEF CliSndAttn, Goto, Poll
<1>9. ASSUME NEW c \in Client, CliStopWakeup(c) PROVE CliTypeOK'
  BY <1>9
     DEF CliStopWakeup, Goto
<1>10. ASSUME NEW c \in Client, CliJoin(c) PROVE CliTypeOK'
  BY <1>10
     DEF CliJoin, Goto
<1>11. ASSUME NEW c \in Client, CliStop(c) PROVE CliTypeOK'
  BY <1>11
     DEF CliStop, Begin, IsActive, Goto
<1>12. ASSUME NEW c \in Client, CliWaitAttn(c) PROVE CliTypeOK'
  BY <1>12 DEF CliWaitAttn, Begin
<1>13. ASSUME NEW c \in Client, NEW op \in {"exec", "attn"}, CliExec(c, op)
      PROVE  CliTypeOK'
  BY <1>13 DEF CliExec, Begin, Goto
<1>14. ASSUME NEW c \in Client, NEW op \in {"start", "resume"}, CliStart(c, op)
      PROVE  CliTypeOK'
  BY <1>14 DEF CliStart, Begin, Goto
<1>15. ASSUME NEW c \in Client, NEW a \in Actn, CliQueue(c, a)
      PROVE  CliTypeOK'
  BY <1>15
     DEF CliQueue, Begin, IsActive
<1>16. ASSUME NEW c \in Client, NEW h \in Dev, CliAddAttn(c, h)
      PROVE  CliTypeOK'
  BY <1>16
     DEF CliAddAttn, Begin
<1>17. ASSUME NEW c \in Client, NEW k \in DOMAIN fAttnDsc, CliRemoveAttn(c, k)
      PROVE  CliTypeOK'
  BY <1>17 DEF CliRemoveAttn, Begin
<1>18. CASE UNCHANGED <<cliVars, req>>
  BY <1>18
<1>. QED
  BY <1>1, <1>2, <1>3, <1>4, <1>5, <1>6, <1>7, <1>8, <1>9, <1>10, <1>11,
      <1>12, <1>13, <1>14, <1>15, <1>16, <1>17, <1>18
     DEF Next, FpgaStep, FpgaLink, SrvStep, CliBegin, CliContinue, vars,
         RequestNotify, StartNotify, AcceptPoll, SendNotify, AcceptList,
         SrvTop, SrvPoll, SrvWakeup, SrvRlink, SrvUnsolicited, Receive,
         SrvAttn, SrvMerge, SrvMatch, SrvCallHandler, Send, SrvCallErased,
         SrvNotify, TakeNotify, SrvResponse, SrvHandlerDone, SrvLoopEnd,
         SrvDefault, SrvDefaultDone, SrvAttnEnd, SrvActn, SrvCallAction,
         SrvActionDone, CliNotify

\* Every reachable state of server, clients and FPGA is well typed.
THEOREM TypeCorrect == Spec => []TypeOK
<1>1. Init => TypeOK
  <2>. SUFFICES ASSUME Init PROVE TypeOK
    OBVIOUS
  <2>. USE DEF Init, AttnInit
  <2>1. AttnTypeOK
    <3>1. down \in Seq(DownPacket) /\ up \in Seq(UpPacket)
      OBVIOUS
    <3>2. anreq \in BOOLEAN /\ arpend \in BOOLEAN /\ anena \in BOOLEAN
      OBVIOUS
    <3>. QED BY <3>1, <3>2 DEF AttnTypeOK, LinkState
  <2>2. ServTypeOK
    BY ServerAssumption DEF ServTypeOK
  <2>3. LoopTypeOK
    <3>1. blocking \in BOOLEAN
      OBVIOUS
    <3>3. i \in Nat \ {0}
      OBVIOUS
    <3>2. spc \in SrvPC
      BY DEF SrvPC, Dead
    <3>. QED BY <3>1, <3>2, <3>3 DEF LoopTypeOK
  <2>4. CliTypeOK
    BY ServerAssumption DEF CliTypeOK, CliPC
  <2>5. ActnTypeOK
    BY DEF ActnTypeOK
  <2>. QED BY <2>1, <2>2, <2>3, <2>4, <2>5 DEF TypeOK
<1>2. TypeOK /\ [Next]_vars => TypeOK'
  BY AttnTypeStep, ServTypeStep, LoopTypeStep, ActnTypeStep, CliTypeStep DEF TypeOK
<1>. QED BY <1>1, <1>2, PTL DEF Spec

-----------------------------------------------------------------------------
(* The protocol between the threads and the FPGA.                           *)

\* The lock is taken when a list is sent and released when its response is
\* dealt with.
LEMMA LockStep ==
  ASSUME TypeOK, LockInv, [Next]_vars
  PROVE  LockInv'
<1>. USE ServerAssumption DEF TypeOK, ServTypeOK, CliTypeOK, LockInv,
       connVars, loopVars, cliVars
<1>1. CASE SrvTop
  BY <1>1 DEF SrvTop
<1>2. CASE SrvPoll
  BY <1>2 DEF SrvPoll
<1>3. CASE SrvWakeup
  BY <1>3 DEF SrvWakeup
<1>4. CASE SrvRlink
  BY <1>4 DEF SrvRlink
<1>5. CASE SrvUnsolicited
  BY <1>5 DEF SrvUnsolicited
<1>6. CASE SrvAttn
  BY <1>6 DEF SrvAttn
<1>7. CASE SrvMerge
  BY <1>7 DEF SrvMerge
<1>8. CASE SrvMatch
  BY <1>8 DEF SrvMatch
<1>9. CASE SrvCallHandler
  BY <1>9 DEF SrvCallHandler
<1>10. CASE SrvCallErased
  BY <1>10 DEF SrvCallErased
<1>11. CASE SrvResponse
  BY <1>11 DEF SrvResponse
<1>12. CASE SrvHandlerDone
  BY <1>12 DEF SrvHandlerDone
<1>13. CASE SrvLoopEnd
  BY <1>13 DEF SrvLoopEnd
<1>14. CASE SrvDefault
  BY <1>14 DEF SrvDefault
<1>15. CASE SrvDefaultDone
  BY <1>15 DEF SrvDefaultDone
<1>16. CASE SrvAttnEnd
  BY <1>16 DEF SrvAttnEnd
<1>17. CASE SrvActn
  BY <1>17 DEF SrvActn
<1>18. CASE SrvCallAction
  BY <1>18 DEF SrvCallAction
<1>19. CASE SrvActionDone
  BY <1>19 DEF SrvActionDone
<1>20. ASSUME NEW c \in Client, CliResponse(c) PROVE LockInv'
  BY <1>20 DEF CliResponse, Goto
<1>21. ASSUME NEW c \in Client, CliExecDone(c) PROVE LockInv'
  BY <1>21 DEF CliExecDone, Goto
<1>22. ASSUME NEW c \in Client, CliThread(c) PROVE LockInv'
  BY <1>22 DEF CliThread, Goto
<1>23. ASSUME NEW c \in Client, CliAssign(c) PROVE LockInv'
  BY <1>23 DEF CliAssign, Goto
<1>24. ASSUME NEW c \in Client, CliSndAttn(c) PROVE LockInv'
  BY <1>24 DEF CliSndAttn, Goto
<1>25. ASSUME NEW c \in Client, CliStopWakeup(c) PROVE LockInv'
  BY <1>25 DEF CliStopWakeup, Goto
<1>26. ASSUME NEW c \in Client, CliJoin(c) PROVE LockInv'
  BY <1>26 DEF CliJoin, Goto
<1>27. ASSUME NEW c \in Client, CliStop(c) PROVE LockInv'
  BY <1>27 DEF CliStop, Goto, Begin
<1>28. ASSUME NEW c \in Client, NEW op \in {"exec", "attn"}, CliExec(c, op)
      PROVE  LockInv'
  BY <1>28 DEF CliExec, Goto, Begin
<1>29. ASSUME NEW c \in Client, NEW op \in {"start", "resume"}, CliStart(c, op)
      PROVE  LockInv'
  BY <1>29 DEF CliStart, Goto, Begin
<1>30. CASE UNCHANGED <<lock, spc, cpc>>
  BY <1>30
<1>. QED
  BY <1>1, <1>2, <1>3, <1>4, <1>5, <1>6, <1>7, <1>8, <1>9, <1>10, <1>11,
      <1>12, <1>13, <1>14, <1>15, <1>16, <1>17, <1>18, <1>19, <1>20, <1>21,
      <1>22, <1>23, <1>24, <1>25, <1>26, <1>27, <1>28, <1>29, <1>30
     DEF Next, FpgaStep, FpgaLink, SrvStep, CliBegin, CliContinue, vars,
         DevRaise, RaiseLam, FpgaReadAttn, ReadAttn, FpgaFinishList,
         FinishList, RequestNotify, StartNotify, AcceptPoll, SendNotify,
         AcceptList, SrvNotify, TakeNotify, Receive, CliNotify, CliWaitAttn,
         CliQueue, CliAddAttn, CliRemoveAttn

\* A thread that runs has been started by a client that still holds the lock,
\* or is known to IsActive().
LEMMA ThreadStep ==
  ASSUME TypeOK, ThreadInv, [Next]_vars
  PROVE  ThreadInv'
<1>. USE ServerAssumption DEF TypeOK, ServTypeOK, CliTypeOK, ThreadInv,
       IsActive, Dead, servVars, loopVars, cliVars
<1>1. CASE SrvTop
  BY <1>1 DEF SrvTop
<1>2. CASE SrvPoll
  BY <1>2 DEF SrvPoll
<1>3. CASE SrvWakeup
  BY <1>3 DEF SrvWakeup
<1>4. CASE SrvRlink
  BY <1>4 DEF SrvRlink
<1>5. CASE SrvUnsolicited
  BY <1>5 DEF SrvUnsolicited
<1>6. CASE SrvAttn
  BY <1>6 DEF SrvAttn
<1>7. CASE SrvMerge
  BY <1>7 DEF SrvMerge
<1>8. CASE SrvMatch
  BY <1>8 DEF SrvMatch
<1>9. CASE SrvCallHandler
  BY <1>9 DEF SrvCallHandler
<1>10. CASE SrvCallErased
  BY <1>10 DEF SrvCallErased
<1>11. CASE SrvResponse
  BY <1>11 DEF SrvResponse
<1>12. CASE SrvHandlerDone
  BY <1>12 DEF SrvHandlerDone
<1>13. CASE SrvLoopEnd
  BY <1>13 DEF SrvLoopEnd
<1>14. CASE SrvDefault
  BY <1>14 DEF SrvDefault
<1>15. CASE SrvDefaultDone
  BY <1>15 DEF SrvDefaultDone
<1>16. CASE SrvAttnEnd
  BY <1>16 DEF SrvAttnEnd
<1>17. CASE SrvActn
  BY <1>17 DEF SrvActn
<1>18. CASE SrvCallAction
  BY <1>18 DEF SrvCallAction
<1>19. CASE SrvActionDone
  BY <1>19 DEF SrvActionDone
<1>20. ASSUME NEW c \in Client, CliResponse(c) PROVE ThreadInv'
  BY <1>20 DEF CliResponse, Goto
<1>21. ASSUME NEW c \in Client, CliExecDone(c) PROVE ThreadInv'
  BY <1>21 DEF CliExecDone, Goto
<1>22. ASSUME NEW c \in Client, CliThread(c) PROVE ThreadInv'
  BY <1>22 DEF CliThread, Goto
<1>23. ASSUME NEW c \in Client, CliAssign(c) PROVE ThreadInv'
  BY <1>23 DEF CliAssign, Goto
<1>24. ASSUME NEW c \in Client, CliSndAttn(c) PROVE ThreadInv'
  BY <1>24 DEF CliSndAttn, Goto
<1>25. ASSUME NEW c \in Client, CliStopWakeup(c) PROVE ThreadInv'
  BY <1>25 DEF CliStopWakeup, Goto
<1>26. ASSUME NEW c \in Client, CliJoin(c) PROVE ThreadInv'
  BY <1>26 DEF CliJoin, Goto
<1>27. ASSUME NEW c \in Client, CliStop(c) PROVE ThreadInv'
  BY <1>27 DEF CliStop, Goto, Begin
<1>28. ASSUME NEW c \in Client, NEW op \in {"exec", "attn"}, CliExec(c, op)
      PROVE  ThreadInv'
  BY <1>28 DEF CliExec, Goto, Begin
<1>29. ASSUME NEW c \in Client, NEW op \in {"start", "resume"}, CliStart(c, op)
      PROVE  ThreadInv'
  BY <1>29 DEF CliStart, Goto, Begin
<1>30. CASE UNCHANGED <<spc, fServerThread, cpc>>
  BY <1>30
<1>. QED
  BY <1>1, <1>2, <1>3, <1>4, <1>5, <1>6, <1>7, <1>8, <1>9, <1>10, <1>11,
      <1>12, <1>13, <1>14, <1>15, <1>16, <1>17, <1>18, <1>19, <1>20, <1>21,
      <1>22, <1>23, <1>24, <1>25, <1>26, <1>27, <1>28, <1>29, <1>30
     DEF Next, FpgaStep, FpgaLink, SrvStep, CliBegin, CliContinue, vars,
         DevRaise, RaiseLam, FpgaReadAttn, ReadAttn, FpgaFinishList,
         FinishList, RequestNotify, StartNotify, AcceptPoll, SendNotify,
         AcceptList, SrvNotify, TakeNotify, Receive, CliNotify, CliWaitAttn,
         CliQueue, CliAddAttn, CliRemoveAttn

\* Whoever gives the sleeping server work also sets the wakeup event.
LEMMA WakeupStep ==
  ASSUME TypeOK, LockInv, ThreadInv, NoLostWakeup, [Next]_vars
  PROVE  NoLostWakeup'
<1>. USE ServerAssumption DEF TypeOK, ServTypeOK, LoopTypeOK, CliTypeOK,
       NoLostWakeup, servVars, loopVars, cliVars
<1>1. CASE SrvTop
  BY <1>1 DEF SrvTop, AttnPending, ActnPending
<1>2. CASE SrvPoll
  BY <1>2 DEF SrvPoll
<1>3. CASE SrvWakeup
  BY <1>3 DEF SrvWakeup
<1>4. CASE SrvRlink
  BY <1>4 DEF SrvRlink
<1>5. CASE SrvUnsolicited
  BY <1>5 DEF SrvUnsolicited
<1>6. CASE SrvAttn
  BY <1>6 DEF SrvAttn
<1>7. CASE SrvMerge
  BY <1>7 DEF SrvMerge
<1>8. CASE SrvMatch
  BY <1>8 DEF SrvMatch
<1>9. CASE SrvCallHandler
  BY <1>9 DEF SrvCallHandler
<1>10. CASE SrvCallErased
  BY <1>10 DEF SrvCallErased
<1>11. CASE SrvNotify
  BY <1>11 DEF SrvNotify, TakeNotify
<1>12. CASE SrvResponse
  BY <1>12 DEF SrvResponse
<1>13. CASE SrvHandlerDone
  BY <1>13 DEF SrvHandlerDone
<1>14. CASE SrvLoopEnd
  BY <1>14 DEF SrvLoopEnd
<1>15. CASE SrvDefault
  BY <1>15 DEF SrvDefault
<1>16. CASE SrvDefaultDone
  BY <1>16 DEF SrvDefaultDone
<1>17. CASE SrvAttnEnd
  BY <1>17 DEF SrvAttnEnd
<1>18. CASE SrvActn
  BY <1>18 DEF SrvActn
<1>19. CASE SrvCallAction
  BY <1>19 DEF SrvCallAction
<1>20. CASE SrvActionDone
  BY <1>20 DEF SrvActionDone
<1>21. ASSUME NEW c \in Client, CliNotify(c) PROVE NoLostWakeup'
  <2>1. /\ AttnPending' => AttnPending \/ wake'
        /\ wake => wake'
    BY <1>21 DEF CliNotify, TakeNotify, ProcessAttnNotify, AttnPending
  <2>. QED BY <1>21, <2>1 DEF CliNotify, TakeNotify, ActnPending
<1>22. ASSUME NEW c \in Client, CliResponse(c) PROVE NoLostWakeup'
  BY <1>22 DEF CliResponse, AttnPending, ActnPending, Goto
<1>23. ASSUME NEW c \in Client, CliExecDone(c) PROVE NoLostWakeup'
  BY <1>23 DEF CliExecDone, AttnPending, ActnPending, Goto
<1>24. ASSUME NEW c \in Client, CliThread(c) PROVE NoLostWakeup'
  BY <1>24 DEF CliThread, AttnPending, ActnPending, Goto
<1>25. ASSUME NEW c \in Client, CliAssign(c) PROVE NoLostWakeup'
  BY <1>25 DEF CliAssign, AttnPending, ActnPending, Goto
<1>26. ASSUME NEW c \in Client, CliSndAttn(c) PROVE NoLostWakeup'
  BY <1>26 DEF CliSndAttn, AttnPending, ActnPending, Goto
<1>27. ASSUME NEW c \in Client, CliStopWakeup(c) PROVE NoLostWakeup'
  BY <1>27 DEF CliStopWakeup, AttnPending, ActnPending, Goto
<1>28. ASSUME NEW c \in Client, CliJoin(c) PROVE NoLostWakeup'
  BY <1>28 DEF CliJoin, AttnPending, ActnPending, Goto
<1>29. ASSUME NEW c \in Client, CliStop(c) PROVE NoLostWakeup'
  BY <1>29 DEF CliStop, AttnPending, ActnPending, Goto, Begin
<1>30. ASSUME NEW c \in Client, CliWaitAttn(c) PROVE NoLostWakeup'
  BY <1>30 DEF CliWaitAttn, AttnPending, ActnPending
<1>31. ASSUME NEW c \in Client, NEW op \in {"exec", "attn"}, CliExec(c, op)
      PROVE  NoLostWakeup'
  BY <1>31 DEF CliExec, AttnPending, ActnPending, Goto, Begin
<1>32. ASSUME NEW c \in Client, NEW op \in {"start", "resume"}, CliStart(c, op)
      PROVE  NoLostWakeup'
  BY <1>32 DEF CliStart, AttnPending, ActnPending, Goto, Begin
<1>33. ASSUME NEW c \in Client, NEW a \in Actn, CliQueue(c, a)
      PROVE  NoLostWakeup'
  <2>1. spc \in Dead \/ IsActive
    BY <1>33 DEF CliQueue, LockInv, ThreadInv
  <2>2. spc = "poll" => wake'
    BY <1>33, <2>1 DEF CliQueue, Dead
  <2>. QED BY <1>33, <2>2 DEF CliQueue
<1>34. CASE UNCHANGED <<spc, blocking, wake, fAttnPatt, fAttnNotiPatt, fActnList,
                    fStopPending, cpc>>
  BY <1>34
     DEF AttnPending, ActnPending
<1>. QED
  BY <1>1, <1>2, <1>3, <1>4, <1>5, <1>6, <1>7, <1>8, <1>9, <1>10, <1>11,
      <1>12, <1>13, <1>14, <1>15, <1>16, <1>17, <1>18, <1>19, <1>20, <1>21,
      <1>22, <1>23, <1>24, <1>25, <1>26, <1>27, <1>28, <1>29, <1>30, <1>31,
      <1>32, <1>33, <1>34
     DEF Next, FpgaStep, FpgaLink, SrvStep, CliBegin, CliContinue, vars,
         DevRaise, RaiseLam, FpgaReadAttn, ReadAttn, FpgaFinishList,
         FinishList, RequestNotify, StartNotify, AcceptPoll, SendNotify,
         AcceptList, CliAddAttn, CliRemoveAttn

\* Only the attn command clears the pattern, and it cancels the notify.
LEMMA PendingStep ==
  ASSUME TypeOK, PendingHasAttn, [Next]_vars
  PROVE  PendingHasAttn'
<1>. USE DEF PendingHasAttn, fpgaVars
<1>1. ASSUME NEW b \in Lam, DevRaise(b) PROVE PendingHasAttn'
  BY <1>1
     DEF DevRaise, RaiseLam
<1>2. CASE FpgaReadAttn
  BY <1>2
     DEF FpgaReadAttn, ReadAttn
<1>3. CASE FpgaFinishList
  BY <1>3
     DEF FpgaFinishList, FinishList, Response
<1>4. CASE FpgaLink /\ RequestNotify
  BY <1>4
     DEF FpgaLink, RequestNotify
<1>5. CASE FpgaLink /\ StartNotify
  BY <1>5
     DEF FpgaLink, StartNotify
<1>6. CASE FpgaLink /\ AcceptPoll
  BY <1>6
     DEF FpgaLink, AcceptPoll
<1>7. CASE FpgaLink /\ SendNotify
  BY <1>7
     DEF FpgaLink, SendNotify, Notify
<1>8. CASE FpgaLink /\ AcceptList
  BY <1>8
     DEF FpgaLink, AcceptList
<1>9. CASE UNCHANGED <<attn, anreq, arpend>>
  BY <1>9
<1>. QED
  BY <1>1, <1>2, <1>3, <1>4, <1>5, <1>6, <1>7, <1>8, <1>9
     DEF Next, FpgaStep, FpgaLink, SrvStep, CliBegin, CliContinue, vars,
         SrvTop, SrvPoll, SrvWakeup, SrvRlink, SrvUnsolicited, Receive,
         SrvAttn, SrvMerge, SrvMatch, SrvCallHandler, Send, SrvCallErased,
         SrvNotify, TakeNotify, SrvResponse, SrvHandlerDone, SrvLoopEnd,
         SrvDefault, SrvDefaultDone, SrvAttnEnd, SrvActn, SrvCallAction,
         SrvActionDone, CliNotify, CliResponse, CliExecDone, CliThread,
         CliAssign, CliSndAttn, CliStopWakeup, CliJoin, CliStop, CliWaitAttn,
         CliExec, CliStart, CliQueue, CliAddAttn, CliRemoveAttn

-----------------------------------------------------------------------------
(* The invariants of every behaviour.                                       *)

\* The lock is held exactly by the thread that uses the link, and a running
\* server thread is known to IsActive() or its creator holds the lock
\* (RlinkServer::StartOrResume(), RlinkConnect::fConnectMutex).
THEOREM LockDiscipline == Spec => [](LockInv /\ ThreadInv)
<1>1. Init => LockInv /\ ThreadInv
  BY ServerAssumption DEF Init, LockInv, ThreadInv, Dead
<1>2. TypeOK /\ LockInv /\ ThreadInv /\ [Next]_vars => (LockInv /\ ThreadInv)'
  BY LockStep, ThreadStep
<1>. QED BY <1>1, <1>2, TypeCorrect, PTL DEF Spec

\* For any number of clients, handlers, actions and operations: the event
\* loop never blocks in poll() on work it has been given, and a Stop() past
\* its Wakeup() is never slept over (RlinkServerEventLoop::EventLoop(),
\* RlinkServer::QueueAction(), SignalAttnNotify(), Stop()).
THEOREM WakeupNeverLost == Spec => []NoLostWakeup
<1>1. Init => NoLostWakeup
  BY DEF Init, NoLostWakeup
<1>2. /\ TypeOK /\ LockInv /\ ThreadInv /\ NoLostWakeup /\ [Next]_vars
      => NoLostWakeup'
  BY WakeupStep
<1>. QED BY <1>1, <1>2, TypeCorrect, LockDiscipline, PTL DEF Spec

\* A notify that is requested or outstanding has an attention behind it,
\* whatever lists the host sends (rlink_core.vhd, sl_attn and sl_idle).
THEOREM NotifyHasCause == Spec => []PendingHasAttn
<1>1. Init => PendingHasAttn
  BY DEF Init, AttnInit, PendingHasAttn
<1>2. TypeOK /\ PendingHasAttn /\ [Next]_vars => PendingHasAttn'
  BY PendingStep
<1>. QED BY <1>1, <1>2, TypeCorrect, PTL DEF Spec

-----------------------------------------------------------------------------
(* One command list at a time.                                              *)

\* A command list on its way to the FPGA, and the answer to one.
IsReq(p) == p.typ = "req"
IsResp(p) == p.typ = "resp"

\* A thread waits for the response to its list.
Waiting == spc = "wait" \/ \E c \in Client : cpc[c] = "wait"

\* There is one list or one response on the link, and only while a thread waits
\* for it; the link FSM works on the list at the head of the queue.
ListInv ==
  /\ \A j, k \in DOMAIN down : IsReq(down[j]) /\ IsReq(down[k]) => j = k
  /\ \A j, k \in DOMAIN up : IsResp(up[j]) /\ IsResp(up[k]) => j = k
  /\ \A j \in DOMAIN down, k \in DOMAIN up : ~(IsReq(down[j]) /\ IsResp(up[k]))
  /\ \A j \in DOMAIN down : IsReq(down[j]) => Waiting
  /\ \A k \in DOMAIN up : IsResp(up[k]) => Waiting
  /\ lstate \in {"list", "tail"} => down # <<>> /\ IsReq(Head(down))
  /\ lstate = "list" => Head(down).attn

\* While the lock is free nobody waits and the link carries notifies only.
LEMMA LinkFree ==
  ASSUME TypeOK, LockInv, ListInv, lock = "free"
  PROVE  /\ ~Waiting
         /\ \A j \in DOMAIN down : ~IsReq(down[j])
         /\ \A k \in DOMAIN up : ~IsResp(up[k])
         /\ lstate \notin {"list", "tail"}
<1>1. ~Waiting
  BY ServerAssumption DEF LockInv, Waiting
<1>2. /\ \A j \in DOMAIN down : ~IsReq(down[j])
      /\ \A k \in DOMAIN up : ~IsResp(up[k])
  BY <1>1 DEF ListInv
<1>3. lstate \notin {"list", "tail"}
  <2>1. down # <<>> => Head(down) = down[1] /\ 1 \in DOMAIN down
    BY TailFacts DEF TypeOK, AttnTypeOK
  <2>. QED BY <2>1, <1>2 DEF ListInv
<1>. QED BY <1>1, <1>2, <1>3

\* The queues are left alone and whoever waits goes on to wait.
LEMMA ListQuiet ==
  ASSUME ListInv, UNCHANGED <<down, up, lstate>>, Waiting => Waiting'
  PROVE  ListInv'
BY DEF ListInv, IsReq, IsResp

\* A list is sent while the lock is free.
LEMMA ListSent ==
  ASSUME TypeOK, LockInv, ListInv, lock = "free", NEW ra \in BOOLEAN,
         NEW rn \in BOOLEAN, NEW rf \in Dev \cup {"none"}, Send(ra, rn, rf), Waiting'
  PROVE  ListInv'
<1>. DEFINE r == [typ |-> "req", attn |-> ra, anena |-> rn, for |-> rf]
<1>1. r \in DownPacket
  BY DEF DownPacket, Request
<1>2. /\ DOMAIN down = 1..Len(down) /\ Len(down) \in Nat
      /\ DOMAIN down' = 1..(Len(down) + 1)
      /\ \A k \in 1..Len(down) : down'[k] = down[k]
  <2>1. down' = Append(down, r) /\ down \in Seq(DownPacket)
    BY DEF Send, TypeOK, AttnTypeOK
  <2>. QED BY <2>1, <1>1, AppendFacts
<1>3. \A j \in DOMAIN down' : IsReq(down'[j]) => j = Len(down) + 1
  BY <1>2, LinkFree
<1>4. up' = up /\ lstate' = lstate
  BY DEF Send
<1>. QED BY <1>3, <1>4, LinkFree DEF ListInv, IsReq, IsResp

\* The response is read: the link carries no list and no response any more.
LEMMA ResponseRead ==
  ASSUME TypeOK, ListInv, Receive("resp")
  PROVE  /\ ListInv'
         /\ Head(up) = up[1] /\ 1 \in DOMAIN up
         /\ \A j \in DOMAIN down' : ~IsReq(down'[j])
         /\ \A k \in DOMAIN up' : ~IsResp(up'[k])
         /\ lstate \notin {"list", "tail"}
<1>1. /\ Head(up) = up[1] /\ DOMAIN up = 1..Len(up) /\ Len(up) \in Nat
      /\ Len(up) >= 1 /\ DOMAIN up' = 1..(Len(up) - 1)
      /\ \A k \in 1..(Len(up) - 1) : up'[k] = up[k + 1]
  BY TailFacts DEF Receive, TypeOK, AttnTypeOK
<1>2. 1 \in DOMAIN up /\ IsResp(up[1])
  BY <1>1 DEF Receive, IsResp
<1>3. \A j \in DOMAIN down : ~IsReq(down[j])
  BY <1>2 DEF ListInv
<1>4. lstate \notin {"list", "tail"}
  <2>1. down # <<>> => Head(down) = down[1] /\ 1 \in DOMAIN down
    BY TailFacts DEF TypeOK, AttnTypeOK
  <2>. QED BY <2>1, <1>3 DEF ListInv
<1>5. \A k \in DOMAIN up' : ~IsResp(up'[k])
  <2>. SUFFICES ASSUME NEW k \in DOMAIN up', IsResp(up'[k]) PROVE FALSE
    OBVIOUS
  <2>1. k + 1 \in DOMAIN up /\ k + 1 # 1 /\ up'[k] = up[k + 1]
    BY <1>1
  <2>. QED BY <2>1, <1>2 DEF ListInv
<1>6. down' = down /\ lstate' = lstate
  BY DEF Receive
<1>7. ListInv'
  BY <1>3, <1>4, <1>5, <1>6 DEF ListInv
<1>. QED BY <1>1, <1>2, <1>3, <1>4, <1>5, <1>6, <1>7

\* A notify is read: the others stay, and no response is moved or lost.
LEMMA NotifyRead ==
  ASSUME TypeOK, Receive("anot")
  PROVE  /\ Len(up) \in Nat /\ Len(up) >= 1
         /\ DOMAIN up = 1..Len(up) /\ DOMAIN up' = 1..(Len(up) - 1)
         /\ Head(up) = up[1] /\ up[1].typ = "anot" /\ up[1].pat \subseteq Lam
         /\ \A k \in 1..(Len(up) - 1) : up'[k] = up[k + 1]
         /\ \A k \in DOMAIN up : k # 1 => k - 1 \in DOMAIN up' /\ up'[k - 1] = up[k]
         /\ down' = down /\ lstate' = lstate /\ attn' = attn /\ harv' = harv
<1>1. /\ Len(up) \in Nat /\ Len(up) >= 1
      /\ DOMAIN up = 1..Len(up) /\ DOMAIN up' = 1..(Len(up) - 1)
      /\ Head(up) = up[1] /\ up[1] \in UpPacket
      /\ \A k \in 1..(Len(up) - 1) : up'[k] = up[k + 1]
  BY TailFacts DEF Receive, TypeOK, AttnTypeOK
<1>2. \A k \in DOMAIN up : k # 1 => k - 1 \in DOMAIN up' /\ up'[k - 1] = up[k]
  BY <1>1
<1>3. up[1].typ = "anot" /\ up[1].pat \subseteq Lam
  BY <1>1 DEF Receive, UpPacket
<1>. QED BY <1>1, <1>2, <1>3 DEF Receive

\* The reading of a notify does not disturb the one list.
LEMMA ListNotifyRead ==
  ASSUME TypeOK, ListInv, Receive("anot"), Waiting => Waiting'
  PROVE  ListInv'
<1>1. \A k \in DOMAIN up' : k + 1 \in DOMAIN up /\ up'[k] = up[k + 1]
  BY NotifyRead
<1>2. /\ \A j, k \in DOMAIN up' : IsResp(up'[j]) /\ IsResp(up'[k]) => j = k
      /\ \A j \in DOMAIN down, k \in DOMAIN up' : ~(IsReq(down[j]) /\ IsResp(up'[k]))
      /\ \A k \in DOMAIN up' : IsResp(up'[k]) => Waiting
  <2>1. \A j, k \in DOMAIN up' : j \in Nat /\ k \in Nat
    BY NotifyRead
  <2>. QED BY <1>1, <2>1 DEF ListInv
<1>3. down' = down /\ lstate' = lstate
  BY NotifyRead
<1>. QED BY <1>2, <1>3 DEF ListInv, IsReq, IsResp


\* A list is sent with the lock taken and answered before it is released.
LEMMA ListStep ==
  ASSUME TypeOK, LockInv, ListInv, [Next]_vars
  PROVE  ListInv'
<1>1. CASE FpgaReadAttn
  BY <1>1 DEF FpgaReadAttn, ReadAttn, ListInv, IsReq, IsResp, Waiting, loopVars,
     cliVars
<1>2. CASE FpgaFinishList
  <2>1. /\ Len(down) \in Nat /\ Len(down) >= 1
        /\ DOMAIN down = 1..Len(down) /\ DOMAIN down' = 1..(Len(down) - 1)
        /\ Head(down) = down[1]
        /\ \A k \in 1..(Len(down) - 1) : down'[k] = down[k + 1]
    BY <1>2, TailFacts DEF FpgaFinishList, FinishList, TypeOK, AttnTypeOK
  <2>2. IsReq(down[1])
    BY <1>2, <2>1 DEF FpgaFinishList, FinishList, ListInv
  <2>3. \A j \in DOMAIN down' : ~IsReq(down'[j])
    <3>. SUFFICES ASSUME NEW j \in DOMAIN down', IsReq(down'[j]) PROVE FALSE
      OBVIOUS
    <3>1. j + 1 \in DOMAIN down /\ 1 \in DOMAIN down /\ j + 1 # 1
      BY <2>1
    <3>2. IsReq(down[j + 1])
      BY <2>1
    <3>. QED BY <3>1, <3>2, <2>2 DEF ListInv
  <2>4. /\ \A k \in DOMAIN up : ~IsResp(up[k])
        /\ Waiting
    BY <2>1, <2>2 DEF ListInv
  <2>5. /\ DOMAIN up = 1..Len(up) /\ Len(up) \in Nat
        /\ DOMAIN up' = 1..(Len(up) + 1)
        /\ \A k \in 1..Len(up) : up'[k] = up[k]
    <3>1. Response(harv) \in UpPacket
      BY DEF TypeOK, AttnTypeOK, Response, UpPacket
    <3>2. up' = Append(up, Response(harv)) /\ up \in Seq(UpPacket)
      BY <1>2 DEF FpgaFinishList, FinishList, TypeOK, AttnTypeOK
    <3>. QED BY <3>1, <3>2, AppendFacts
  <2>6. \A k \in DOMAIN up' : IsResp(up'[k]) => k = Len(up) + 1
    BY <2>4, <2>5
  <2>7. lstate' = "idle" /\ (Waiting => Waiting')
    BY <1>2 DEF FpgaFinishList, FinishList, Waiting, loopVars, cliVars
  <2>. QED BY <2>3, <2>4, <2>6, <2>7 DEF ListInv
<1>3. CASE FpgaLink /\ StartNotify
  BY <1>3 DEF FpgaLink, StartNotify, ListInv, IsReq, IsResp, Waiting, loopVars,
     cliVars
<1>4. CASE FpgaLink /\ AcceptPoll
  <2>1. /\ Len(down) \in Nat /\ Len(down) >= 1
        /\ DOMAIN down = 1..Len(down) /\ DOMAIN down' = 1..(Len(down) - 1)
        /\ \A k \in 1..(Len(down) - 1) : down'[k] = down[k + 1]
    BY <1>4, TailFacts DEF FpgaLink, AcceptPoll, TypeOK, AttnTypeOK
  <2>2. \A k \in DOMAIN down' : k \in Nat /\ k + 1 \in DOMAIN down /\ down'[k] = down[k + 1]
    BY <2>1
  <2>3. /\ \A j, k \in DOMAIN down' : IsReq(down'[j]) /\ IsReq(down'[k]) => j = k
        /\ \A j \in DOMAIN down', k \in DOMAIN up : ~(IsReq(down'[j]) /\ IsResp(up[k]))
        /\ \A j \in DOMAIN down' : IsReq(down'[j]) => Waiting
    BY <2>2 DEF ListInv
  <2>4. up' = up /\ lstate' = "anot" /\ (Waiting => Waiting')
    BY <1>4 DEF FpgaLink, AcceptPoll, Waiting, loopVars, cliVars
  <2>. QED BY <2>3, <2>4 DEF ListInv, IsReq, IsResp
<1>5. CASE FpgaLink /\ SendNotify
  <2>1. /\ DOMAIN up = 1..Len(up) /\ Len(up) \in Nat
        /\ DOMAIN up' = 1..(Len(up) + 1)
        /\ \A k \in 1..Len(up) : up'[k] = up[k]
        /\ up'[Len(up) + 1] = Notify(attn)
    <3>1. Notify(attn) \in UpPacket
      BY DEF TypeOK, AttnTypeOK, Notify, UpPacket
    <3>2. up' = Append(up, Notify(attn)) /\ up \in Seq(UpPacket)
      BY <1>5 DEF FpgaLink, SendNotify, TypeOK, AttnTypeOK
    <3>. QED BY <3>1, <3>2, AppendFacts
  <2>2. \A k \in DOMAIN up' : IsResp(up'[k]) => k \in DOMAIN up /\ IsResp(up[k])
    BY <2>1 DEF IsResp, Notify
  <2>3. down' = down /\ lstate' = "idle" /\ (Waiting => Waiting')
    BY <1>5 DEF FpgaLink, SendNotify, Waiting, loopVars, cliVars
  <2>. QED BY <2>2, <2>3 DEF ListInv, IsReq
<1>6. CASE FpgaLink /\ AcceptList
  BY <1>6 DEF FpgaLink, AcceptList, ListInv, IsReq, IsResp, Waiting, loopVars, cliVars
<1>7. CASE SrvUnsolicited
  <2>1. Waiting => Waiting'
    BY <1>7 DEF SrvUnsolicited, Waiting, cliVars
  <2>2. UNCHANGED <<down, up, lstate>> \/ Receive("anot")
    BY <1>7 DEF SrvUnsolicited, fpgaVars
  <2>. QED BY <2>1, <2>2, ListQuiet, ListNotifyRead
<1>8. CASE SrvCallHandler
  <2>1. Waiting'
    BY <1>8 DEF SrvCallHandler, Waiting
  <2>2. CalledHdl \in Dev \cup {"none"}
    BY DEF CalledHdl, TypeOK, ServTypeOK, LoopTypeOK
  <2>. QED BY <1>8, <2>1, <2>2, ListSent DEF SrvCallHandler
<1>9. CASE SrvNotify
  <2>1. Receive("anot") /\ (Waiting => Waiting')
    BY <1>9 DEF SrvNotify, TakeNotify, Waiting, loopVars, cliVars
  <2>. QED BY <2>1, ListNotifyRead
<1>10. CASE SrvResponse
  BY <1>10, ResponseRead DEF SrvResponse
<1>11. CASE SrvDefault
  <2>1. Waiting'
    BY <1>11 DEF SrvDefault, Waiting
  <2>2. CalledHdl \in Dev \cup {"none"}
    BY DEF CalledHdl, TypeOK, ServTypeOK, LoopTypeOK
  <2>. QED BY <1>11, <2>1, <2>2, ListSent DEF SrvDefault
<1>12. CASE SrvCallAction
  <2>1. Waiting'
    BY <1>12 DEF SrvCallAction, Waiting
  <2>2. CalledHdl \in Dev \cup {"none"}
    BY DEF CalledHdl, TypeOK, ServTypeOK, LoopTypeOK
  <2>. QED BY <1>12, <2>1, <2>2, ListSent DEF SrvCallAction
<1>13. ASSUME NEW c \in Client, CliNotify(c) PROVE ListInv'
  <2>1. Receive("anot") /\ (Waiting => Waiting')
    BY <1>13 DEF CliNotify, TakeNotify, Waiting, loopVars, cliVars
  <2>. QED BY <2>1, ListNotifyRead
<1>14. ASSUME NEW c \in Client, CliResponse(c) PROVE ListInv'
  BY <1>14, ResponseRead DEF CliResponse
<1>15. ASSUME NEW c \in Client, CliExecDone(c) PROVE ListInv'
  BY <1>15, ListQuiet DEF CliExecDone, Goto, Waiting, fpgaVars, loopVars, cliVars,
     TypeOK, CliTypeOK
<1>16. ASSUME NEW c \in Client, CliThread(c) PROVE ListInv'
  <2>1. spc # "wait"
    BY <1>16, ServerAssumption DEF CliThread, LockInv
  <2>. QED BY <1>16, <2>1, ListQuiet DEF CliThread, Goto, Waiting, fpgaVars, TypeOK, CliTypeOK
<1>17. ASSUME NEW c \in Client, CliAssign(c) PROVE ListInv'
  BY <1>17, ListQuiet DEF CliAssign, Goto, Waiting, fpgaVars, loopVars, cliVars,
     TypeOK, CliTypeOK
<1>18. ASSUME NEW c \in Client, CliSndAttn(c) PROVE ListInv'
  <2>1. /\ DOMAIN down = 1..Len(down) /\ Len(down) \in Nat
        /\ DOMAIN down' = 1..(Len(down) + 1)
        /\ \A k \in 1..Len(down) : down'[k] = down[k]
        /\ down'[Len(down) + 1] = Poll
        /\ down # <<>> => Head(down') = Head(down) /\ down' # <<>>
    <3>1. Poll \in DownPacket
      BY DEF DownPacket
    <3>2. down' = Append(down, Poll) /\ down \in Seq(DownPacket)
      BY <1>18 DEF CliSndAttn, TypeOK, AttnTypeOK
    <3>3. down # <<>> => Head(Append(down, Poll)) = Head(down) /\ Append(down, Poll) # <<>>
      BY <3>1, <3>2
    <3>. QED BY <3>1, <3>2, <3>3, AppendFacts
  <2>2. \A k \in DOMAIN down' : IsReq(down'[k]) => k \in DOMAIN down /\ IsReq(down[k])
    BY <2>1 DEF IsReq, Poll
  <2>3. up' = up /\ lstate' = lstate /\ (Waiting => Waiting')
    BY <1>18 DEF CliSndAttn, Goto, Waiting, loopVars, TypeOK, CliTypeOK
  <2>. QED BY <2>1, <2>2, <2>3 DEF ListInv, IsResp, IsReq
<1>19. ASSUME NEW c \in Client, CliStopWakeup(c) PROVE ListInv'
  BY <1>19, ListQuiet DEF CliStopWakeup, Goto, Waiting, fpgaVars, loopVars, cliVars,
     TypeOK, CliTypeOK
<1>20. ASSUME NEW c \in Client, CliJoin(c) PROVE ListInv'
  BY <1>20, ListQuiet DEF CliJoin, Goto, Waiting, fpgaVars, loopVars, cliVars, TypeOK,
     CliTypeOK
<1>21. ASSUME NEW c \in Client, CliStop(c) PROVE ListInv'
  BY <1>21, ListQuiet DEF CliStop, Begin, Goto, Waiting, fpgaVars, loopVars, TypeOK,
     CliTypeOK
<1>22. ASSUME NEW c \in Client, CliWaitAttn(c) PROVE ListInv'
  <2>1. Waiting => Waiting'
    BY <1>22 DEF CliWaitAttn, Waiting, loopVars
  <2>2. UNCHANGED <<down, up, lstate>> \/ Receive("anot")
    BY <1>22 DEF CliWaitAttn, fpgaVars
  <2>. QED BY <2>1, <2>2, ListQuiet, ListNotifyRead
<1>23. ASSUME NEW c \in Client, NEW op \in {"exec", "attn"}, CliExec(c, op)
      PROVE  ListInv'
  <2>1. Waiting'
    BY <1>23 DEF CliExec, Goto, Waiting, TypeOK, CliTypeOK
  <2>. QED BY <1>23, <2>1, ListSent DEF CliExec
<1>24. ASSUME NEW c \in Client, NEW op \in {"start", "resume"}, CliStart(c, op)
      PROVE  ListInv'
  <2>1. Waiting'
    BY <1>24 DEF CliStart, Goto, Waiting, TypeOK, CliTypeOK
  <2>. QED BY <1>24, <2>1, ListSent DEF CliStart
<1>25. CASE UNCHANGED <<down, up, lstate, cpc>> /\ (spc # "wait" \/ spc' = spc)
  BY <1>25, ListQuiet DEF Waiting
<1>. QED
  BY <1>1, <1>2, <1>3, <1>4, <1>5, <1>6, <1>7, <1>8, <1>9, <1>10, <1>11, <1>12, <1>13,
      <1>14, <1>15, <1>16, <1>17, <1>18, <1>19, <1>20, <1>21, <1>22, <1>23, <1>24,
      <1>25
     DEF Next, FpgaStep, FpgaLink, SrvStep, CliBegin, CliContinue, DevRaise, RaiseLam,
         RequestNotify, SrvTop, SrvPoll, SrvWakeup, SrvRlink, SrvAttn, SrvMerge,
         SrvMatch, SrvCallErased, SrvHandlerDone, SrvLoopEnd, SrvDefaultDone,
         SrvAttnEnd, SrvActn, SrvActionDone, CliQueue, CliAddAttn, CliRemoveAttn,
         fpgaVars, connVars, servVars, loopVars, cliVars, vars

\* The list the server waits for: an attn command belongs to a handler or to the
\* default handling, and a handler's list reads the device of the handler called.
OwnList ==
  \A k \in DOMAIN down : spc = "wait" /\ IsReq(down[k]) =>
     /\ down[k].attn <=> ctx # "actn"
     /\ down[k].for = IF ctx = "hdl" THEN CalledHdl ELSE "none"

\* Nothing the server waits for is changed, or it does not wait.
LEMMA OwnQuiet ==
  ASSUME OwnList,
         spc' = "wait" => UNCHANGED <<down, spc, ctx, i, hdl, fAttnDsc>>
  PROVE  OwnList'
BY DEF OwnList, IsReq, CalledHdl

\* The server sends a list.
LEMMA OwnSent ==
  ASSUME TypeOK, LockInv, ListInv, lock = "free", NEW ra \in BOOLEAN,
         NEW rf \in Dev \cup {"none"}, Send(ra, FALSE, rf),
         ra <=> ctx' # "actn", rf = IF ctx' = "hdl" THEN CalledHdl' ELSE "none"
  PROVE  OwnList'
<1>. DEFINE r == [typ |-> "req", attn |-> ra, anena |-> FALSE, for |-> rf]
<1>1. r \in DownPacket
  BY DEF DownPacket, Request
<1>2. /\ DOMAIN down = 1..Len(down) /\ Len(down) \in Nat
      /\ DOMAIN down' = 1..(Len(down) + 1)
      /\ \A k \in 1..Len(down) : down'[k] = down[k]
      /\ down'[Len(down) + 1] = r
  <2>1. down' = Append(down, r) /\ down \in Seq(DownPacket)
    BY DEF Send, TypeOK, AttnTypeOK
  <2>. QED BY <2>1, <1>1, AppendFacts
<1>3. \A j \in DOMAIN down' : IsReq(down'[j]) => down'[j] = r
  BY <1>2, LinkFree
<1>4. r.attn = ra /\ r.for = rf
  OBVIOUS
<1>. QED BY <1>3, <1>4 DEF OwnList, IsReq

\* The list is made when the server begins to wait and nobody else can send
\* one until it is answered.
LEMMA OwnStep ==
  ASSUME TypeOK, LockInv, ListInv, OwnList, [Next]_vars
  PROVE  OwnList'
<1>1. CASE FpgaFinishList
  <2>1. \A k \in DOMAIN down' : k + 1 \in DOMAIN down /\ down'[k] = down[k + 1]
    BY <1>1, TailFacts DEF FpgaFinishList, FinishList, TypeOK, AttnTypeOK
  <2>2. UNCHANGED <<spc, ctx, i, hdl, fAttnDsc>>
    BY <1>1 DEF FpgaFinishList, servVars, loopVars
  <2>. QED BY <2>1, <2>2 DEF OwnList, IsReq, CalledHdl
<1>2. CASE FpgaLink /\ AcceptPoll
  <2>1. \A k \in DOMAIN down' : k + 1 \in DOMAIN down /\ down'[k] = down[k + 1]
    BY <1>2, TailFacts DEF FpgaLink, AcceptPoll, TypeOK, AttnTypeOK
  <2>2. UNCHANGED <<spc, ctx, i, hdl, fAttnDsc>>
    BY <1>2 DEF FpgaLink, servVars, loopVars
  <2>. QED BY <2>1, <2>2 DEF OwnList, IsReq, CalledHdl
<1>3. CASE SrvCallHandler
  <2>1. CalledHdl' = CalledHdl /\ CalledHdl \in Dev \cup {"none"}
    BY <1>3 DEF SrvCallHandler, CalledHdl, servVars, TypeOK, ServTypeOK, LoopTypeOK
  <2>. QED BY <1>3, <2>1, OwnSent DEF SrvCallHandler
<1>4. CASE SrvDefault
  <2>1. CalledHdl' = CalledHdl /\ CalledHdl \in Dev \cup {"none"}
    BY <1>4 DEF SrvDefault, CalledHdl, servVars, TypeOK, ServTypeOK, LoopTypeOK
  <2>. QED BY <1>4, <2>1, OwnSent DEF SrvDefault
<1>5. CASE SrvCallAction
  <2>1. CalledHdl' = CalledHdl /\ CalledHdl \in Dev \cup {"none"}
    BY <1>5 DEF SrvCallAction, CalledHdl, servVars, TypeOK, ServTypeOK, LoopTypeOK
  <2>. QED BY <1>5, <2>1, OwnSent DEF SrvCallAction
<1>6. ASSUME NEW c \in Client, CliSndAttn(c) PROVE OwnList'
  <2>1. spc' # "wait"
    BY <1>6, ServerAssumption DEF CliSndAttn, LockInv, loopVars
  <2>. QED BY <2>1, OwnQuiet
<1>7. ASSUME NEW c \in Client, NEW op \in {"exec", "attn"}, CliExec(c, op)
      PROVE  OwnList'
  <2>1. spc' # "wait"
    BY <1>7 DEF CliExec, LockInv, loopVars
  <2>. QED BY <2>1, OwnQuiet
<1>8. ASSUME NEW c \in Client, NEW op \in {"start", "resume"}, CliStart(c, op)
      PROVE  OwnList'
  <2>1. spc' # "wait"
    BY <1>8 DEF CliStart, LockInv, loopVars
  <2>. QED BY <2>1, OwnQuiet
<1>9. ASSUME NEW c \in Client, NEW h \in Dev, CliAddAttn(c, h)
      PROVE  OwnList'
  <2>1. spc' # "wait"
    BY <1>9 DEF CliAddAttn, LockInv, loopVars
  <2>. QED BY <2>1, OwnQuiet
<1>10. ASSUME NEW c \in Client, NEW k \in DOMAIN fAttnDsc, CliRemoveAttn(c, k)
      PROVE  OwnList'
  <2>1. spc' # "wait"
    BY <1>10 DEF CliRemoveAttn, LockInv, loopVars
  <2>. QED BY <2>1, OwnQuiet
<1>11. CASE spc' = "wait" => UNCHANGED <<down, spc, ctx, i, hdl, fAttnDsc>>
  BY <1>11, OwnQuiet
<1>. QED
  BY <1>1, <1>2, <1>3, <1>4, <1>5, <1>6, <1>7, <1>8, <1>9, <1>10, <1>11
     DEF Next, FpgaStep, FpgaLink, SrvStep, CliBegin, CliContinue, DevRaise, RaiseLam,
         FpgaReadAttn, ReadAttn, RequestNotify, StartNotify, SendNotify, AcceptList,
         SrvTop, SrvPoll, SrvWakeup, SrvRlink, SrvUnsolicited, SrvAttn, SrvMerge,
         SrvMatch, SrvCallErased, SrvNotify, TakeNotify, Receive, SrvResponse,
         SrvHandlerDone, SrvLoopEnd, SrvDefaultDone, SrvAttnEnd, SrvActn,
         SrvActionDone, CliNotify, CliResponse, CliExecDone, CliThread, CliAssign,
         CliStopWakeup, CliJoin, CliStop, CliWaitAttn, CliQueue, fpgaVars, connVars,
         servVars, loopVars, cliVars, vars

\* Only Main starts a server, and none runs while it does.
StarterInv ==
  \A c \in Client :
    cctx[c] \in {"start", "resume"} =>
      c = Main /\ (cpc[c] \in {"wait", "acc"} => spc \in Dead)


\* A dead server is brought back by its starter only.
LEMMA StarterStep ==
  ASSUME TypeOK, LockInv, ThreadInv, StarterInv, [Next]_vars
  PROVE  StarterInv'
<1>1. ASSUME NEW c \in Client, CliResponse(c) PROVE StarterInv'
  BY <1>1 DEF CliResponse, Goto, StarterInv, Dead, loopVars, cliVars, TypeOK,
     CliTypeOK, LoopTypeOK, SrvPC
<1>2. ASSUME NEW c \in Client, CliExecDone(c) PROVE StarterInv'
  BY <1>2 DEF CliExecDone, Goto, StarterInv, Dead, loopVars, cliVars, TypeOK,
     CliTypeOK, LoopTypeOK, SrvPC
<1>3. ASSUME NEW c \in Client, CliThread(c) PROVE StarterInv'
  BY <1>3 DEF CliThread, Goto, StarterInv, Dead, loopVars, cliVars, TypeOK, CliTypeOK,
     LoopTypeOK, SrvPC
<1>4. ASSUME NEW c \in Client, CliAssign(c) PROVE StarterInv'
  BY <1>4 DEF CliAssign, Goto, StarterInv, Dead, loopVars, cliVars, TypeOK, CliTypeOK,
     LoopTypeOK, SrvPC
<1>5. ASSUME NEW c \in Client, CliSndAttn(c) PROVE StarterInv'
  BY <1>5 DEF CliSndAttn, Goto, StarterInv, Dead, loopVars, cliVars, TypeOK,
     CliTypeOK, LoopTypeOK, SrvPC
<1>6. ASSUME NEW c \in Client, CliStopWakeup(c) PROVE StarterInv'
  BY <1>6 DEF CliStopWakeup, Goto, StarterInv, Dead, loopVars, cliVars, TypeOK,
     CliTypeOK, LoopTypeOK, SrvPC
<1>7. ASSUME NEW c \in Client, CliJoin(c) PROVE StarterInv'
  BY <1>7 DEF CliJoin, Goto, StarterInv, Dead, loopVars, cliVars, TypeOK, CliTypeOK,
     LoopTypeOK, SrvPC
<1>8. ASSUME NEW c \in Client, CliStop(c) PROVE StarterInv'
  BY <1>8 DEF CliStop, Goto, Begin, StarterInv, Dead, loopVars, cliVars, TypeOK,
     CliTypeOK, LoopTypeOK, SrvPC
<1>9. ASSUME NEW c \in Client, NEW op \in {"exec", "attn"}, CliExec(c, op)
      PROVE  StarterInv'
  BY <1>9 DEF CliExec, Goto, Begin, StarterInv, Dead, loopVars, cliVars, TypeOK,
     CliTypeOK, LoopTypeOK, SrvPC
<1>10. ASSUME NEW c \in Client, NEW op \in {"start", "resume"}, CliStart(c, op)
      PROVE  StarterInv'
  <2>1. spc \in Dead
    BY <1>10, ServerAssumption DEF CliStart, ThreadInv, LockInv
  <2>. QED BY <1>10, <2>1 DEF CliStart, Goto, Begin, StarterInv, loopVars, TypeOK, CliTypeOK
<1>11. CASE UNCHANGED <<cpc, cctx>> /\ (spc \in Dead => spc' \in Dead)
  BY <1>11 DEF StarterInv
<1>. QED
  BY <1>1, <1>2, <1>3, <1>4, <1>5, <1>6, <1>7, <1>8, <1>9, <1>10, <1>11
     DEF Next, FpgaStep, FpgaLink, SrvStep, CliBegin, CliContinue, DevRaise, RaiseLam,
         FpgaReadAttn, ReadAttn, FpgaFinishList, FinishList, RequestNotify,
         StartNotify, AcceptPoll, SendNotify, AcceptList, SrvTop, SrvPoll, SrvWakeup,
         SrvRlink, SrvUnsolicited, SrvAttn, SrvMerge, SrvMatch, SrvCallHandler, Send,
         SrvCallErased, SrvNotify, TakeNotify, Receive, SrvResponse, SrvHandlerDone,
         SrvLoopEnd, SrvDefault, SrvDefaultDone, SrvAttnEnd, SrvActn, SrvCallAction,
         SrvActionDone, CliNotify, CliWaitAttn, CliQueue, CliAddAttn, CliRemoveAttn,
         fpgaVars, connVars, servVars, loopVars, cliVars, vars, Dead

-----------------------------------------------------------------------------
(* An outstanding notify is always followed up.                             *)

\* Every server has been begun with Resume(), which ends in a SndAttn().
ResumeInv ==
  \A c \in Client : /\ cctx[c] # "start"
                    /\ cpc[c] \in {"assign", "sndattn"} => cctx[c] = "resume"


\* Without Start() among the operations every thread is created by Resume().
LEMMA ResumeStep ==
  ASSUME TypeOK, "start" \notin Ops, ResumeInv, [Next]_vars
  PROVE  ResumeInv'
<1>1. ASSUME NEW c \in Client, CliResponse(c) PROVE ResumeInv'
  BY <1>1 DEF CliResponse, Goto, ResumeInv, cliVars, TypeOK, CliTypeOK
<1>2. ASSUME NEW c \in Client, CliExecDone(c) PROVE ResumeInv'
  BY <1>2 DEF CliExecDone, Goto, ResumeInv, cliVars, TypeOK, CliTypeOK
<1>3. ASSUME NEW c \in Client, CliThread(c) PROVE ResumeInv'
  BY <1>3 DEF CliThread, Goto, ResumeInv, cliVars, TypeOK, CliTypeOK
<1>4. ASSUME NEW c \in Client, CliAssign(c) PROVE ResumeInv'
  BY <1>4 DEF CliAssign, Goto, ResumeInv, cliVars, TypeOK, CliTypeOK
<1>5. ASSUME NEW c \in Client, CliSndAttn(c) PROVE ResumeInv'
  BY <1>5 DEF CliSndAttn, Goto, ResumeInv, cliVars, TypeOK, CliTypeOK
<1>6. ASSUME NEW c \in Client, CliStopWakeup(c) PROVE ResumeInv'
  BY <1>6 DEF CliStopWakeup, Goto, ResumeInv, cliVars, TypeOK, CliTypeOK
<1>7. ASSUME NEW c \in Client, CliJoin(c) PROVE ResumeInv'
  BY <1>7 DEF CliJoin, Goto, ResumeInv, cliVars, TypeOK, CliTypeOK
<1>8. ASSUME NEW c \in Client, CliStop(c) PROVE ResumeInv'
  BY <1>8 DEF CliStop, Begin, Goto, ResumeInv, cliVars, TypeOK, CliTypeOK
<1>9. ASSUME NEW c \in Client, NEW op \in {"exec", "attn"}, CliExec(c, op)
      PROVE  ResumeInv'
  BY <1>9 DEF CliExec, Begin, Goto, ResumeInv, cliVars, TypeOK, CliTypeOK
<1>10. ASSUME NEW c \in Client, NEW op \in {"start", "resume"}, CliStart(c, op)
      PROVE  ResumeInv'
  BY <1>10 DEF CliStart, Begin, Goto, ResumeInv, cliVars, TypeOK, CliTypeOK
<1>11. CASE UNCHANGED <<cpc, cctx>>
  BY <1>11 DEF ResumeInv
<1>. QED
  BY <1>1, <1>2, <1>3, <1>4, <1>5, <1>6, <1>7, <1>8, <1>9, <1>10, <1>11
     DEF Next, FpgaStep, FpgaLink, SrvStep, CliBegin, CliContinue, DevRaise, RaiseLam,
         FpgaReadAttn, ReadAttn, FpgaFinishList, FinishList, RequestNotify,
         StartNotify, AcceptPoll, SendNotify, AcceptList, SrvTop, SrvPoll, SrvWakeup,
         SrvRlink, SrvUnsolicited, SrvAttn, SrvMerge, SrvMatch, SrvCallHandler, Send,
         SrvCallErased, SrvNotify, TakeNotify, Receive, SrvResponse, SrvHandlerDone,
         SrvLoopEnd, SrvDefault, SrvDefaultDone, SrvAttnEnd, SrvActn, SrvCallAction,
         SrvActionDone, CliNotify, CliWaitAttn, CliQueue, CliAddAttn, CliRemoveAttn,
         fpgaVars, connVars, servVars, loopVars, cliVars, vars

\* A notify is read while the server runs: the server gets its pattern, unless
\* the client that resumes it will ask for another.
LEMMA NotifyFollowed ==
  ASSUME TypeOK, ThreadInv, ResumeInv, AttnAnnounced, Receive("anot"),
         ProcessAttnNotify(Head(up).pat), UNCHANGED <<cliVars, hdone, fAttnPatt>>,
         spc' \notin Dead => spc \notin Dead, InRound' <=> InRound,
         spc \in {"loop", "hcall", "dcall"} => spc' = spc
  PROVE  AttnAnnounced'
<1>. SUFFICES ASSUME spc \notin Dead, arpend PROVE NotifyToCome' \/ HarvestToCome'
  BY DEF AttnAnnounced, Receive
<1>1. CASE ~IsActive
  <2>1. PICK c \in Client : cpc[c] = "assign"
    BY <1>1 DEF ThreadInv
  <2>2. cpc'[c] = "assign" /\ cctx'[c] = "resume"
    BY <2>1 DEF ResumeInv, cliVars
  <2>. QED BY <2>2 DEF NotifyToCome
<1>2. CASE IsActive
  <2>1. fAttnNotiPatt' = fAttnNotiPatt \cup Head(up).pat
    BY <1>2 DEF ProcessAttnNotify
  <2>2. CASE NotifyToCome
    <3>1. CASE lstate = "anot"
      BY <3>1 DEF NotifyToCome, Receive
    <3>2. ASSUME NEW p \in Range(up), p.typ = "anot", p.pat # {}
          PROVE  NotifyToCome' \/ HarvestToCome'
      <4>1. p = Head(up) \/ p \in Range(up')
        BY <3>2, TailFacts DEF Receive, TypeOK, AttnTypeOK
      <4>. QED BY <4>1, <3>2, <2>1 DEF NotifyToCome, HarvestToCome
    <3>3. CASE \E r \in Range(down) : r.typ = "poll"
      BY <3>3 DEF NotifyToCome, Receive
    <3>4. CASE \E c \in Client : cpc[c] \in {"assign", "sndattn"} /\ cctx[c] = "resume"
      BY <3>4 DEF NotifyToCome, cliVars
    <3>. QED BY <2>2, <3>1, <3>2, <3>3, <3>4 DEF NotifyToCome
  <2>3. CASE HarvestToCome
    <3>1. fAttnNotiPatt # {} => fAttnNotiPatt' # {}
      BY <2>1
    <3>. QED BY <2>3, <3>1 DEF HarvestToCome, Receive
  <2>. QED BY <2>2, <2>3 DEF AttnAnnounced
<1>. QED BY <1>1, <1>2

\* A response is read: notifies stay.
LEMMA ResponseLeaves ==
  ASSUME TypeOK, Receive("resp")
  PROVE  \A p \in Range(up) : p.typ = "anot" => p \in Range(up')
BY TailFacts DEF Receive, TypeOK, AttnTypeOK

\* A list with an attn command is sent to an idle link.
LEMMA AttnSent ==
  ASSUME TypeOK, LockInv, ListInv, lock = "free", NEW rf \in Dev \cup {"none"},
         Send(TRUE, FALSE, rf)
  PROVE  HarvestToCome'
<1>. DEFINE r == [typ |-> "req", attn |-> TRUE, anena |-> FALSE, for |-> rf]
<1>1. r \in DownPacket /\ r.typ = "req" /\ r.attn
  BY DEF DownPacket, Request
<1>2. r \in Range(down')
  BY <1>1, AppendFacts DEF Send, TypeOK, AttnTypeOK
<1>3. lstate' # "tail"
  BY LinkFree DEF Send
<1>. QED BY <1>1, <1>2, <1>3 DEF HarvestToCome

\* What is on the downlink stays there when something is sent.
LEMMA SentStays ==
  ASSUME TypeOK, NEW e \in DownPacket, down' = Append(down, e)
  PROVE  Range(down) \subseteq Range(down') /\ e \in Range(down')
BY AppendFacts DEF TypeOK, AttnTypeOK


\* Every step that uses up the means to answer a notify provides the next.
LEMMA AnnouncedStep ==
  ASSUME TypeOK, LockInv, ThreadInv, PendingHasAttn, ListInv, ResumeInv,
         AttnAnnounced, [Next]_vars
  PROVE  AttnAnnounced'
<1>1. ASSUME NEW b \in Lam, DevRaise(b) PROVE AttnAnnounced'
  BY <1>1 DEF DevRaise, RaiseLam, AttnAnnounced, NotifyToCome, HarvestToCome, InRound,
     Dead, fpgaVars, servVars, loopVars, cliVars, TypeOK, CliTypeOK
<1>2. CASE FpgaReadAttn
  BY <1>2 DEF FpgaReadAttn, ReadAttn, AttnAnnounced, NotifyToCome, HarvestToCome,
     InRound, Dead, fpgaVars, servVars, loopVars, cliVars, TypeOK, CliTypeOK
<1>3. CASE FpgaFinishList
  <2>1. \A r \in Range(down) : r \in Range(down') \/ r = Head(down)
    BY <1>3, TailFacts DEF FpgaFinishList, FinishList, TypeOK, AttnTypeOK
  <2>2. Head(down).typ # "poll"
    BY <1>3 DEF FpgaFinishList, FinishList, ListInv, IsReq
  <2>3. Range(up) \subseteq Range(up')
    <3>1. Response(harv) \in UpPacket
      BY DEF TypeOK, AttnTypeOK, Response, UpPacket
    <3>. QED BY <1>3, <3>1, AppendFacts DEF FpgaFinishList, FinishList, TypeOK, AttnTypeOK
  <2>4. UNCHANGED <<spc, ctx, fAttnPatt, fAttnNotiPatt, hdone, cpc, cctx, arpend>>
    BY <1>3 DEF FpgaFinishList, FinishList, servVars, loopVars, cliVars
  <2>5. lstate = "tail"
    BY <1>3 DEF FpgaFinishList, FinishList
  <2>6. NotifyToCome => NotifyToCome'
    BY <2>1, <2>2, <2>3, <2>4, <2>5 DEF NotifyToCome
  <2>7. HarvestToCome => HarvestToCome'
    BY <2>4, <2>5 DEF HarvestToCome, InRound
  <2>. QED BY <2>4, <2>6, <2>7 DEF AttnAnnounced
<1>4. CASE FpgaLink /\ RequestNotify
  BY <1>4 DEF RequestNotify, FpgaLink, AttnAnnounced, NotifyToCome, HarvestToCome,
     InRound, Dead, fpgaVars, servVars, loopVars, cliVars, TypeOK, CliTypeOK
<1>5. CASE FpgaLink /\ StartNotify
  BY <1>5 DEF FpgaLink, StartNotify, AttnAnnounced, NotifyToCome
<1>6. CASE FpgaLink /\ AcceptPoll
  BY <1>6 DEF FpgaLink, AcceptPoll, AttnAnnounced, NotifyToCome
<1>7. CASE FpgaLink /\ SendNotify
  <2>1. Notify(attn) \in Range(up')
    <3>1. Notify(attn) \in UpPacket
      BY DEF TypeOK, AttnTypeOK, Notify, UpPacket
    <3>. QED BY <1>7, <3>1, AppendFacts DEF FpgaLink, SendNotify, TypeOK, AttnTypeOK
  <2>2. arpend => attn # {}
    BY DEF PendingHasAttn
  <2>3. Notify(attn).typ = "anot" /\ Notify(attn).pat = attn
    BY DEF Notify
  <2>4. arpend' = arpend
    BY <1>7 DEF FpgaLink, SendNotify
  <2>. QED BY <2>1, <2>2, <2>3, <2>4 DEF AttnAnnounced, NotifyToCome
<1>8. CASE FpgaLink /\ AcceptList
  <2>1. 1 \in DOMAIN down /\ Head(down) = down[1] /\ IsReq(down[1])
    BY <1>8, TailFacts DEF FpgaLink, AcceptList, TypeOK, AttnTypeOK, IsReq
  <2>2. \A r \in Range(down) : r.typ = "req" => r = Head(down)
    BY <2>1 DEF Range, ListInv, IsReq
  <2>3. UNCHANGED <<up, down, spc, ctx, fAttnPatt, fAttnNotiPatt, hdone, cpc, cctx, arpend>>
    BY <1>8 DEF FpgaLink, AcceptList, servVars, loopVars, cliVars
  <2>4. lstate = "idle" /\ lstate' = IF Head(down).attn THEN "list" ELSE "tail"
    BY <1>8 DEF FpgaLink, AcceptList
  <2>5. NotifyToCome => NotifyToCome'
    BY <2>3, <2>4 DEF NotifyToCome
  <2>6. HarvestToCome => HarvestToCome'
    BY <2>2, <2>3, <2>4 DEF HarvestToCome, InRound
  <2>. QED BY <2>3, <2>5, <2>6 DEF AttnAnnounced
<1>9. CASE SrvTop
  BY <1>9 DEF SrvTop, AttnAnnounced, NotifyToCome, HarvestToCome, InRound, Dead,
     fpgaVars, servVars, loopVars, cliVars, TypeOK, CliTypeOK
<1>10. CASE SrvPoll
  BY <1>10 DEF SrvPoll, AttnAnnounced, NotifyToCome, HarvestToCome, InRound, Dead,
     fpgaVars, servVars, loopVars, cliVars, TypeOK, CliTypeOK
<1>11. CASE SrvWakeup
  BY <1>11 DEF SrvWakeup, AttnAnnounced, NotifyToCome, HarvestToCome, InRound, Dead,
     fpgaVars, servVars, loopVars, cliVars, TypeOK, CliTypeOK
<1>12. CASE SrvRlink
  BY <1>12 DEF SrvRlink, AttnAnnounced, NotifyToCome, HarvestToCome, InRound, Dead,
     fpgaVars, servVars, loopVars, cliVars, TypeOK, CliTypeOK
<1>13. CASE SrvUnsolicited
  <2>1. spc = "hud" /\ spc' = "attn" /\ ~InRound /\ ~InRound'
    BY <1>13 DEF SrvUnsolicited, InRound
  <2>2. CASE Receive("anot") /\ ProcessAttnNotify(Head(up).pat)
    BY <1>13, <2>1, <2>2, NotifyFollowed DEF SrvUnsolicited, Dead, cliVars
  <2>3. CASE UNCHANGED <<fpgaVars, fAttnNotiPatt>>
    BY <1>13, <2>1, <2>3 DEF SrvUnsolicited, AttnAnnounced, NotifyToCome, HarvestToCome,
         Dead, fpgaVars, cliVars
  <2>. QED BY <1>13, <2>2, <2>3 DEF SrvUnsolicited
<1>14. CASE SrvAttn
  BY <1>14 DEF SrvAttn, AttnAnnounced, NotifyToCome, HarvestToCome, InRound, Dead,
     fpgaVars, servVars, loopVars, cliVars, TypeOK, CliTypeOK
<1>15. CASE SrvMerge
  BY <1>15 DEF SrvMerge, AttnAnnounced, NotifyToCome, HarvestToCome, InRound, Dead,
     fpgaVars, servVars, loopVars, cliVars, TypeOK, CliTypeOK
<1>16. CASE SrvMatch
  BY <1>16 DEF SrvMatch, AttnAnnounced, NotifyToCome, HarvestToCome, InRound, Dead,
     fpgaVars, servVars, loopVars, cliVars, TypeOK, CliTypeOK
<1>17. CASE SrvCallHandler
  <2>1. CalledHdl \in Dev \cup {"none"}
    BY DEF CalledHdl, TypeOK, ServTypeOK, LoopTypeOK
  <2>. QED BY <1>17, <2>1, AttnSent DEF SrvCallHandler, AttnAnnounced
<1>18. CASE SrvCallErased
  BY <1>18 DEF SrvCallErased, AttnAnnounced, NotifyToCome, HarvestToCome, InRound,
     Dead, fpgaVars, servVars, loopVars, cliVars, TypeOK, CliTypeOK
<1>19. CASE SrvNotify
  BY <1>19, NotifyFollowed DEF SrvNotify, TakeNotify, InRound, loopVars, cliVars
<1>20. CASE SrvResponse
  <2>1. NotifyToCome => NotifyToCome'
    BY <1>20, ResponseLeaves DEF SrvResponse, Receive, NotifyToCome, cliVars, TypeOK, CliTypeOK
  <2>2. HarvestToCome => HarvestToCome'
    BY <1>20 DEF SrvResponse, Receive, HarvestToCome, InRound, servVars, loopVars
  <2>. QED BY <1>20, <2>1, <2>2 DEF SrvResponse, Receive, AttnAnnounced, Dead, loopVars
<1>21. CASE SrvHandlerDone
  BY <1>21 DEF SrvHandlerDone, AttnAnnounced, NotifyToCome, HarvestToCome, InRound,
     Dead, fpgaVars, servVars, loopVars, cliVars, TypeOK, CliTypeOK
<1>22. CASE SrvLoopEnd
  BY <1>22 DEF SrvLoopEnd, AttnAnnounced, NotifyToCome, HarvestToCome, InRound, Dead,
     fpgaVars, servVars, loopVars, cliVars, TypeOK, CliTypeOK
<1>23. CASE SrvDefault
  <2>1. CalledHdl \in Dev \cup {"none"}
    BY DEF CalledHdl, TypeOK, ServTypeOK, LoopTypeOK
  <2>. QED BY <1>23, <2>1, AttnSent DEF SrvDefault, AttnAnnounced
<1>24. CASE SrvDefaultDone
  BY <1>24 DEF SrvDefaultDone, AttnAnnounced, NotifyToCome, HarvestToCome, InRound,
     Dead, fpgaVars, servVars, loopVars, cliVars, TypeOK, CliTypeOK
<1>25. CASE SrvAttnEnd
  BY <1>25 DEF SrvAttnEnd, AttnAnnounced, NotifyToCome, HarvestToCome, InRound, Dead,
     fpgaVars, servVars, loopVars, cliVars, TypeOK, CliTypeOK
<1>26. CASE SrvActn
  BY <1>26 DEF SrvActn, AttnAnnounced, NotifyToCome, HarvestToCome, InRound, Dead,
     fpgaVars, servVars, loopVars, cliVars, TypeOK, CliTypeOK
<1>27. CASE SrvCallAction
  <2>1. [typ |-> "req", attn |-> FALSE, anena |-> FALSE, for |-> "none"] \in DownPacket
    BY DEF DownPacket, Request
  <2>2. Range(down) \subseteq Range(down')
    BY <1>27, <2>1, SentStays DEF SrvCallAction, Send
  <2>3. NotifyToCome => NotifyToCome'
    BY <1>27, <2>2 DEF SrvCallAction, Send, NotifyToCome, cliVars, TypeOK, CliTypeOK
  <2>4. HarvestToCome => HarvestToCome'
    BY <1>27, <2>2 DEF SrvCallAction, Send, HarvestToCome, InRound, servVars, loopVars
  <2>. QED BY <1>27, <2>3, <2>4 DEF SrvCallAction, Send, AttnAnnounced, Dead, loopVars
<1>28. CASE SrvActionDone
  BY <1>28 DEF SrvActionDone, AttnAnnounced, NotifyToCome, HarvestToCome, InRound,
     Dead, fpgaVars, servVars, loopVars, cliVars, TypeOK, CliTypeOK
<1>29. ASSUME NEW c \in Client, CliNotify(c) PROVE AttnAnnounced'
  BY <1>29, NotifyFollowed DEF CliNotify, TakeNotify, InRound, loopVars, cliVars
<1>30. ASSUME NEW c \in Client, CliResponse(c) PROVE AttnAnnounced'
  <2>1. NotifyToCome => NotifyToCome'
    BY <1>30, ResponseLeaves DEF CliResponse, Receive, Goto, NotifyToCome, cliVars, TypeOK, CliTypeOK
  <2>2. HarvestToCome => HarvestToCome'
    BY <1>30 DEF CliResponse, Receive, HarvestToCome, InRound, servVars, loopVars
  <2>. QED BY <1>30, <2>1, <2>2 DEF CliResponse, Receive, AttnAnnounced, Dead, loopVars
<1>31. ASSUME NEW c \in Client, CliExecDone(c) PROVE AttnAnnounced'
  BY <1>31 DEF CliExecDone, Goto, AttnAnnounced, NotifyToCome, HarvestToCome, InRound,
     Dead, fpgaVars, servVars, loopVars, cliVars, TypeOK, CliTypeOK
<1>32. ASSUME NEW c \in Client, CliThread(c) PROVE AttnAnnounced'
  <2>1. cpc'[c] = "assign" /\ cctx'[c] = "resume"
    BY <1>32 DEF CliThread, Goto, ResumeInv, TypeOK, CliTypeOK
  <2>. QED BY <2>1 DEF AttnAnnounced, NotifyToCome
<1>33. ASSUME NEW c \in Client, CliAssign(c) PROVE AttnAnnounced'
  <2>1. cpc'[c] = "sndattn" /\ cctx'[c] = "resume"
    BY <1>33 DEF CliAssign, Goto, ResumeInv, TypeOK, CliTypeOK
  <2>. QED BY <2>1 DEF AttnAnnounced, NotifyToCome
<1>34. ASSUME NEW c \in Client, CliSndAttn(c) PROVE AttnAnnounced'
  <2>1. Poll \in Range(down')
    BY <1>34, SentStays DEF CliSndAttn, DownPacket
  <2>. QED BY <2>1 DEF AttnAnnounced, NotifyToCome, Poll
<1>35. ASSUME NEW c \in Client, CliStopWakeup(c) PROVE AttnAnnounced'
  BY <1>35 DEF CliStopWakeup, Goto, AttnAnnounced, NotifyToCome, HarvestToCome,
     InRound, Dead, fpgaVars, servVars, loopVars, cliVars, TypeOK, CliTypeOK
<1>36. ASSUME NEW c \in Client, CliJoin(c) PROVE AttnAnnounced'
  BY <1>36 DEF CliJoin, Goto, AttnAnnounced, NotifyToCome, HarvestToCome, InRound,
     Dead, fpgaVars, servVars, loopVars, cliVars, TypeOK, CliTypeOK
<1>37. ASSUME NEW c \in Client, CliStop(c) PROVE AttnAnnounced'
  BY <1>37 DEF CliStop, Goto, Begin, AttnAnnounced, NotifyToCome, HarvestToCome,
     InRound, Dead, fpgaVars, servVars, loopVars, cliVars, TypeOK, CliTypeOK
<1>38. ASSUME NEW c \in Client, CliWaitAttn(c) PROVE AttnAnnounced'
  <2>1. spc' \in Dead
    BY <1>38, ServerAssumption DEF CliWaitAttn, ThreadInv, LockInv, loopVars
  <2>. QED BY <2>1 DEF AttnAnnounced
<1>39. ASSUME NEW c \in Client, NEW op \in {"exec", "attn"}, CliExec(c, op)
      PROVE  AttnAnnounced'
  <2>1. [typ |-> "req", attn |-> (op = "attn"), anena |-> FALSE, for |-> "none"] \in DownPacket
    BY DEF DownPacket, Request
  <2>2. Range(down) \subseteq Range(down')
    BY <1>39, <2>1, SentStays DEF CliExec, Send
  <2>3. NotifyToCome => NotifyToCome'
    BY <1>39, <2>2 DEF CliExec, Send, Begin, Goto, NotifyToCome, cliVars, TypeOK, CliTypeOK
  <2>4. HarvestToCome => HarvestToCome'
    BY <1>39, <2>2 DEF CliExec, Send, HarvestToCome, InRound, servVars, loopVars
  <2>. QED BY <1>39, <2>3, <2>4 DEF CliExec, Send, AttnAnnounced, Dead, loopVars
<1>40. ASSUME NEW c \in Client, NEW op \in {"start", "resume"}, CliStart(c, op)
      PROVE  AttnAnnounced'
  <2>1. [typ |-> "req", attn |-> (op = "start"), anena |-> TRUE, for |-> "none"] \in DownPacket
    BY DEF DownPacket, Request
  <2>2. Range(down) \subseteq Range(down')
    BY <1>40, <2>1, SentStays DEF CliStart, Send
  <2>3. NotifyToCome => NotifyToCome'
    BY <1>40, <2>2 DEF CliStart, Send, Begin, Goto, NotifyToCome, cliVars, TypeOK, CliTypeOK
  <2>4. HarvestToCome => HarvestToCome'
    BY <1>40, <2>2 DEF CliStart, Send, HarvestToCome, InRound, servVars, loopVars
  <2>. QED BY <1>40, <2>3, <2>4 DEF CliStart, Send, AttnAnnounced, Dead, loopVars
<1>41. ASSUME NEW c \in Client, NEW a \in Actn, CliQueue(c, a)
      PROVE  AttnAnnounced'
  BY <1>41 DEF CliQueue, Begin, AttnAnnounced, NotifyToCome, HarvestToCome, InRound,
     Dead, fpgaVars, servVars, loopVars, cliVars, TypeOK, CliTypeOK
<1>42. ASSUME NEW c \in Client, NEW h \in Dev, CliAddAttn(c, h)
      PROVE  AttnAnnounced'
  BY <1>42 DEF CliAddAttn, Begin, AttnAnnounced, NotifyToCome, HarvestToCome, InRound,
     Dead, fpgaVars, servVars, loopVars, cliVars, TypeOK, CliTypeOK
<1>43. ASSUME NEW c \in Client, NEW k \in DOMAIN fAttnDsc, CliRemoveAttn(c, k)
      PROVE  AttnAnnounced'
  BY <1>43 DEF CliRemoveAttn, Begin, AttnAnnounced, NotifyToCome, HarvestToCome,
     InRound, Dead, fpgaVars, servVars, loopVars, cliVars, TypeOK, CliTypeOK
<1>44. CASE UNCHANGED vars
  BY <1>44 DEF AttnAnnounced, NotifyToCome, HarvestToCome, InRound, fpgaVars,
     connVars, servVars, loopVars, cliVars, vars
<1>. QED
  BY <1>1, <1>2, <1>3, <1>4, <1>5, <1>6, <1>7, <1>8, <1>9, <1>10, <1>11, <1>12, <1>13,
     <1>14, <1>15, <1>16, <1>17, <1>18, <1>19, <1>20, <1>21, <1>22, <1>23, <1>24,
     <1>25, <1>26, <1>27, <1>28, <1>29, <1>30, <1>31, <1>32, <1>33, <1>34, <1>35,
     <1>36, <1>37, <1>38, <1>39, <1>40, <1>41, <1>42, <1>43, <1>44
     DEF Next, FpgaStep, FpgaLink, SrvStep, CliBegin, CliContinue

-----------------------------------------------------------------------------
(* Every attention reaches its handler.                                     *)

\* Handlers registered at start share no attention bit ("works for single lam
\* handlers only", RlinkServer.cpp:484), and the list does not both grow and
\* shrink: a handler that is removed and registered again would find the loop
\* past its place.
DisjointMasks ==
  \A j, k \in DOMAIN InitDsc : j # k => Mask[InitDsc[j]] \cap Mask[InitDsc[k]] = {}
OneWay == ~({"addattn", "rmattn"} \subseteq Ops)

\* A list that has been changed has not become what it was.
FixedInv == \/ fAttnDsc = InitDsc
            \/ "rmattn" \in Ops /\ Len(fAttnDsc) < Len(InitDsc)
            \/ "addattn" \in Ops /\ Len(fAttnDsc) > Len(InitDsc)

\* With removals only the list gets shorter, with additions only longer.
LEMMA FixedStep ==
  ASSUME TypeOK, OneWay, FixedInv, [Next]_vars
  PROVE  FixedInv' /\ (fAttnDsc' = InitDsc => fAttnDsc' = fAttnDsc)
<1>. USE ServerAssumption
<1>0. fAttnDsc \in Seq(Dev) /\ InitDsc \in Seq(Dev)
  BY DEF TypeOK, ServTypeOK
<1>1. ASSUME NEW c \in Client, NEW h \in Dev, CliAddAttn(c, h)
      PROVE  FixedInv' /\ (fAttnDsc' = InitDsc => fAttnDsc' = fAttnDsc)
  <2>1. "addattn" \in Ops /\ fAttnDsc' = Append(fAttnDsc, h)
    BY <1>1 DEF CliAddAttn, Begin
  <2>2. Len(fAttnDsc') = Len(fAttnDsc) + 1 /\ Len(fAttnDsc) \in Nat
    BY <1>0, <2>1, AppendFacts
  <2>3. Len(fAttnDsc) >= Len(InitDsc) /\ Len(InitDsc) \in Nat
    BY <1>0, <2>1 DEF FixedInv, OneWay
  <2>. QED BY <2>1, <2>2, <2>3 DEF FixedInv
<1>2. ASSUME NEW c \in Client, NEW k \in DOMAIN fAttnDsc, CliRemoveAttn(c, k)
      PROVE  FixedInv' /\ (fAttnDsc' = InitDsc => fAttnDsc' = fAttnDsc)
  <2>1. "rmattn" \in Ops /\ fAttnDsc' = RemoveAt(fAttnDsc, k)
    BY <1>2 DEF CliRemoveAttn, Begin
  <2>2. Len(fAttnDsc') = Len(fAttnDsc) - 1 /\ Len(fAttnDsc) \in Nat
    <3>1. k \in 1..Len(fAttnDsc) /\ Len(fAttnDsc) \in Nat
      BY <1>0
    <3>2. /\ SubSeq(fAttnDsc, 1, k - 1) \in Seq(Dev)
          /\ Len(SubSeq(fAttnDsc, 1, k - 1)) = k - 1
          /\ SubSeq(fAttnDsc, k + 1, Len(fAttnDsc)) \in Seq(Dev)
          /\ Len(SubSeq(fAttnDsc, k + 1, Len(fAttnDsc))) = Len(fAttnDsc) - k
      BY <1>0, <3>1
    <3>3. \A p, q \in Seq(Dev) : Len(p \o q) = Len(p) + Len(q)
      OBVIOUS
    <3>4. Len(RemoveAt(fAttnDsc, k)) = (k - 1) + (Len(fAttnDsc) - k)
      BY <3>2, <3>3 DEF RemoveAt
    <3>. QED BY <2>1, <3>1, <3>4
  <2>3. Len(fAttnDsc) <= Len(InitDsc) /\ Len(InitDsc) \in Nat
    BY <1>0, <2>1, <2>2 DEF FixedInv, OneWay
  <2>. QED BY <2>1, <2>2, <2>3 DEF FixedInv
<1>3. CASE fAttnDsc' = fAttnDsc
  BY <1>3 DEF FixedInv
<1>. QED
  BY <1>1, <1>2, <1>3
     DEF Next, FpgaStep, FpgaLink, SrvStep, CliBegin, CliContinue, vars, servVars,
         DevRaise, FpgaReadAttn, FpgaFinishList, SrvTop, SrvPoll, SrvWakeup, SrvRlink,
         SrvUnsolicited, SrvAttn, SrvMerge, SrvMatch, SrvCallHandler, SrvCallErased,
         SrvNotify, TakeNotify, SrvResponse, SrvHandlerDone, SrvLoopEnd, SrvDefault,
         SrvDefaultDone, SrvAttnEnd, SrvActn, SrvCallAction, SrvActionDone, CliNotify,
         CliResponse, CliExecDone, CliThread, CliAssign, CliSndAttn, CliStopWakeup,
         CliJoin, CliStop, CliWaitAttn, CliExec, CliStart, CliQueue

\* The server is about to call a handler or in its call.
Calling == \/ spc = "hcall"
           \/ spc \in {"wait", "acc"} /\ ctx = "hdl"

\* The server is in the default handling.
Defaulting == \/ spc = "dcall"
              \/ spc \in {"wait", "acc"} /\ ctx = "dflt"

\* What the handler loop knows.  Only registered handlers are owed a call; the
\* match is that of the handler in the list; the bits of the handlers passed are
\* done; the default handling has no bit of a handler; and a device whose list
\* has been executed has raised again if its handler is owed a call.
RoundInv ==
  fAttnDsc = InitDsc =>
    /\ req \subseteq Range(InitDsc)
    /\ Calling => i \in DOMAIN InitDsc /\ hmatch = fAttnPatt \cap Mask[InitDsc[i]]
    /\ Calling \/ spc = "loop" =>
         \A k \in DOMAIN InitDsc :
            k < i => fAttnPatt \cap Mask[InitDsc[k]] \subseteq hdone
    /\ Defaulting => \A k \in DOMAIN InitDsc : fAttnPatt \cap Mask[InitDsc[k]] = {}
    /\ spc \in {"wait", "acc"} /\ ctx = "hdl" /\ InitDsc[i] \in req =>
         \/ attn \cap Mask[InitDsc[i]] # {}
         \/ \E k \in DOMAIN down : IsReq(down[k])

\* The server does not move in its round, and nobody is owed more.
LEMMA RoundQuiet ==
  ASSUME RoundInv, fAttnDsc' = fAttnDsc, req' \subseteq req,
         spc' \in {"loop", "hcall", "dcall", "wait", "acc"} =>
            UNCHANGED <<spc, ctx, i, hmatch, hdone, fAttnPatt, attn, down>>
  PROVE  RoundInv'
<1>. SUFFICES ASSUME fAttnDsc = InitDsc PROVE RoundInv'
  BY DEF RoundInv
<1>1. req' \subseteq Range(InitDsc)
  BY DEF RoundInv
<1>2. CASE spc' \in {"loop", "hcall", "dcall", "wait", "acc"}
  BY <1>1, <1>2 DEF RoundInv, Calling, Defaulting, IsReq
<1>3. CASE spc' \notin {"loop", "hcall", "dcall", "wait", "acc"}
  BY <1>1, <1>3 DEF RoundInv, Calling, Defaulting
<1>. QED BY <1>2, <1>3


\* The handler loop keeps its account of what it has called.
LEMMA RoundStep ==
  ASSUME TypeOK, LockInv, ListInv, OwnList, OneWay, FixedInv, RoundInv, [Next]_vars
  PROVE  RoundInv'
<1>1. ASSUME NEW b \in Lam, DevRaise(b) PROVE RoundInv'
  <2>1. UNCHANGED <<spc, ctx, i, hmatch, hdone, fAttnPatt, fAttnDsc, down>>
    BY <1>1 DEF DevRaise, RaiseLam, servVars, loopVars
  <2>2. attn' = attn \cup {b}
    BY <1>1 DEF DevRaise, RaiseLam
  <2>3. req' = req \cup {h \in Range(fAttnDsc) : b \in Mask[h]}
    BY <1>1 DEF DevRaise
  <2>. SUFFICES ASSUME fAttnDsc = InitDsc PROVE RoundInv'
    BY <2>1 DEF RoundInv
  <2>4. req' \subseteq Range(InitDsc)
    BY <2>3 DEF RoundInv
  <2>5. \A h : h \in req' => h \in req \/ b \in attn' \cap Mask[h]
    BY <2>2, <2>3
  <2>6. \A h : attn \cap Mask[h] # {} => attn' \cap Mask[h] # {}
    BY <2>2
  <2>7. spc' \in {"wait", "acc"} /\ ctx' = "hdl" /\ InitDsc[i'] \in req' =>
         \/ attn' \cap Mask[InitDsc[i']] # {}
         \/ \E k \in DOMAIN down' : IsReq(down'[k])
    BY <2>1, <2>5, <2>6 DEF RoundInv
  <2>. QED BY <2>1, <2>4, <2>7 DEF RoundInv, Calling, Defaulting, IsReq
<1>2. CASE FpgaReadAttn
  <2>1. UNCHANGED <<spc, ctx, i, hmatch, hdone, fAttnPatt, fAttnDsc, down>>
    BY <1>2 DEF FpgaReadAttn, ReadAttn, servVars, loopVars
  <2>2. req' \subseteq req
    BY <1>2 DEF FpgaReadAttn
  <2>3. \E k \in DOMAIN down' : IsReq(down'[k])
    <3>1. down # <<>> /\ IsReq(Head(down))
      BY <1>2 DEF FpgaReadAttn, ReadAttn, ListInv
    <3>2. 1 \in DOMAIN down /\ Head(down) = down[1]
      BY <3>1, TailFacts DEF TypeOK, AttnTypeOK
    <3>. QED BY <2>1, <3>1, <3>2
  <2>. SUFFICES ASSUME fAttnDsc = InitDsc PROVE RoundInv'
    BY <2>1 DEF RoundInv
  <2>. QED BY <2>1, <2>2, <2>3 DEF RoundInv, Calling, Defaulting
<1>3. CASE FpgaFinishList
  <2>1. UNCHANGED <<spc, ctx, i, hmatch, hdone, fAttnPatt, fAttnDsc, attn, hdl>>
    BY <1>3 DEF FpgaFinishList, FinishList, servVars, loopVars
  <2>2. req' = req \ {Head(down).for}
    BY <1>3 DEF FpgaFinishList
  <2>. SUFFICES ASSUME fAttnDsc = InitDsc PROVE RoundInv'
    BY <2>1 DEF RoundInv
  <2>3. req' \subseteq Range(InitDsc)
    BY <2>2 DEF RoundInv
  <2>4. ASSUME spc \in {"wait", "acc"}, ctx = "hdl" PROVE InitDsc[i] \notin req'
    <3>1. 1 \in DOMAIN down /\ Head(down) = down[1] /\ IsReq(down[1])
      BY <1>3, TailFacts DEF FpgaFinishList, FinishList, ListInv, TypeOK, AttnTypeOK
    <3>2. Waiting
      BY <3>1 DEF ListInv
    <3>3. spc = "wait"
      BY <2>4, <3>2, ServerAssumption DEF Waiting, LockInv
    <3>4. Head(down).for = CalledHdl
      BY <2>4, <3>1, <3>3 DEF OwnList
    <3>5. CalledHdl = InitDsc[i]
      BY <2>4, ServerAssumption DEF RoundInv, Calling, CalledHdl
    <3>. QED BY <2>2, <3>4, <3>5
  <2>. QED BY <2>1, <2>3, <2>4 DEF RoundInv, Calling, Defaulting
<1>4. CASE FpgaLink /\ AcceptPoll
  <2>1. UNCHANGED <<spc, ctx, i, hmatch, hdone, fAttnPatt, fAttnDsc, attn, req>>
    BY <1>4 DEF FpgaLink, AcceptPoll, servVars, loopVars
  <2>2. ASSUME NEW k \in DOMAIN down, IsReq(down[k])
        PROVE  \E j \in DOMAIN down' : IsReq(down'[j])
    <3>1. /\ Len(down) \in Nat /\ Len(down) >= 1
          /\ DOMAIN down = 1..Len(down) /\ DOMAIN down' = 1..(Len(down) - 1)
          /\ Head(down) = down[1] /\ ~IsReq(down[1])
          /\ \A j \in 1..(Len(down) - 1) : down'[j] = down[j + 1]
      BY <1>4, TailFacts DEF FpgaLink, AcceptPoll, TypeOK, AttnTypeOK, IsReq
    <3>2. k - 1 \in DOMAIN down' /\ down'[k - 1] = down[k]
      BY <2>2, <3>1
    <3>. QED BY <2>2, <3>2
  <2>. SUFFICES ASSUME fAttnDsc = InitDsc PROVE RoundInv'
    BY <2>1 DEF RoundInv
  <2>. QED BY <2>1, <2>2 DEF RoundInv, Calling, Defaulting
<1>5. CASE SrvMerge
  <2>1. UNCHANGED <<fAttnDsc, req>> /\ i' = 1 /\ spc' = "loop"
    BY <1>5 DEF SrvMerge
  <2>2. \A k \in DOMAIN InitDsc : ~(k < i')
    BY <2>1, ServerAssumption
  <2>. QED BY <2>1, <2>2 DEF RoundInv, Calling, Defaulting
<1>6. CASE SrvMatch
  <2>1. UNCHANGED <<fAttnDsc, req, fAttnPatt, hdone, attn, down>>
    BY <1>6 DEF SrvMatch, servVars, fpgaVars
  <2>. SUFFICES ASSUME fAttnDsc = InitDsc PROVE RoundInv'
    BY <2>1 DEF RoundInv
  <2>2. i \in Nat /\ i >= 1 /\ i \in DOMAIN InitDsc
    BY <1>6, ServerAssumption DEF SrvMatch, TypeOK, LoopTypeOK
  <2>3. hmatch' = fAttnPatt \cap Mask[InitDsc[i]]
    BY <1>6 DEF SrvMatch
  <2>4. CASE hmatch' # {} /\ spc' = "hcall" /\ i' = i
    BY <1>6, <2>1, <2>2, <2>3, <2>4 DEF SrvMatch, RoundInv, Calling, Defaulting
  <2>5. CASE hmatch' = {} /\ spc' = "loop" /\ i' = i + 1
    <3>1. \A k \in DOMAIN InitDsc : k < i' => k < i \/ k = i
      BY <2>2, <2>5, ServerAssumption
    <3>2. \A k \in DOMAIN InitDsc :
            k < i' => fAttnPatt \cap Mask[InitDsc[k]] \subseteq hdone
      BY <1>6, <3>1, <2>3, <2>5 DEF SrvMatch, RoundInv
    <3>. QED BY <2>1, <2>5, <3>2 DEF RoundInv, Calling, Defaulting
  <2>. QED BY <1>6, <2>4, <2>5 DEF SrvMatch
<1>7. CASE SrvCallHandler
  <2>1. /\ UNCHANGED <<fAttnDsc, req, fAttnPatt, hdone, hmatch, i>>
        /\ spc = "hcall" /\ spc' = "wait" /\ ctx' = "hdl"
    BY <1>7 DEF SrvCallHandler, servVars
  <2>2. \E k \in DOMAIN down' : IsReq(down'[k])
    <3>1. CalledHdl \in Dev \cup {"none"}
      BY DEF CalledHdl, TypeOK, ServTypeOK, LoopTypeOK
    <3>2. [typ |-> "req", attn |-> TRUE, anena |-> FALSE, for |-> CalledHdl] \in DownPacket
      BY <3>1 DEF DownPacket, Request
    <3>. QED BY <1>7, <3>2, SentStays DEF SrvCallHandler, Send, Range, IsReq
  <2>. SUFFICES ASSUME fAttnDsc = InitDsc PROVE RoundInv'
    BY <2>1 DEF RoundInv
  <2>. QED BY <2>1, <2>2 DEF RoundInv, Calling, Defaulting
<1>8. CASE SrvResponse
  <2>1. /\ UNCHANGED <<fAttnDsc, req, fAttnPatt, hdone, hmatch, i, ctx, attn, down>>
        /\ spc = "wait" /\ spc' = "acc"
    BY <1>8 DEF SrvResponse, Receive, servVars
  <2>. SUFFICES ASSUME fAttnDsc = InitDsc PROVE RoundInv'
    BY <2>1 DEF RoundInv
  <2>. QED BY <2>1 DEF RoundInv, Calling, Defaulting, IsReq
<1>9. CASE SrvHandlerDone
  <2>1. /\ UNCHANGED <<fAttnDsc, req, fAttnPatt>> /\ hdone' = hdone \cup hmatch
        /\ spc = "acc" /\ ctx = "hdl" /\ spc' = "loop" /\ i' = i + 1
    BY <1>9 DEF SrvHandlerDone
  <2>. SUFFICES ASSUME fAttnDsc = InitDsc PROVE RoundInv'
    BY <2>1 DEF RoundInv
  <2>2. i \in DOMAIN InitDsc /\ hmatch = fAttnPatt \cap Mask[InitDsc[i]]
    BY <2>1 DEF RoundInv, Calling
  <2>3. \A k \in DOMAIN InitDsc : k < i' => k < i \/ k = i
    BY <2>1, <2>2, ServerAssumption
  <2>4. \A k \in DOMAIN InitDsc :
            k < i' => fAttnPatt \cap Mask[InitDsc[k]] \subseteq hdone'
    BY <2>1, <2>2, <2>3 DEF RoundInv, Calling
  <2>. QED BY <2>1, <2>4 DEF RoundInv, Calling, Defaulting
<1>10. CASE SrvLoopEnd
  <2>1. /\ UNCHANGED <<fAttnDsc, req>> /\ fAttnPatt' = fAttnPatt \ hdone
        /\ spc = "loop" /\ i > Len(fAttnDsc) /\ spc' \in {"dcall", "fin"}
    BY <1>10 DEF SrvLoopEnd
  <2>. SUFFICES ASSUME fAttnDsc = InitDsc PROVE RoundInv'
    BY <2>1 DEF RoundInv
  <2>2. \A k \in DOMAIN InitDsc : k < i
    BY <2>1, ServerAssumption DEF TypeOK, LoopTypeOK
  <2>3. \A k \in DOMAIN InitDsc : fAttnPatt' \cap Mask[InitDsc[k]] = {}
    BY <2>1, <2>2 DEF RoundInv
  <2>. QED BY <2>1, <2>3 DEF RoundInv, Calling, Defaulting
<1>11. CASE SrvDefault
  <2>1. /\ UNCHANGED <<fAttnDsc, req, fAttnPatt>>
        /\ spc = "dcall" /\ spc' = "wait" /\ ctx' = "dflt"
    BY <1>11 DEF SrvDefault, servVars
  <2>. SUFFICES ASSUME fAttnDsc = InitDsc PROVE RoundInv'
    BY <2>1 DEF RoundInv
  <2>. QED BY <2>1 DEF RoundInv, Calling, Defaulting
<1>12. CASE SrvCallAction
  <2>1. /\ UNCHANGED <<fAttnDsc, req>>
        /\ spc' = "wait" /\ ctx' = "actn"
    BY <1>12 DEF SrvCallAction, servVars
  <2>. QED BY <2>1 DEF RoundInv, Calling, Defaulting
<1>13. ASSUME NEW c \in Client, CliThread(c) PROVE RoundInv'
  <2>1. spc' = "top"
    BY <1>13 DEF CliThread
  <2>. QED BY <1>13, <2>1, RoundQuiet DEF CliThread
<1>14. ASSUME NEW c \in Client, CliSndAttn(c) PROVE RoundInv'
  <2>1. spc' \notin {"wait", "acc"}
    BY <1>14, ServerAssumption DEF CliSndAttn, LockInv, loopVars
  <2>2. /\ UNCHANGED <<fAttnDsc, req, fAttnPatt, hdone, hmatch, i, ctx, attn, spc>>
    BY <1>14 DEF CliSndAttn, servVars, loopVars
  <2>. SUFFICES ASSUME fAttnDsc = InitDsc PROVE RoundInv'
    BY <2>2 DEF RoundInv
  <2>. QED BY <2>1, <2>2 DEF RoundInv, Calling, Defaulting
<1>15. ASSUME NEW c \in Client, NEW op \in {"exec", "attn"}, CliExec(c, op)
      PROVE  RoundInv'
  <2>1. spc' \notin {"wait", "acc"}
    BY <1>15, ServerAssumption DEF CliExec, Send, LockInv, loopVars
  <2>2. /\ UNCHANGED <<fAttnDsc, req, fAttnPatt, hdone, hmatch, i, ctx, attn, spc>>
    BY <1>15 DEF CliExec, Send, servVars, loopVars
  <2>. SUFFICES ASSUME fAttnDsc = InitDsc PROVE RoundInv'
    BY <2>2 DEF RoundInv
  <2>. QED BY <2>1, <2>2 DEF RoundInv, Calling, Defaulting
<1>16. ASSUME NEW c \in Client, NEW op \in {"start", "resume"}, CliStart(c, op)
      PROVE  RoundInv'
  <2>1. spc' \notin {"wait", "acc"}
    BY <1>16, ServerAssumption DEF CliStart, Send, LockInv, loopVars
  <2>2. /\ UNCHANGED <<fAttnDsc, req, fAttnPatt, hdone, hmatch, i, ctx, attn, spc>>
    BY <1>16 DEF CliStart, Send, servVars, loopVars
  <2>. SUFFICES ASSUME fAttnDsc = InitDsc PROVE RoundInv'
    BY <2>2 DEF RoundInv
  <2>. QED BY <2>1, <2>2 DEF RoundInv, Calling, Defaulting
<1>17. ASSUME NEW c \in Client, NEW h \in Dev, CliAddAttn(c, h)
      PROVE  RoundInv'
  <2>1. fAttnDsc' = InitDsc => fAttnDsc' = fAttnDsc
    BY FixedStep
  <2>2. Len(Append(fAttnDsc, h)) = Len(fAttnDsc) + 1 /\ Len(fAttnDsc) \in Nat
    BY AppendFacts DEF TypeOK, ServTypeOK
  <2>3. fAttnDsc' # fAttnDsc
    BY <1>17, <2>2 DEF CliAddAttn
  <2>. QED BY <2>1, <2>3 DEF RoundInv
<1>18. ASSUME NEW c \in Client, NEW k \in DOMAIN fAttnDsc, CliRemoveAttn(c, k)
      PROVE  RoundInv'
  <2>1. spc' \notin {"wait", "acc"} /\ req' \subseteq req
    BY <1>18 DEF CliRemoveAttn, LockInv, loopVars
  <2>2. fAttnDsc' = InitDsc => fAttnDsc' = fAttnDsc
    BY FixedStep
  <2>3. CASE fAttnDsc' = fAttnDsc
    BY <1>18, <2>1, <2>3, RoundQuiet DEF CliRemoveAttn, fpgaVars, loopVars
  <2>. QED BY <2>2, <2>3 DEF RoundInv
<1>19. CASE /\ fAttnDsc' = fAttnDsc /\ req' \subseteq req
            /\ spc' \in {"loop", "hcall", "dcall", "wait", "acc"} =>
                  UNCHANGED <<spc, ctx, i, hmatch, hdone, fAttnPatt, attn, down>>
  BY <1>19, RoundQuiet
<1>. QED
  BY <1>1, <1>2, <1>3, <1>4, <1>5, <1>6, <1>7, <1>8, <1>9, <1>10, <1>11, <1>12, <1>13,
      <1>14, <1>15, <1>16, <1>17, <1>18, <1>19
     DEF Next, FpgaStep, FpgaLink, SrvStep, CliBegin, CliContinue, RequestNotify,
         StartNotify, SendNotify, AcceptList, SrvTop, SrvPoll, SrvWakeup, SrvRlink,
         SrvUnsolicited, SrvAttn, SrvCallErased, SrvNotify, TakeNotify, Receive,
         SrvDefaultDone, SrvAttnEnd, SrvActn, SrvActionDone, CliNotify, CliResponse,
         CliExecDone, CliAssign, CliStopWakeup, CliJoin, CliStop, CliWaitAttn,
         CliQueue, fpgaVars, connVars, servVars, loopVars, cliVars, vars

\* What a harvest under way consists of.
InTransit(b) ==
  \/ lstate = "tail" /\ b \in harv
  \/ \E k \in DOMAIN up : IsResp(up[k]) /\ b \in up[k].pat
  \/ spc = "acc" /\ b \in rsp

\* The patterns of the responses in a queue.
LEMMA UnionIs ==
  ASSUME NEW u, NEW b
  PROVE  b \in UNION {p.pat : p \in {q \in Range(u) : q.typ = "resp"}}
         <=> \E k \in DOMAIN u : IsResp(u[k]) /\ b \in u[k].pat
<1>. DEFINE R == {q \in Range(u) : q.typ = "resp"}
<1>1. ASSUME b \in UNION {p.pat : p \in R}
      PROVE  \E k \in DOMAIN u : IsResp(u[k]) /\ b \in u[k].pat
  <2>1. PICK p \in R : b \in p.pat
    BY <1>1
  <2>2. PICK k \in DOMAIN u : p = u[k]
    BY <2>1 DEF Range
  <2>. QED BY <2>1, <2>2 DEF IsResp
<1>2. ASSUME NEW k \in DOMAIN u, IsResp(u[k]), b \in u[k].pat
      PROVE  b \in UNION {p.pat : p \in R}
  <2>1. u[k] \in R
    BY <1>2 DEF Range, IsResp
  <2>. QED BY <1>2, <2>1
<1>. QED BY <1>1, <1>2

\* The set and the description agree, before and after a step.
LEMMA TransitIs ==
  /\ \A b : b \in HarvestInTransit <=> InTransit(b)
  /\ \A b : b \in HarvestInTransit' <=> InTransit(b)'
<1>1. ASSUME NEW b PROVE b \in HarvestInTransit <=> InTransit(b)
  <2>. DEFINE U == UNION {p.pat : p \in {q \in Range(up) : q.typ = "resp"}}
  <2>1. b \in U <=> \E k \in DOMAIN up : IsResp(up[k]) /\ b \in up[k].pat
    BY UnionIs
  <2>2. HarvestInTransit = (IF lstate = "tail" THEN harv ELSE {}) \cup U
                           \cup (IF spc = "acc" THEN rsp ELSE {})
    BY DEF HarvestInTransit
  <2>. HIDE DEF U
  <2>. QED BY <2>1, <2>2 DEF InTransit, IsResp
<1>2. ASSUME NEW b PROVE b \in HarvestInTransit' <=> InTransit(b)'
  <2>. DEFINE U == UNION {p.pat : p \in {q \in Range(up') : q.typ = "resp"}}
  <2>1. b \in U <=> \E k \in DOMAIN up' : IsResp(up'[k]) /\ b \in up'[k].pat
    BY UnionIs
  <2>2. HarvestInTransit' = (IF lstate' = "tail" THEN harv' ELSE {}) \cup U
                           \cup (IF spc' = "acc" THEN rsp' ELSE {})
    BY DEF HarvestInTransit
  <2>. HIDE DEF U
  <2>. QED BY <2>1, <2>2 DEF InTransit, IsResp
<1>. QED BY <1>1, <1>2

\* Handler h is not forgotten.
Safe(h) ==
  \/ Mask[h] \cap (attn \cup Kept \cup HarvestKept) # {}
  \/ CallToCome(h)
  \/ ReadToCome(h)

\* What keeps a handler safe may grow.
LEMMA SafeGrows ==
  ASSUME NEW h, Safe(h), attn \subseteq attn', Kept \subseteq Kept',
         HarvestKept \subseteq HarvestKept', CallToCome(h) => CallToCome(h)',
         ReadToCome(h) => ReadToCome(h)'
  PROVE  Safe(h)'
BY DEF Safe

\* The server stays where it is.
LEMMA LostSame ==
  ASSUME NoAttnLost, UNCHANGED <<spc, ctx, i, hdl, hnext, fAttnPatt, fAttnDsc>>,
         fAttnNotiPatt \subseteq fAttnNotiPatt', attn \subseteq attn',
         Harvesting => \A b : InTransit(b) => InTransit(b)',
         \A h \in req' : h \in req \/ Mask[h] \cap attn' # {},
         \A h \in req' : ReadToCome(h) => ReadToCome(h)'
  PROVE  NoAttnLost'
<1>. SUFFICES ASSUME fAttnDsc = InitDsc, NEW h \in req' PROVE Safe(h)'
  BY DEF NoAttnLost, Safe
<1>1. Kept \subseteq Kept'
  BY DEF Kept, InRound
<1>2. HarvestKept \subseteq HarvestKept'
  BY TransitIs DEF HarvestKept, Harvesting, CalledHdl
<1>3. CallToCome(h) => CallToCome(h)'
  BY DEF CallToCome, InRound
<1>4. CASE h \in req
  <2>1. Safe(h)
    BY <1>4 DEF NoAttnLost, Safe
  <2>. QED BY <1>1, <1>2, <1>3, <2>1, SafeGrows
<1>5. CASE Mask[h] \cap attn' # {}
  BY <1>5 DEF Safe
<1>. QED BY <1>4, <1>5

\* The server is outside CallAttnHandler() and stays there.
LEMMA LostOutside ==
  ASSUME NoAttnLost, ~InRound, ~InRound', UNCHANGED <<fAttnPatt, fAttnDsc, attn>>,
         fAttnNotiPatt \subseteq fAttnNotiPatt', req' \subseteq req,
         Range(down) \subseteq Range(down')
  PROVE  NoAttnLost'
<1>. SUFFICES ASSUME fAttnDsc = InitDsc, NEW h \in req' PROVE Safe(h)'
  BY DEF NoAttnLost, Safe
<1>1. Safe(h)
  BY DEF NoAttnLost, Safe
<1>2. Kept \subseteq Kept'
  BY DEF Kept
<1>3. HarvestKept = {}
  BY DEF HarvestKept, Harvesting, InRound
<1>4. ~CallToCome(h)
  BY DEF CallToCome
<1>5. ReadToCome(h) => ReadToCome(h)'
  BY DEF ReadToCome
<1>. QED BY <1>1, <1>2, <1>3, <1>4, <1>5, SafeGrows


\* A notify that is read leaves the harvest alone.
LEMMA NotifyKeepsTransit ==
  ASSUME TypeOK, Receive("anot"), UNCHANGED <<spc, rsp>>, NEW b, InTransit(b)
  PROVE  InTransit(b)'
<1>1. CASE \E k \in DOMAIN up : IsResp(up[k]) /\ b \in up[k].pat
  <2>1. PICK k \in DOMAIN up : IsResp(up[k]) /\ b \in up[k].pat
    BY <1>1
  <2>2. k - 1 \in DOMAIN up' /\ up'[k - 1] = up[k]
    BY <2>1, NotifyRead DEF IsResp
  <2>. QED BY <2>1, <2>2 DEF InTransit, IsResp
<1>2. CASE (lstate = "tail" /\ b \in harv) \/ (spc = "acc" /\ b \in rsp)
  BY <1>2 DEF InTransit, Receive
<1>. QED BY <1>1, <1>2 DEF InTransit


\* No step of device, FPGA, server or client makes the server forget a
\* handler that is owed a call.
LEMMA LostStep ==
  ASSUME TypeOK, LockInv, ListInv, OwnList, StarterInv, DisjointMasks, OneWay,
         FixedInv, RoundInv, NoAttnLost, [Next]_vars
  PROVE  NoAttnLost'
<1>1. ASSUME NEW b \in Lam, DevRaise(b) PROVE NoAttnLost'
  <2>1. UNCHANGED <<spc, ctx, i, hdl, hnext, fAttnPatt, fAttnDsc, rsp, lstate, harv, up,
                     fAttnNotiPatt, down>>
    BY <1>1 DEF DevRaise, RaiseLam, servVars, loopVars
  <2>2. attn \subseteq attn' /\ \A h \in req' : h \in req \/ Mask[h] \cap attn' # {}
    BY <1>1 DEF DevRaise, RaiseLam
  <2>. QED BY <2>1, <2>2, LostSame DEF InTransit, IsResp, ReadToCome
<1>2. CASE FpgaReadAttn
  <2>. SUFFICES ASSUME fAttnDsc' = InitDsc, NEW h \in req' PROVE Safe(h)'
    BY DEF NoAttnLost, Safe
  <2>1. UNCHANGED <<spc, ctx, i, hdl, hnext, fAttnPatt, fAttnDsc, rsp, up, fAttnNotiPatt,
                     down, lock>>
    BY <1>2 DEF FpgaReadAttn, ReadAttn, servVars, loopVars, connVars
  <2>2. harv' = attn /\ lstate = "list" /\ lstate' = "tail"
    BY <1>2 DEF FpgaReadAttn, ReadAttn
  <2>3. lock = "srv" /\ h \in req
    BY <1>2 DEF FpgaReadAttn
  <2>4. fAttnDsc = InitDsc /\ Safe(h)
    BY <2>1, <2>3 DEF NoAttnLost, Safe
  <2>5. 1 \in DOMAIN down /\ Head(down) = down[1] /\ IsReq(down[1]) /\ down[1].attn
    BY <2>2, TailFacts DEF ListInv, TypeOK, AttnTypeOK
  <2>6. spc = "wait"
    <3>1. Waiting
      BY <2>5 DEF ListInv
    <3>. QED BY <2>3, <3>1, ServerAssumption DEF Waiting, LockInv
  <2>7. ctx # "actn" /\ down[1].for = IF ctx = "hdl" THEN CalledHdl ELSE "none"
    BY <2>5, <2>6 DEF OwnList
  <2>8. CallToCome(h) => CallToCome(h)'
    BY <2>1 DEF CallToCome, InRound
  <2>9. ReadToCome(h) => ReadToCome(h)'
    BY <2>1 DEF ReadToCome
  <2>10. Kept \subseteq Kept'
    BY <2>1 DEF Kept, InRound
  <2>11. HarvestKept \subseteq HarvestKept'
    <3>1. \A b : InTransit(b) => InTransit(b)'
      BY <2>1, <2>2 DEF InTransit, IsResp
    <3>. QED BY <2>1, <3>1, TransitIs DEF HarvestKept, Harvesting, CalledHdl
  <2>12. ASSUME NEW b \in Mask[h] \cap attn PROVE Safe(h)'
    <3>1. InTransit(b)'
      BY <2>2 DEF InTransit
    <3>2. PICK k \in DOMAIN InitDsc : h = InitDsc[k]
      BY <2>3, <2>4 DEF RoundInv, Range
    <3>3. CASE ctx = "dflt"
      <4>1. b \notin fAttnPatt
        BY <2>4, <2>6, <3>2, <3>3 DEF RoundInv, Defaulting
      <4>2. b \in HarvestKept'
        BY <2>1, <2>6, <3>1, <3>3, <4>1, TransitIs DEF HarvestKept, Harvesting
      <4>. QED BY <4>2 DEF Safe
    <3>4. CASE ctx = "hdl"
      <4>1. i \in DOMAIN InitDsc /\ CalledHdl = InitDsc[i]
        BY <2>4, <2>6, <3>4, ServerAssumption DEF RoundInv, Calling, CalledHdl
      <4>2. CASE k = i
        <5>1. down[1] \in Range(down') /\ down[1].typ = "req" /\ down[1].for = h
          BY <2>1, <2>5, <2>7, <3>2, <3>4, <4>1, <4>2 DEF Range, IsReq
        <5>. QED BY <5>1 DEF Safe, ReadToCome
      <4>3. CASE k # i
        <5>1. b \notin Mask[CalledHdl]
          BY <3>2, <4>1, <4>3 DEF DisjointMasks
        <5>2. CalledHdl' = CalledHdl
          BY <2>1 DEF CalledHdl
        <5>3. b \in HarvestKept'
          BY <2>1, <2>6, <3>1, <3>4, <5>1, <5>2, TransitIs DEF HarvestKept, Harvesting
        <5>. QED BY <5>3 DEF Safe
      <4>. QED BY <4>2, <4>3
    <3>. QED BY <2>7, <3>3, <3>4 DEF TypeOK, LoopTypeOK
  <2>13. CASE Mask[h] \cap (Kept \cup HarvestKept) # {}
    BY <2>10, <2>11, <2>13 DEF Safe
  <2>. QED BY <2>4, <2>8, <2>9, <2>12, <2>13 DEF Safe
<1>3. CASE FpgaFinishList
  <2>1. UNCHANGED <<spc, ctx, i, hdl, hnext, fAttnPatt, fAttnDsc, rsp, attn, fAttnNotiPatt>>
    BY <1>3 DEF FpgaFinishList, FinishList, servVars, loopVars
  <2>2. req' = req \ {Head(down).for}
    BY <1>3 DEF FpgaFinishList
  <2>3. \A h \in req' : ReadToCome(h) => ReadToCome(h)'
    <3>1. \A r \in Range(down) : r \in Range(down') \/ r = Head(down)
      BY <1>3, TailFacts DEF FpgaFinishList, FinishList, TypeOK, AttnTypeOK
    <3>. QED BY <2>2, <3>1 DEF ReadToCome
  <2>4. ASSUME NEW b, InTransit(b) PROVE InTransit(b)'
    <3>1. /\ DOMAIN up = 1..Len(up) /\ Len(up) \in Nat
          /\ DOMAIN up' = 1..(Len(up) + 1)
          /\ \A k \in 1..Len(up) : up'[k] = up[k]
          /\ up'[Len(up) + 1] = Response(harv)
      <4>1. Response(harv) \in UpPacket
        BY DEF TypeOK, AttnTypeOK, Response, UpPacket
      <4>2. up' = Append(up, Response(harv)) /\ up \in Seq(UpPacket)
        BY <1>3 DEF FpgaFinishList, FinishList, TypeOK, AttnTypeOK
      <4>. QED BY <4>1, <4>2, AppendFacts
    <3>2. CASE b \in harv
      <4>1. Len(up) + 1 \in DOMAIN up' /\ IsResp(up'[Len(up) + 1])
              /\ b \in up'[Len(up) + 1].pat
        BY <3>1, <3>2 DEF IsResp, Response
      <4>. QED BY <4>1 DEF InTransit, IsResp
    <3>3. ASSUME NEW k \in DOMAIN up, IsResp(up[k]), b \in up[k].pat PROVE InTransit(b)'
      <4>1. k \in DOMAIN up' /\ up'[k] = up[k]
        BY <3>1
      <4>. QED BY <3>3, <4>1 DEF InTransit, IsResp
    <3>4. CASE spc = "acc" /\ b \in rsp
      BY <2>1, <3>4 DEF InTransit
    <3>. QED BY <2>4, <3>2, <3>3, <3>4 DEF InTransit
  <2>. QED BY <2>1, <2>2, <2>3, <2>4, LostSame
<1>4. CASE FpgaLink /\ RequestNotify
  <2>1. UNCHANGED <<spc, ctx, i, hdl, hnext, fAttnPatt, fAttnDsc, rsp, lstate, harv, up,
                     fAttnNotiPatt, attn, req>>
    BY <1>4 DEF RequestNotify, FpgaLink, fpgaVars, servVars, loopVars
  <2>2. Range(down) \subseteq Range(down')
    BY <1>4 DEF RequestNotify, FpgaLink, fpgaVars, servVars, loopVars
  <2>. QED BY <2>1, <2>2, LostSame DEF InTransit, IsResp, ReadToCome
<1>5. CASE FpgaLink /\ StartNotify
  <2>1. UNCHANGED <<spc, ctx, i, hdl, hnext, fAttnPatt, fAttnDsc, rsp, attn, fAttnNotiPatt,
                     req>>
    BY <1>5 DEF FpgaLink, StartNotify, servVars, loopVars
  <2>2. \A h \in req' : ReadToCome(h) => ReadToCome(h)'
    BY <1>5 DEF FpgaLink, StartNotify, ReadToCome
  <2>3. Harvesting => \A b : InTransit(b) => InTransit(b)'
    BY <1>5, <2>1 DEF FpgaLink, StartNotify, InTransit, IsResp
  <2>. QED BY <2>1, <2>2, <2>3, LostSame
<1>6. CASE FpgaLink /\ AcceptPoll
  <2>1. UNCHANGED <<spc, ctx, i, hdl, hnext, fAttnPatt, fAttnDsc, rsp, attn, fAttnNotiPatt,
                     req>>
    BY <1>6 DEF FpgaLink, AcceptPoll, servVars, loopVars
  <2>2. \A h \in req' : ReadToCome(h) => ReadToCome(h)'
    <3>1. \A r \in Range(down) : r \in Range(down') \/ r = Head(down)
      BY <1>6, TailFacts DEF FpgaLink, AcceptPoll, TypeOK, AttnTypeOK
    <3>2. Head(down).typ # "req"
      BY <1>6 DEF FpgaLink, AcceptPoll
    <3>. QED BY <3>1, <3>2 DEF ReadToCome
  <2>3. Harvesting => \A b : InTransit(b) => InTransit(b)'
    BY <1>6, <2>1 DEF FpgaLink, AcceptPoll, InTransit, IsResp
  <2>. QED BY <2>1, <2>2, <2>3, LostSame
<1>7. CASE FpgaLink /\ SendNotify
  <2>1. UNCHANGED <<spc, ctx, i, hdl, hnext, fAttnPatt, fAttnDsc, rsp, attn, fAttnNotiPatt,
                     req>>
    BY <1>7 DEF FpgaLink, SendNotify, servVars, loopVars
  <2>2. \A h \in req' : ReadToCome(h) => ReadToCome(h)'
    BY <1>7 DEF FpgaLink, SendNotify, ReadToCome
  <2>3. Harvesting => \A b : InTransit(b) => InTransit(b)'
    <3>1. \A k \in DOMAIN up : k \in DOMAIN up' /\ up'[k] = up[k]
      <4>1. Notify(attn) \in UpPacket
        BY DEF TypeOK, AttnTypeOK, Notify, UpPacket
      <4>2. up' = Append(up, Notify(attn)) /\ up \in Seq(UpPacket)
        BY <1>7 DEF FpgaLink, SendNotify, TypeOK, AttnTypeOK
      <4>. QED BY <4>1, <4>2, AppendFacts
    <3>2. harv' = harv /\ lstate = "anot"
      BY <1>7 DEF FpgaLink, SendNotify
    <3>. QED BY <2>1, <3>1, <3>2 DEF InTransit, IsResp
  <2>. QED BY <2>1, <2>2, <2>3, LostSame
<1>8. CASE FpgaLink /\ AcceptList
  <2>1. UNCHANGED <<spc, ctx, i, hdl, hnext, fAttnPatt, fAttnDsc, rsp, attn, fAttnNotiPatt,
                     req>>
    BY <1>8 DEF FpgaLink, AcceptList, servVars, loopVars
  <2>2. \A h \in req' : ReadToCome(h) => ReadToCome(h)'
    BY <1>8 DEF FpgaLink, AcceptList, ReadToCome
  <2>3. Harvesting => \A b : InTransit(b) => InTransit(b)'
    BY <1>8, <2>1 DEF FpgaLink, AcceptList, InTransit, IsResp
  <2>. QED BY <2>1, <2>2, <2>3, LostSame
<1>9. CASE SrvTop
  BY <1>9, LostOutside DEF SrvTop, InRound, fpgaVars, servVars
<1>10. CASE SrvPoll
  BY <1>10, LostOutside DEF SrvPoll, InRound, fpgaVars, servVars
<1>11. CASE SrvWakeup
  BY <1>11, LostOutside DEF SrvWakeup, InRound, fpgaVars, servVars
<1>12. CASE SrvRlink
  BY <1>12, LostOutside DEF SrvRlink, InRound, fpgaVars, servVars
<1>13. CASE SrvUnsolicited
  <2>1. /\ UNCHANGED <<fAttnPatt, fAttnDsc, attn, req, down>>
        /\ fAttnNotiPatt \subseteq fAttnNotiPatt'
    BY <1>13 DEF SrvUnsolicited, Receive, ProcessAttnNotify, fpgaVars
  <2>. QED BY <1>13, <2>1, LostOutside DEF SrvUnsolicited, InRound
<1>14. CASE SrvAttn
  BY <1>14, LostOutside DEF SrvAttn, InRound, fpgaVars, servVars
<1>15. CASE SrvMerge
  <2>. SUFFICES ASSUME fAttnDsc' = InitDsc, NEW h \in req' PROVE Safe(h)'
    BY DEF NoAttnLost, Safe
  <2>1. UNCHANGED <<fAttnDsc, attn, req, down>> /\ spc = "merge" /\ spc' = "loop" /\ i' = 1
    BY <1>15 DEF SrvMerge, fpgaVars
  <2>2. fAttnPatt' = fAttnPatt \cup fAttnNotiPatt
    BY <1>15 DEF SrvMerge
  <2>3. Safe(h)
    BY <2>1 DEF NoAttnLost, Safe
  <2>4. Kept = fAttnPatt' /\ HarvestKept = {} /\ ~CallToCome(h)
    BY <2>1, <2>2 DEF Kept, HarvestKept, Harvesting, InRound, CallToCome
  <2>5. PICK k \in DOMAIN InitDsc : h = InitDsc[k]
    BY <2>1 DEF RoundInv, Range
  <2>6. k >= i'
    BY <2>1, <2>5, ServerAssumption
  <2>7. CASE Mask[h] \cap attn # {}
    BY <2>1, <2>7 DEF Safe
  <2>8. CASE Mask[h] \cap fAttnPatt' # {}
    BY <2>1, <2>5, <2>6, <2>8 DEF Safe, CallToCome, InRound
  <2>9. CASE ReadToCome(h)
    BY <2>1, <2>9 DEF Safe, ReadToCome
  <2>. QED BY <2>3, <2>4, <2>7, <2>8, <2>9 DEF Safe
<1>16. CASE SrvMatch
  <2>. SUFFICES ASSUME fAttnDsc' = InitDsc, NEW h \in req' PROVE Safe(h)'
    BY DEF NoAttnLost, Safe
  <2>1. /\ UNCHANGED <<fAttnDsc, attn, req, down, fAttnPatt, fAttnNotiPatt, hnext>>
        /\ spc = "loop" /\ spc' \in {"loop", "hcall"}
    BY <1>16 DEF SrvMatch, fpgaVars, servVars
  <2>2. Safe(h)
    BY <2>1 DEF NoAttnLost, Safe
  <2>3. Kept \subseteq Kept' /\ HarvestKept = {}
    BY <2>1 DEF Kept, HarvestKept, Harvesting, InRound
  <2>4. CallToCome(h) => CallToCome(h)'
    <3>1. SUFFICES ASSUME CallToCome(h) PROVE CallToCome(h)'
      OBVIOUS
    <3>2. PICK k \in DOMAIN fAttnDsc : fAttnDsc[k] = h /\ k >= i
      BY <2>1, <3>1 DEF CallToCome
    <3>3. fAttnPatt \cap Mask[h] # {}
      BY <3>1 DEF CallToCome
    <3>4. k >= i'
      <4>1. k \in Nat /\ i \in Nat
        BY <3>2 DEF TypeOK, ServTypeOK, LoopTypeOK
      <4>2. k = i => i' = i
        BY <1>16, <3>2, <3>3 DEF SrvMatch
      <4>3. i' = i \/ i' = i + 1
        BY <1>16 DEF SrvMatch
      <4>. QED BY <3>2, <4>1, <4>2, <4>3
    <3>. QED BY <2>1, <3>2, <3>3, <3>4 DEF CallToCome, InRound
  <2>5. ReadToCome(h) => ReadToCome(h)'
    BY <2>1 DEF ReadToCome
  <2>. QED BY <2>1, <2>2, <2>3, <2>4, <2>5, SafeGrows
<1>17. CASE SrvCallHandler
  <2>. SUFFICES ASSUME fAttnDsc' = InitDsc, NEW h \in req' PROVE Safe(h)'
    BY DEF NoAttnLost, Safe
  <2>1. /\ UNCHANGED <<fAttnDsc, attn, req, fAttnPatt, fAttnNotiPatt, hnext, i>>
        /\ spc = "hcall" /\ spc' = "wait" /\ ctx' = "hdl"
    BY <1>17 DEF SrvCallHandler, Send, servVars
  <2>2. Safe(h)
    BY <2>1 DEF NoAttnLost, Safe
  <2>3. Kept \subseteq Kept' /\ HarvestKept = {}
    BY <2>1 DEF Kept, HarvestKept, Harvesting, InRound
  <2>. DEFINE r == [typ |-> "req", attn |-> TRUE, anena |-> FALSE, for |-> CalledHdl]
  <2>4. r \in Range(down') /\ Range(down) \subseteq Range(down')
    <3>1. CalledHdl \in Dev \cup {"none"}
      BY DEF CalledHdl, TypeOK, ServTypeOK, LoopTypeOK
    <3>2. r \in DownPacket
      BY <3>1 DEF DownPacket, Request
    <3>. QED BY <1>17, <3>2, SentStays DEF SrvCallHandler, Send
  <2>5. ASSUME CallToCome(h) PROVE Safe(h)'
    <3>1. PICK k \in DOMAIN fAttnDsc : fAttnDsc[k] = h /\ k >= i
      BY <2>1, <2>5 DEF CallToCome
    <3>2. CASE k = i
      <4>1. CalledHdl = h
        BY <3>1, <3>2 DEF CalledHdl, TypeOK, ServTypeOK
      <4>. QED BY <2>4, <4>1 DEF Safe, ReadToCome
    <3>3. CASE k # i
      <4>1. k > i
        BY <3>1, <3>3 DEF TypeOK, ServTypeOK, LoopTypeOK
      <4>. QED BY <2>1, <2>5, <3>1, <4>1 DEF Safe, CallToCome, InRound
    <3>. QED BY <3>2, <3>3
  <2>6. ReadToCome(h) => ReadToCome(h)'
    BY <2>4 DEF ReadToCome
  <2>. QED BY <2>1, <2>2, <2>3, <2>5, <2>6 DEF Safe
<1>18. CASE SrvCallErased
  <2>1. fAttnDsc' = fAttnDsc /\ spc = "hcall" /\ i > Len(fAttnDsc)
    BY <1>18 DEF SrvCallErased, servVars
  <2>2. fAttnDsc' # InitDsc
    <3>. SUFFICES ASSUME fAttnDsc = InitDsc PROVE FALSE
      BY <2>1
    <3>1. i \in 1..Len(InitDsc) /\ Len(InitDsc) \in Nat
      BY <2>1, ServerAssumption DEF RoundInv, Calling
    <3>. QED BY <2>1, <3>1
  <2>. QED BY <2>2 DEF NoAttnLost
<1>19. CASE SrvNotify
  <2>1. /\ UNCHANGED <<spc, ctx, i, hdl, hnext, fAttnPatt, fAttnDsc, rsp, attn, req, down,
                         lstate, harv>>
        /\ Receive("anot") /\ fAttnNotiPatt \subseteq fAttnNotiPatt'
    BY <1>19 DEF SrvNotify, TakeNotify, Receive, ProcessAttnNotify, loopVars
  <2>2. \A b : InTransit(b) => InTransit(b)'
    BY <2>1, NotifyKeepsTransit
  <2>. QED BY <2>1, <2>2, LostSame DEF ReadToCome
<1>20. CASE SrvResponse
  <2>1. /\ UNCHANGED <<fAttnDsc, attn, req, fAttnPatt, fAttnNotiPatt, hnext, i, hdl, ctx, down>>
        /\ spc = "wait" /\ spc' = "acc" /\ rsp' = Head(up).pat
    BY <1>20 DEF SrvResponse, Receive, servVars
  <2>2. CASE ctx = "actn"
    BY <2>1, <2>2, LostOutside DEF InRound
  <2>3. CASE ctx # "actn"
    <3>. SUFFICES ASSUME fAttnDsc' = InitDsc, NEW h \in req' PROVE Safe(h)'
      BY DEF NoAttnLost, Safe
    <3>1. Safe(h)
      BY <2>1 DEF NoAttnLost, Safe
    <3>2. Kept \subseteq Kept'
      BY <2>1 DEF Kept, InRound
    <3>3. ASSUME NEW b, InTransit(b) PROVE InTransit(b)'
      <4>1. /\ Head(up) = up[1] /\ lstate # "tail"
            /\ \A k \in DOMAIN up : IsResp(up[k]) => k = 1
        <5>1. Receive("resp")
          BY <1>20 DEF SrvResponse
        <5>2. 1 \in DOMAIN up /\ Head(up) = up[1] /\ lstate # "tail"
          BY <5>1, ResponseRead
        <5>3. IsResp(up[1])
          BY <5>1, <5>2 DEF Receive, IsResp
        <5>. QED BY <5>2, <5>3 DEF ListInv
      <4>. QED BY <2>1, <3>3, <4>1 DEF InTransit
    <3>4. HarvestKept \subseteq HarvestKept'
      BY <2>1, <3>3, TransitIs DEF HarvestKept, Harvesting, CalledHdl
    <3>5. CallToCome(h) => CallToCome(h)'
      BY <2>1 DEF CallToCome, InRound
    <3>6. ReadToCome(h) => ReadToCome(h)'
      BY <2>1 DEF ReadToCome
    <3>. QED BY <2>1, <3>1, <3>2, <3>4, <3>5, <3>6, SafeGrows
  <2>. QED BY <2>2, <2>3
<1>21. CASE SrvHandlerDone
  <2>. SUFFICES ASSUME fAttnDsc' = InitDsc, NEW h \in req' PROVE Safe(h)'
    BY DEF NoAttnLost, Safe
  <2>1. /\ UNCHANGED <<fAttnDsc, attn, req, fAttnPatt, fAttnNotiPatt, down>> /\ i' = i + 1
        /\ spc = "acc" /\ ctx = "hdl" /\ spc' = "loop"
    BY <1>21 DEF SrvHandlerDone, fpgaVars
  <2>2. hnext' = (hnext \cup (rsp \ Mask[CalledHdl])) \ hmatch
    BY <1>21 DEF SrvHandlerDone, HarvestOthers
  <2>3. Safe(h)
    BY <2>1 DEF NoAttnLost, Safe
  <2>4. /\ \A b : InTransit(b) => b \in rsp
        /\ \A k \in DOMAIN down : ~IsReq(down[k])
        /\ \A g \in Dev : ~ReadToCome(g)
    <3>1. ~Waiting
      BY <2>1, ServerAssumption DEF Waiting, LockInv
    <3>2. lstate # "tail"
      <4>1. down # <<>> => Head(down) = down[1] /\ 1 \in DOMAIN down
        BY TailFacts DEF TypeOK, AttnTypeOK
      <4>. QED BY <4>1, <3>1 DEF ListInv
    <3>3. \A k \in DOMAIN down : ~IsReq(down[k])
      BY <3>1 DEF ListInv
    <3>4. \A b : InTransit(b) => b \in rsp
      BY <3>1, <3>2 DEF InTransit, ListInv
    <3>. QED BY <3>3, <3>4 DEF ReadToCome, Range, IsReq
  <2>5. /\ i \in DOMAIN InitDsc /\ CalledHdl = InitDsc[i]
        /\ hmatch = fAttnPatt \cap Mask[InitDsc[i]]
    BY <2>1, ServerAssumption DEF RoundInv, Calling, CalledHdl
  <2>6. PICK k \in DOMAIN InitDsc : h = InitDsc[k]
    BY <2>1 DEF RoundInv, Range
  <2>7. Kept' = fAttnNotiPatt \cup hnext'
    BY <2>1 DEF Kept, InRound
  <2>8. CASE h = InitDsc[i]
    <3>1. attn \cap Mask[h] # {}
      BY <2>1, <2>4, <2>8 DEF RoundInv
    <3>. QED BY <2>1, <3>1 DEF Safe
  <2>9. CASE h # InitDsc[i]
    <3>1. Mask[h] \cap Mask[CalledHdl] = {} /\ Mask[h] \cap hmatch = {}
      BY <2>5, <2>6, <2>9 DEF DisjointMasks
    <3>2. Kept = fAttnNotiPatt \cup hnext
      BY <2>1 DEF Kept, InRound
    <3>3. HarvestKept \subseteq rsp \ Mask[CalledHdl]
      BY <2>1, <2>4, TransitIs DEF HarvestKept, Harvesting
    <3>4. CASE Mask[h] \cap (attn \cup Kept \cup HarvestKept) # {}
      <4>1. PICK b \in Mask[h] : b \in attn \/ b \in fAttnNotiPatt \/ b \in hnext \/ b \in rsp
        BY <3>2, <3>3, <3>4
      <4>2. b \in attn' \cup Kept'
        BY <2>1, <2>2, <2>7, <3>1, <4>1
      <4>. QED BY <4>1, <4>2 DEF Safe
    <3>5. CASE CallToCome(h)
      <4>1. PICK j \in DOMAIN fAttnDsc : fAttnDsc[j] = h /\ j > i
        BY <2>1, <3>5 DEF CallToCome
      <4>2. j >= i'
        BY <2>1, <4>1 DEF TypeOK, ServTypeOK, LoopTypeOK
      <4>. QED BY <2>1, <3>5, <4>1, <4>2 DEF Safe, CallToCome, InRound
    <3>6. h \in Dev
      BY <2>6, ServerAssumption
    <3>. QED BY <2>3, <2>4, <3>4, <3>5, <3>6 DEF Safe
  <2>. QED BY <2>8, <2>9
<1>22. CASE SrvLoopEnd
  <2>. SUFFICES ASSUME fAttnDsc' = InitDsc, NEW h \in req' PROVE Safe(h)'
    BY DEF NoAttnLost, Safe
  <2>1. /\ UNCHANGED <<fAttnDsc, attn, req, fAttnNotiPatt, hnext, down>>
        /\ spc = "loop" /\ i > Len(fAttnDsc) /\ spc' \in {"dcall", "fin"}
    BY <1>22 DEF SrvLoopEnd, fpgaVars
  <2>2. Safe(h)
    BY <2>1 DEF NoAttnLost, Safe
  <2>3. Kept \subseteq Kept' /\ HarvestKept = {}
    BY <2>1 DEF Kept, HarvestKept, Harvesting, InRound
  <2>4. ~CallToCome(h)
    BY <2>1 DEF CallToCome, TypeOK, ServTypeOK, LoopTypeOK
  <2>5. ReadToCome(h) => ReadToCome(h)'
    BY <2>1 DEF ReadToCome
  <2>. QED BY <2>1, <2>2, <2>3, <2>4, <2>5, SafeGrows
<1>23. CASE SrvDefault
  <2>. SUFFICES ASSUME fAttnDsc' = InitDsc, NEW h \in req' PROVE Safe(h)'
    BY DEF NoAttnLost, Safe
  <2>1. /\ UNCHANGED <<fAttnDsc, attn, req, fAttnPatt, fAttnNotiPatt, hnext>>
        /\ spc = "dcall" /\ spc' = "wait" /\ ctx' = "dflt"
    BY <1>23 DEF SrvDefault, Send, servVars
  <2>2. Safe(h)
    BY <2>1 DEF NoAttnLost, Safe
  <2>3. Kept \subseteq Kept' /\ HarvestKept = {} /\ ~CallToCome(h)
    BY <2>1 DEF Kept, HarvestKept, Harvesting, InRound, CallToCome
  <2>4. ReadToCome(h) => ReadToCome(h)'
    <3>1. [typ |-> "req", attn |-> TRUE, anena |-> FALSE, for |-> "none"] \in DownPacket
      BY DEF DownPacket, Request
    <3>2. Range(down) \subseteq Range(down')
      BY <1>23, <3>1, SentStays DEF SrvDefault, Send
    <3>. QED BY <3>2 DEF ReadToCome
  <2>. QED BY <2>1, <2>2, <2>3, <2>4, SafeGrows
<1>24. CASE SrvDefaultDone
  <2>. SUFFICES ASSUME fAttnDsc' = InitDsc, NEW h \in req' PROVE Safe(h)'
    BY DEF NoAttnLost, Safe
  <2>1. /\ UNCHANGED <<fAttnDsc, attn, req, fAttnPatt, fAttnNotiPatt, down>>
        /\ spc = "acc" /\ ctx = "dflt" /\ spc' = "fin"
    BY <1>24 DEF SrvDefaultDone, servVars, fpgaVars
  <2>2. hnext' = hnext \cup (rsp \ fAttnPatt)
    BY <1>24 DEF SrvDefaultDone
  <2>3. Safe(h)
    BY <2>1 DEF NoAttnLost, Safe
  <2>4. /\ \A b : InTransit(b) => b \in rsp
        /\ \A k \in DOMAIN down : ~IsReq(down[k])
        /\ \A g \in Dev : ~ReadToCome(g)
    <3>1. ~Waiting
      BY <2>1, ServerAssumption DEF Waiting, LockInv
    <3>2. lstate # "tail"
      <4>1. down # <<>> => Head(down) = down[1] /\ 1 \in DOMAIN down
        BY TailFacts DEF TypeOK, AttnTypeOK
      <4>. QED BY <4>1, <3>1 DEF ListInv
    <3>3. \A k \in DOMAIN down : ~IsReq(down[k])
      BY <3>1 DEF ListInv
    <3>4. \A b : InTransit(b) => b \in rsp
      BY <3>1, <3>2 DEF InTransit, ListInv
    <3>. QED BY <3>3, <3>4 DEF ReadToCome, Range, IsReq
  <2>5. ~CallToCome(h)
    BY <2>1 DEF CallToCome
  <2>6. Kept \cup HarvestKept \subseteq Kept'
    <3>1. HarvestKept \subseteq rsp \ fAttnPatt
      BY <2>1, <2>4, TransitIs DEF HarvestKept, Harvesting
    <3>. QED BY <2>1, <2>2, <3>1 DEF Kept, InRound
  <2>7. ReadToCome(h) => ReadToCome(h)'
    BY <2>1 DEF ReadToCome
  <2>. QED BY <2>1, <2>3, <2>5, <2>6, <2>7 DEF Safe
<1>25. CASE SrvAttnEnd
  <2>. SUFFICES ASSUME fAttnDsc' = InitDsc, NEW h \in req' PROVE Safe(h)'
    BY DEF NoAttnLost, Safe
  <2>1. /\ UNCHANGED <<fAttnDsc, attn, req, fAttnNotiPatt, down>> /\ fAttnPatt' = hnext
        /\ spc = "fin" /\ spc' = "actn"
    BY <1>25 DEF SrvAttnEnd, fpgaVars
  <2>2. Safe(h)
    BY <2>1 DEF NoAttnLost, Safe
  <2>3. Kept \subseteq Kept' /\ HarvestKept = {} /\ ~CallToCome(h)
    BY <2>1 DEF Kept, HarvestKept, Harvesting, InRound, CallToCome
  <2>4. ReadToCome(h) => ReadToCome(h)'
    BY <2>1 DEF ReadToCome
  <2>. QED BY <2>1, <2>2, <2>3, <2>4, SafeGrows
<1>26. CASE SrvActn
  BY <1>26, LostOutside DEF SrvActn, InRound, fpgaVars, servVars
<1>27. CASE SrvCallAction
  <2>1. [typ |-> "req", attn |-> FALSE, anena |-> FALSE, for |-> "none"] \in DownPacket
    BY DEF DownPacket, Request
  <2>2. Range(down) \subseteq Range(down')
    BY <1>27, <2>1, SentStays DEF SrvCallAction, Send
  <2>. QED BY <1>27, <2>2, LostOutside DEF SrvCallAction, Send, InRound, servVars
<1>28. CASE SrvActionDone
  BY <1>28, LostOutside DEF SrvActionDone, InRound, fpgaVars
<1>29. ASSUME NEW c \in Client, CliNotify(c) PROVE NoAttnLost'
  <2>1. /\ UNCHANGED <<spc, ctx, i, hdl, hnext, fAttnPatt, fAttnDsc, rsp, attn, req, down,
                         lstate, harv>>
        /\ Receive("anot") /\ fAttnNotiPatt \subseteq fAttnNotiPatt'
    BY <1>29 DEF CliNotify, TakeNotify, Receive, ProcessAttnNotify, loopVars
  <2>2. \A b : InTransit(b) => InTransit(b)'
    BY <2>1, NotifyKeepsTransit
  <2>. QED BY <2>1, <2>2, LostSame DEF ReadToCome
<1>30. ASSUME NEW c \in Client, CliResponse(c) PROVE NoAttnLost'
  <2>1. /\ UNCHANGED <<spc, ctx, i, hdl, hnext, fAttnPatt, fAttnDsc, rsp, attn, req, down,
                         fAttnNotiPatt>>
    BY <1>30 DEF CliResponse, Receive, servVars, loopVars
  <2>2. ~Harvesting
    BY <1>30, ServerAssumption DEF CliResponse, Harvesting, LockInv
  <2>. QED BY <2>1, <2>2, LostSame DEF ReadToCome
<1>31. ASSUME NEW c \in Client, CliExecDone(c) PROVE NoAttnLost'
  <2>1. UNCHANGED <<spc, ctx, i, hdl, hnext, fAttnPatt, fAttnDsc, rsp, lstate, harv, up,
                     fAttnNotiPatt, attn, req>>
    BY <1>31 DEF CliExecDone, fpgaVars, servVars, loopVars
  <2>2. Range(down) \subseteq Range(down')
    BY <1>31 DEF CliExecDone, fpgaVars, servVars, loopVars
  <2>. QED BY <2>1, <2>2, LostSame DEF InTransit, IsResp, ReadToCome
<1>32. ASSUME NEW c \in Client, CliThread(c) PROVE NoAttnLost'
  <2>1. spc \in Dead
    BY <1>32 DEF CliThread, StarterInv
  <2>. QED BY <1>32, <2>1, LostOutside DEF CliThread, InRound, Dead, fpgaVars
<1>33. ASSUME NEW c \in Client, CliAssign(c) PROVE NoAttnLost'
  <2>1. UNCHANGED <<spc, ctx, i, hdl, hnext, fAttnPatt, fAttnDsc, rsp, lstate, harv, up,
                     fAttnNotiPatt, attn, req>>
    BY <1>33 DEF CliAssign, fpgaVars, servVars, loopVars
  <2>2. Range(down) \subseteq Range(down')
    BY <1>33 DEF CliAssign, fpgaVars, servVars, loopVars
  <2>. QED BY <2>1, <2>2, LostSame DEF InTransit, IsResp, ReadToCome
<1>34. ASSUME NEW c \in Client, CliSndAttn(c) PROVE NoAttnLost'
  <2>1. UNCHANGED <<spc, ctx, i, hdl, hnext, fAttnPatt, fAttnDsc, rsp, lstate, harv, up,
                     fAttnNotiPatt, attn, req>>
    BY <1>34 DEF CliSndAttn, fpgaVars, servVars, loopVars
  <2>2. Range(down) \subseteq Range(down')
    BY <1>34, SentStays DEF CliSndAttn, DownPacket
  <2>. QED BY <2>1, <2>2, LostSame DEF InTransit, IsResp, ReadToCome
<1>35. ASSUME NEW c \in Client, CliStopWakeup(c) PROVE NoAttnLost'
  <2>1. UNCHANGED <<spc, ctx, i, hdl, hnext, fAttnPatt, fAttnDsc, rsp, lstate, harv, up,
                     fAttnNotiPatt, attn, req>>
    BY <1>35 DEF CliStopWakeup, fpgaVars, servVars, loopVars
  <2>2. Range(down) \subseteq Range(down')
    BY <1>35 DEF CliStopWakeup, fpgaVars, servVars, loopVars
  <2>. QED BY <2>1, <2>2, LostSame DEF InTransit, IsResp, ReadToCome
<1>36. ASSUME NEW c \in Client, CliJoin(c) PROVE NoAttnLost'
  BY <1>36, LostOutside DEF CliJoin, InRound, fpgaVars
<1>37. ASSUME NEW c \in Client, CliStop(c) PROVE NoAttnLost'
  <2>1. UNCHANGED <<spc, ctx, i, hdl, hnext, fAttnPatt, fAttnDsc, rsp, lstate, harv, up,
                     fAttnNotiPatt, attn, req>>
    BY <1>37 DEF CliStop, fpgaVars, servVars, loopVars
  <2>2. Range(down) \subseteq Range(down')
    BY <1>37 DEF CliStop, fpgaVars, servVars, loopVars
  <2>. QED BY <2>1, <2>2, LostSame DEF InTransit, IsResp, ReadToCome
<1>38. ASSUME NEW c \in Client, CliWaitAttn(c) PROVE NoAttnLost'
  <2>1. /\ UNCHANGED <<spc, ctx, i, hdl, hnext, fAttnPatt, fAttnDsc, rsp, attn, req, down,
                         fAttnNotiPatt>>
    BY <1>38 DEF CliWaitAttn, Receive, fpgaVars, servVars, loopVars
  <2>2. ~Harvesting
    BY <1>38 DEF CliWaitAttn, Harvesting, LockInv
  <2>. QED BY <2>1, <2>2, LostSame DEF ReadToCome
<1>39. ASSUME NEW c \in Client, NEW op \in {"exec", "attn"}, CliExec(c, op)
      PROVE  NoAttnLost'
  <2>1. UNCHANGED <<spc, ctx, i, hdl, hnext, fAttnPatt, fAttnDsc, rsp, lstate, harv, up,
                     fAttnNotiPatt, attn, req>>
    BY <1>39 DEF CliExec, Send, fpgaVars, servVars, loopVars
  <2>2. Range(down) \subseteq Range(down')
    <3>1. [typ |-> "req", attn |-> (op = "attn"), anena |-> FALSE, for |-> "none"] \in DownPacket
      BY DEF DownPacket, Request
    <3>. QED BY <1>39, <3>1, SentStays DEF CliExec, Send
  <2>. QED BY <2>1, <2>2, LostSame DEF InTransit, IsResp, ReadToCome
<1>40. ASSUME NEW c \in Client, NEW op \in {"start", "resume"}, CliStart(c, op)
      PROVE  NoAttnLost'
  <2>1. UNCHANGED <<spc, ctx, i, hdl, hnext, fAttnPatt, fAttnDsc, rsp, lstate, harv, up,
                     fAttnNotiPatt, attn, req>>
    BY <1>40 DEF CliStart, Send, fpgaVars, servVars, loopVars
  <2>2. Range(down) \subseteq Range(down')
    <3>1. [typ |-> "req", attn |-> (op = "start"), anena |-> TRUE, for |-> "none"] \in DownPacket
      BY DEF DownPacket, Request
    <3>. QED BY <1>40, <3>1, SentStays DEF CliStart, Send
  <2>. QED BY <2>1, <2>2, LostSame DEF InTransit, IsResp, ReadToCome
<1>41. ASSUME NEW c \in Client, NEW a \in Actn, CliQueue(c, a)
      PROVE  NoAttnLost'
  <2>1. UNCHANGED <<spc, ctx, i, hdl, hnext, fAttnPatt, fAttnDsc, rsp, lstate, harv, up,
                     fAttnNotiPatt, attn, req>>
    BY <1>41 DEF CliQueue, fpgaVars, servVars, loopVars
  <2>2. Range(down) \subseteq Range(down')
    BY <1>41 DEF CliQueue, fpgaVars, servVars, loopVars
  <2>. QED BY <2>1, <2>2, LostSame DEF InTransit, IsResp, ReadToCome
<1>42. ASSUME NEW c \in Client, NEW h \in Dev, CliAddAttn(c, h)
      PROVE  NoAttnLost'
  <2>1. fAttnDsc' = InitDsc => fAttnDsc' = fAttnDsc
    BY FixedStep
  <2>2. Len(Append(fAttnDsc, h)) = Len(fAttnDsc) + 1 /\ Len(fAttnDsc) \in Nat
    BY AppendFacts DEF TypeOK, ServTypeOK
  <2>3. fAttnDsc' # fAttnDsc
    BY <1>42, <2>2 DEF CliAddAttn
  <2>. QED BY <2>1, <2>3 DEF NoAttnLost
<1>43. ASSUME NEW c \in Client, NEW k \in DOMAIN fAttnDsc, CliRemoveAttn(c, k)
      PROVE  NoAttnLost'
  <2>1. fAttnDsc' = InitDsc => fAttnDsc' = fAttnDsc
    BY FixedStep
  <2>2. CASE fAttnDsc' = fAttnDsc
    <3>1. UNCHANGED <<spc, ctx, i, hdl, hnext, fAttnPatt, fAttnDsc, rsp, lstate, harv, up,
                       fAttnNotiPatt, attn, down>> /\ req' \subseteq req
      BY <1>43, <2>2 DEF CliRemoveAttn, fpgaVars, loopVars
    <3>. QED BY <3>1, LostSame DEF InTransit, IsResp, ReadToCome
  <2>. QED BY <2>1, <2>2 DEF NoAttnLost
<1>44. CASE UNCHANGED vars
  BY <1>44, LostSame DEF InTransit, IsResp, ReadToCome, fpgaVars, connVars, servVars,
     loopVars, cliVars, vars
<1>. QED
  BY <1>1, <1>2, <1>3, <1>4, <1>5, <1>6, <1>7, <1>8, <1>9, <1>10, <1>11, <1>12, <1>13,
     <1>14, <1>15, <1>16, <1>17, <1>18, <1>19, <1>20, <1>21, <1>22, <1>23, <1>24,
     <1>25, <1>26, <1>27, <1>28, <1>29, <1>30, <1>31, <1>32, <1>33, <1>34, <1>35,
     <1>36, <1>37, <1>38, <1>39, <1>40, <1>41, <1>42, <1>43, <1>44
     DEF Next, FpgaStep, FpgaLink, SrvStep, CliBegin, CliContinue

-----------------------------------------------------------------------------
(* Attentions, for every behaviour.                                         *)

\* There is one list on the link at a time, and it is that of the thread that
\* holds the lock (RlinkConnect::Exec(), RlinkServer::CallAttnHandler()).
THEOREM OneListAtATime == Spec => [](ListInv /\ OwnList /\ StarterInv)
<1>1. Init => ListInv /\ OwnList /\ StarterInv
  BY ServerAssumption DEF Init, AttnInit, ListInv, OwnList, StarterInv
<1>2. /\ TypeOK /\ LockInv /\ ThreadInv /\ ListInv /\ OwnList /\ StarterInv /\ [Next]_vars
      => (ListInv /\ OwnList /\ StarterInv)'
  BY ListStep, OwnStep, StarterStep
<1>. QED BY <1>1, <1>2, TypeCorrect, LockDiscipline, PTL DEF Spec

\* For servers that are resumed and not started, any number of clients, lines and
\* handlers and any change of the handler list: while the FPGA is mute after a
\* notify, an attn command is certain to follow (rlink_core.vhd arpend,
\* RlinkServer::SignalAttnNotify(), CallAttnHandler(), Resume()).
THEOREM NotifyAnswered ==
  ASSUME "start" \notin Ops
  PROVE  Spec => []AttnAnnounced
<1>1. Init => ResumeInv /\ AttnAnnounced
  BY ServerAssumption DEF Init, ResumeInv, AttnAnnounced, Dead
<1>2. (/\ TypeOK /\ LockInv /\ ThreadInv /\ PendingHasAttn /\ ListInv
       /\ ResumeInv /\ AttnAnnounced /\ [Next]_vars)
      => (ResumeInv /\ AttnAnnounced)'
  BY ResumeStep, AnnouncedStep
<1>. QED
  BY <1>1, <1>2, TypeCorrect, LockDiscipline, NotifyHasCause, OneListAtATime, PTL DEF Spec

\* For any number of handlers that share no bit, lines, clients and actions, and
\* any start, stop and resume: no attention is lost on its way from the FPGA
\* through notifies and the harvests of other handlers to its own handler
\* (RlinkServer::CallAttnHandler(), RlinkConnect::ProcessAttnNotify()).
THEOREM AttentionKept ==
  ASSUME DisjointMasks, OneWay
  PROVE  Spec => []NoAttnLost
<1>1. Init => FixedInv /\ RoundInv /\ NoAttnLost
  BY DEF Init, FixedInv, RoundInv, NoAttnLost, Calling, Defaulting
<1>2. (/\ TypeOK /\ LockInv /\ ListInv /\ OwnList /\ StarterInv
       /\ FixedInv /\ RoundInv /\ NoAttnLost /\ [Next]_vars)
      => (FixedInv /\ RoundInv /\ NoAttnLost)'
  BY FixedStep, RoundStep, LostStep
<1>. QED BY <1>1, <1>2, TypeCorrect, LockDiscipline, OneListAtATime, PTL DEF Spec

=============================================================================
