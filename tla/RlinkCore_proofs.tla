-------------------------- MODULE RlinkCore_proofs --------------------------
(***************************************************************************)
(* The retransmit buffer of rlink_core for every buffer size and block     *)
(* length: what is replayed is what was sent, and what a wblk parks above  *)
(* the response reaches the bus in order.                                  *)
(***************************************************************************)
EXTENDS RlinkCore, TLAPS

\* The states of sl_txcmd and after in which a response is being written.
ExecState ==
  {"txcnt", "rstart", "txdat", "wblk", "rxwblk", "rxdcrc", "wblk0", "wblk1",
   "wblk2", "wblkl", "wblkh", "wwait", "txdcnt", "txlabo", "attn", "txstat",
   "txcrcl", "txcrch"}

\* A pointer is red exactly at the top, and goes bad only there.
PointerOK(p) == (p.red <=> p.addr = RtTop) /\ (p.bad => p.red)

\* The buffer holds the response up to port a, all of it unless port a is bad;
Kept ==
  /\ \A k \in 0..RtTop : k < rta.addr => rtbuf[k] = Tx(k + 1)
  /\ ~rta.bad => sent = rta.addr

\* ... and then the list ends in a NAK.
CutShort == rta.bad => nakdone \/ state \in ExecState \cup {"txnak"}

\* Bytes of the block are above port a.
Stored(n) == /\ rta.addr + n <= RtTop
             /\ \A k \in 0..RtTop :
                  rta.addr <= k /\ k < rta.addr + n =>
                    rtbuf[k] = Rx(k - rta.addr + 1)

\* The counts of the command in execution.
Counts ==
  /\ state = "rxaddr" => rcmd \notin {"labo", "attn"}
  /\ state = "rxcnt" => rcmd \in {"rblk", "wblk"}
  /\ state \in {"rxaddr", "rxdat", "rxccrc", "txcmd"} =>
       rcmd \in {"rblk", "wblk"} \/ cnt = 1
  /\ state \in {"rstart", "wblk", "rxwblk"} => cnt # 0
  /\ state = "txdat" => bcnt # 0

\* A replay reads port b from the bottom, bcnt bytes from its end.
Replay ==
  /\ doretra => state \in {"txsop", "txrtbuf", "txnak", "txnakcode", "txeop"}
  /\ state = "txsop" /\ doretra => rtb = Bottom /\ bcnt = rta.addr
  /\ state = "txrtbuf" => /\ bcnt \in 1..rta.addr
                          /\ rtb.addr = rta.addr - bcnt + 1
                          /\ dob = Tx(rta.addr - bcnt + 1)

\* A block is stored byte by byte unless port b goes bad ...
Parking ==
  /\ state = "rxwblk" =>
       /\ bcnt \in 1..(2 * cnt)
       /\ rta.addr <= rtb.addr
       /\ ~rtb.bad => /\ rtb.addr = rta.addr + (2 * cnt - bcnt)
                      /\ Stored(2 * cnt - bcnt)
  /\ state = "rxdcrc" /\ cnt # 0 /\ ~rtb.bad => Stored(2 * cnt)
  /\ state = "wblk0" /\ cnt # 0 =>
       bcnt = 2 * cnt /\ rtb = rta /\ Stored(2 * cnt)

\* ... and read again from the same place, a low byte at every even count.
Unparking ==
  state \in {"wblk1", "wblk2", "wblkl", "wblkh"} =>
    /\ bcnt \in 1..(2 * cnt)
    /\ state \in {"wblk1", "wblkl"} => bcnt # 1 /\ bcnt % 2 = 0
    /\ state \in {"wblk2", "wblkh"} => bcnt % 2 = 1
    /\ rtb.addr = rta.addr + (2 * cnt - bcnt) + 1
    /\ dob = Rx(2 * cnt - bcnt + 1)
    /\ Stored(2 * cnt)

Inv == /\ TypeOK /\ PointerOK(rta) /\ PointerOK(rtb)
       /\ Kept /\ CutShort /\ Counts /\ Replay /\ Parking /\ Unparking

-----------------------------------------------------------------------------
(* The operators on the buffer.                                             *)

\* A pointer is known by its three fields.
LEMMA PointerFields ==
  ASSUME NEW a \in 0..RtTop, NEW r \in BOOLEAN, NEW b \in BOOLEAN, NEW q,
         q = [addr |-> a, red |-> r, bad |-> b]
  PROVE  q \in Pointer /\ q.addr = a /\ q.red = r /\ q.bad = b
<1>1. q \in Pointer
  BY Zenon DEF Pointer
<1>2. q.addr = a
  BY SMT
<1>3. q.red = r
  BY Zenon
<1>4. q.bad = b
  BY Zenon
<1> QED
  BY <1>1, <1>2, <1>3, <1>4

\* Advancing a pointer keeps it well formed; it moves up by one, and if it
\* cannot it is bad from then on.
LEMMA IncFacts ==
  ASSUME NEW p \in Pointer, PointerOK(p)
  PROVE  /\ Inc(p) \in Pointer /\ PointerOK(Inc(p))
         /\ p.addr < RtTop => Inc(p).addr = p.addr + 1 /\ Inc(p).bad = p.bad
         /\ p.addr = RtTop => Inc(p).addr = RtTop /\ Inc(p).bad
<1>1. p.addr \in 0..RtTop /\ p.red \in BOOLEAN /\ p.bad \in BOOLEAN
  BY DEF Pointer
<1>2. CASE p.red
  <2>1. p.addr = RtTop /\ Inc(p) = [addr |-> p.addr, red |-> TRUE, bad |-> TRUE]
    BY <1>2, Zenon DEF PointerOK, Inc
  <2>2. /\ Inc(p) \in Pointer
        /\ Inc(p).addr = p.addr /\ Inc(p).red = TRUE /\ Inc(p).bad = TRUE
    BY <1>1, <2>1, PointerFields, ZenonT(30)
  <2>3. ~(p.addr < RtTop)
    BY <2>1, CoreAssumption
  <2> QED
    BY <2>1, <2>2, <2>3, Zenon DEF PointerOK
<1>3. CASE ~p.red
  <2>1. p.addr # RtTop /\ ~p.bad
    BY <1>3, Zenon DEF PointerOK
  <2>2. p.addr + 1 \in 0..RtTop
    BY <1>1, <2>1, CoreAssumption
  <2>3. PICK r \in BOOLEAN : r <=> p.addr + 1 = RtTop
    BY Zenon
  <2>4. Inc(p) = [addr |-> p.addr + 1, red |-> r, bad |-> p.bad]
    BY <1>3, <2>3, Zenon DEF Inc
  <2>5. /\ Inc(p) \in Pointer
        /\ Inc(p).addr = p.addr + 1 /\ Inc(p).bad = p.bad /\ Inc(p).red = r
    BY <1>1, <2>2, <2>4, PointerFields
  <2> QED
    BY <2>1, <2>3, <2>5, Zenon DEF PointerOK
<1> QED
  BY <1>1, <1>2, <1>3

\* A response byte sent through port a is kept.
LEMMA PutKeeps ==
  ASSUME TypeOK, PointerOK(rta), Kept, Put
  PROVE  /\ rta' \in Pointer /\ PointerOK(rta')
         /\ rtbuf' \in [0..RtTop -> Byte] /\ sent' \in Nat
         /\ Kept'
         /\ ~rta.red => ~rta'.bad
<1>1. /\ rta' \in Pointer /\ PointerOK(rta')
      /\ rta.addr < RtTop => rta'.addr = rta.addr + 1 /\ rta'.bad = rta.bad
      /\ rta.addr = RtTop => rta'.addr = RtTop /\ rta'.bad
  BY IncFacts DEF TypeOK, Put
<1>2. rta.addr \in 0..RtTop /\ rta.bad \in BOOLEAN /\ rta'.addr \in 0..RtTop
      /\ rta'.bad \in BOOLEAN /\ sent \in Nat /\ sent' = sent + 1
  BY <1>1 DEF TypeOK, Pointer, Put
<1>3. /\ rtbuf' \in [0..RtTop -> Byte]
      /\ rtbuf'[rta.addr] = Tx(sent + 1)
      /\ \A k \in 0..RtTop : k # rta.addr => rtbuf'[k] = rtbuf[k]
  BY <1>2 DEF TypeOK, Put, Byte, Tx
<1>4. Kept'
  BY <1>1, <1>2, <1>3, CoreAssumption DEF Kept, PointerOK
<1>5. ~rta.red => ~rta'.bad
  BY <1>1, <1>2, CoreAssumption DEF PointerOK
<1> QED
  BY <1>1, <1>2, <1>3, <1>4, <1>5

\* So are the two bytes of a 16 bit field.
LEMMA Put2Keeps ==
  ASSUME TypeOK, PointerOK(rta), Kept, Put2
  PROVE  /\ rta' \in Pointer /\ PointerOK(rta')
         /\ rtbuf' \in [0..RtTop -> Byte] /\ sent' \in Nat
         /\ Kept'
<1> DEFINE p == Inc(rta)
<1>1. /\ p \in Pointer /\ PointerOK(p)
      /\ rta.addr < RtTop => p.addr = rta.addr + 1 /\ p.bad = rta.bad
      /\ rta.addr = RtTop => p.addr = RtTop /\ p.bad
  BY IncFacts DEF TypeOK
<1>2. /\ rta' \in Pointer /\ PointerOK(rta')
      /\ p.addr < RtTop => rta'.addr = p.addr + 1 /\ rta'.bad = p.bad
      /\ p.addr = RtTop => rta'.addr = RtTop /\ rta'.bad
  BY <1>1, IncFacts DEF Put2
<1> HIDE DEF p
<1>3. /\ rta.addr \in 0..RtTop /\ p.addr \in 0..RtTop /\ rta'.addr \in 0..RtTop
      /\ rta.bad \in BOOLEAN /\ p.bad \in BOOLEAN /\ rta'.bad \in BOOLEAN
      /\ sent \in Nat /\ sent' = sent + 2
  BY <1>1, <1>2 DEF TypeOK, Pointer, Put2
<1>4. rtbuf' = [rtbuf EXCEPT ![rta.addr] = Tx(sent + 1), ![p.addr] = Tx(sent + 2)]
  BY DEF Put2, p
<1>5. /\ rtbuf' \in [0..RtTop -> Byte]
      /\ rtbuf'[p.addr] = Tx(sent + 2)
      /\ rta.addr # p.addr => rtbuf'[rta.addr] = Tx(sent + 1)
      /\ \A k \in 0..RtTop : k # rta.addr /\ k # p.addr => rtbuf'[k] = rtbuf[k]
  BY <1>3, <1>4 DEF TypeOK, Byte, Tx
<1>6. Kept'
  BY SMTT(30), <1>1, <1>2, <1>3, <1>5, CoreAssumption DEF Kept, PointerOK
<1> QED
  BY <1>2, <1>3, <1>5, <1>6

\* Port b reads the byte under it and moves up.
LEMMA FetchFacts ==
  ASSUME TypeOK, PointerOK(rtb), Fetch
  PROVE  /\ rtb' \in Pointer /\ PointerOK(rtb') /\ dob' \in Byte
         /\ rtb.addr < RtTop => rtb'.addr = rtb.addr + 1
         /\ dob' = rtbuf[rtb.addr]
<1>1. rtb.addr \in 0..RtTop
  BY DEF TypeOK, Pointer
<1>2. dob' \in Byte /\ dob' = rtbuf[rtb.addr]
  BY <1>1 DEF TypeOK, Fetch
<1> QED
  BY <1>2, IncFacts DEF TypeOK, Fetch
-----------------------------------------------------------------------------
(* The invariant.                                                           *)

\* The reset state satisfies it.
LEMMA InvInit == Init => Inv
<1> SUFFICES ASSUME Init PROVE Inv
  OBVIOUS
<1>1. Bottom \in Pointer /\ Bottom.addr = 0 /\ ~Bottom.red /\ ~Bottom.bad
  BY CoreAssumption DEF Bottom, Pointer
<1>2. TypeOK
  BY <1>1, CoreAssumption DEF Init, TypeOK, State, Cmd, NakCode, Byte
<1> QED
  BY <1>1, <1>2, CoreAssumption DEF Init, Inv, PointerOK, Kept, CutShort, Counts,
     Replay, Parking, Unparking

\* A step that leaves the state machine, its buffer and its counts alone.
LEMMA SameStep ==
  ASSUME Inv, TypeOK', UNCHANGED <<state, rcmd, cnt, bcnt, doretra, nakdone>>,
         UNCHANGED <<rta, rtb, rtbuf, dob, sent>>
  PROVE  Inv'
  BY DEF Inv, PointerOK, Kept, CutShort, Counts, Replay, Parking, Unparking, Stored

\* A step that leaves the buffer alone and is not about a block.
LEMMA QuietStep ==
  ASSUME Inv, TypeOK', UNCHANGED <<rta, rtb, rtbuf, sent>>,
         state' \notin {"rxwblk", "rxdcrc", "wblk0", "wblk1", "wblk2", "wblkl", "wblkh"},
         CutShort', Counts', Replay'
  PROVE  Inv'
  BY DEF Inv, PointerOK, Kept, Parking, Unparking

\* Attentions, raised and requested at any time.
LEMMA AttentionStep == Inv /\ (RaiseLam \/ RequestNotify) => Inv'
<1> SUFFICES ASSUME Inv, RaiseLam \/ RequestNotify PROVE Inv'
  OBVIOUS
<1>1. TypeOK'
  <2>1. CASE RaiseLam
    BY <2>1, SMTT(30) DEF RaiseLam, Inv, TypeOK, flagVars, bufVars
  <2>2. CASE RequestNotify
    BY <2>2, SMTT(30) DEF RequestNotify, Inv, TypeOK, flagVars, bufVars
  <2> QED
    BY <2>1, <2>2
<1> QED
  BY <1>1, SameStep DEF RaiseLam, RequestNotify, flagVars, bufVars

\* Steps that only move the state machine on.
LEMMA MoveStep ==
  ASSUME Inv, NEW c \in Comma, NEW ok \in BOOLEAN, NEW n \in 0..MaxCnt,
         \/ StartNotify \/ TxAnot \/ RxSop \/ RxAttn \/ RxComma(c) \/ RxSkip(c)
         \/ RxAddr \/ RxDat \/ RxCnt(n) \/ RxBadCnt \/ RxCcrc(ok) \/ RxBadDcrc
         \/ TxNak \/ TxNakcode \/ TxEop \/ RStart \/ WWait \/ Attn
  PROVE  Inv'
<1> USE DEF Inv, TypeOK, CutShort, Counts, Replay, State, RxState, ExecState,
            attnVars, flagVars, bufVars, Rcv
<1>1. CASE StartNotify
  BY ZenonT(30), <1>1, QuietStep DEF StartNotify
<1>2. CASE TxAnot
  BY <1>2, QuietStep DEF TxAnot
<1>3. CASE RxSop
  <2>1. doretra = FALSE
    BY <1>3 DEF RxSop
  <2>2. TypeOK'
    <3>1. cmdseen' \in BOOLEAN
      BY <1>3 DEF RxSop
    <3>2. nin' \in Nat
      BY <1>3 DEF RxSop
    <3> QED
      BY <1>3, <3>1, <3>2 DEF RxSop
  <2>3. CutShort' /\ Counts'
    BY <1>3 DEF RxSop
  <2>4. Replay'
    BY <1>3, <2>1 DEF RxSop
  <2> QED
    BY <1>3, <2>2, <2>3, <2>4, QuietStep DEF RxSop
<1>4. CASE RxAttn
  BY <1>4, QuietStep DEF RxAttn
<1>5. CASE RxComma(c)
  BY <1>5, QuietStep DEF RxComma, Abort, NakCode
<1>6. CASE RxSkip(c)
  BY <1>6, QuietStep DEF RxSkip
<1>7. CASE RxAddr
  <2>1. CASE rcmd = "rreg"
    BY <1>7, <2>1, QuietStep DEF RxAddr
  <2>2. CASE rcmd \in {"wreg", "init"}
    BY <1>7, <2>2, QuietStep DEF RxAddr
  <2>3. CASE rcmd \notin {"rreg", "wreg", "init"}
    <3>1. state' = "rxcnt"
      BY <1>7, <2>3 DEF RxAddr
    <3>2. rcmd \in {"rblk", "wblk"}
      BY <1>7, <2>3 DEF RxAddr, Cmd
    <3> QED
      BY <1>7, <3>1, <3>2, QuietStep DEF RxAddr
  <2> QED
    BY <2>1, <2>2, <2>3
<1>8. CASE RxDat
  BY <1>8, QuietStep DEF RxDat
<1>9. CASE RxCnt(n)
  BY <1>9, QuietStep, CoreAssumption DEF RxCnt
<1>10. CASE RxBadCnt
  BY <1>10, QuietStep DEF RxBadCnt, Abort, NakCode
<1>11. CASE RxCcrc(ok)
  BY <1>11, QuietStep DEF RxCcrc, Abort, NakCode
<1>12. CASE RxBadDcrc
  BY <1>12, QuietStep DEF RxBadDcrc, Abort, NakCode
<1>13. CASE TxNak
  BY <1>13, QuietStep DEF TxNak
<1>14. CASE TxNakcode
  BY <1>14, QuietStep DEF TxNakcode
<1>15. CASE TxEop
  <2>1. TypeOK'
    BY <1>15 DEF TxEop
  <2>2. CutShort' /\ Counts'
    BY <1>15 DEF TxEop
  <2>3. Replay'
    BY <1>15 DEF TxEop
  <2> QED
    BY <1>15, <2>1, <2>2, <2>3, QuietStep DEF TxEop
<1>16. CASE RStart
  BY <1>16, QuietStep DEF RStart
<1>17. CASE WWait
  BY <1>17, QuietStep DEF WWait
<1>18. CASE Attn
  BY <1>18, QuietStep DEF Attn
<1> QED
  BY <1>1, <1>2, <1>3, <1>4, <1>5, <1>6, <1>7, <1>8, <1>9, <1>10, <1>11, <1>12,
     <1>13, <1>14, <1>15, <1>16, <1>17, <1>18

\* A step of a response: a byte goes into the buffer through port a.
LEMMA SendStep ==
  ASSUME Inv, TypeOK', PointerOK(rta)', Kept', UNCHANGED rtb,
         \/ state' \notin {"rxwblk", "rxdcrc", "wblk0", "wblk1", "wblk2", "wblkl", "wblkh"}
         \/ state' = "rxdcrc" /\ cnt' = 0,
         CutShort', Counts', Replay'
  PROVE  Inv'
  BY DEF Inv, PointerOK, Parking, Unparking

\* The steps that write the response keep the invariant; sl_txcrch, the last
\* of them, ends a list that did not fit into the buffer in a NAK.
LEMMA ResponseStep ==
  ASSUME Inv, TxCmd \/ TxCnt \/ TxDat \/ TxDcnt \/ TxLabo \/ TxStat \/ TxCrcl \/ TxCrch
  PROVE  Inv'
<1>1. ASSUME Put
      PROVE  /\ rta' \in Pointer /\ PointerOK(rta)' /\ Kept'
             /\ rtbuf' \in [0..RtTop -> Byte] /\ sent' \in Nat
             /\ ~rta.red => ~rta'.bad
  BY <1>1, PutKeeps DEF Inv
<1>2. ASSUME Put2
      PROVE  /\ rta' \in Pointer /\ PointerOK(rta)' /\ Kept'
             /\ rtbuf' \in [0..RtTop -> Byte] /\ sent' \in Nat
  BY <1>2, Put2Keeps DEF Inv
<1>3. ASSUME UNCHANGED bufVars
      PROVE  /\ rta' \in Pointer /\ PointerOK(rta)' /\ Kept'
             /\ rtbuf' \in [0..RtTop -> Byte] /\ sent' \in Nat
  BY <1>3 DEF Inv, TypeOK, bufVars, PointerOK, Kept
<1> USE DEF Inv, TypeOK, CutShort, Counts, Replay, State, RxState, ExecState,
            attnVars, flagVars
<1>4. CASE TxCmd
  <2>1. state' \in {"rstart", "txcnt", "wwait", "wblk", "rxdcrc", "txlabo", "attn", "txstat"}
    BY <1>4 DEF TxCmd, Cmd
  <2>2. (state' \in {"rstart", "wblk"} => cnt # 0) /\ (state' = "rxdcrc" => cnt = 0)
    BY <1>4 DEF TxCmd, Cmd
  <2>3. babo' \in BOOLEAN
    BY <1>4, Zenon DEF TxCmd
  <2>4. /\ state = "txcmd" /\ Put
        /\ UNCHANGED <<rcmd, cnt, bcnt, nakcode, attnVars, cmdseen, doretra,
                       nakdone, anact, rtb, dob, nin>>
    BY <1>4 DEF TxCmd
  <2>5. TypeOK'
    BY <1>1, <2>1, <2>3, <2>4
  <2>6. CutShort' /\ Counts' /\ Replay'
    BY <2>1, <2>2, <2>4
  <2> QED
    BY <1>1, <2>1, <2>2, <2>4, <2>5, <2>6, SendStep
<1>5. CASE TxCnt
  BY <1>2, <1>3, <1>5, SendStep DEF TxCnt
<1>6. CASE TxDat
  BY <1>1, <1>6, SendStep DEF TxDat
<1>7. CASE TxDcnt
  <2>1. babo' \in BOOLEAN
    BY <1>7 DEF TxDcnt
  <2>2. TypeOK'
    BY <1>2, <1>7, <2>1 DEF TxDcnt
  <2> QED
    BY <1>2, <1>7, <2>2, SendStep DEF TxDcnt
<1>8. CASE TxLabo
  BY <1>1, <1>8, SendStep DEF TxLabo
<1>9. CASE TxStat
  BY <1>1, <1>9, SendStep DEF TxStat
<1>10. CASE TxCrcl
  BY <1>1, <1>3, <1>10, SendStep DEF TxCrcl
<1>11. CASE TxCrch
  <2>1. CASE rta.red
    BY <1>3, <1>11, <2>1, SendStep DEF TxCrch, Abort, NakCode
  <2>2. CASE ~rta.red
    <3>1. state = "txcrch" /\ state' \in {"txeop", "rxeop", "rxcmd"}
      BY <1>11, <2>2 DEF TxCrch
    <3>2. ~rta'.bad
      BY <1>1, <1>11, <2>2 DEF TxCrch, PointerOK, bufVars
    <3>3. /\ Put \/ UNCHANGED bufVars
          /\ UNCHANGED <<rcmd, cnt, bcnt, nakcode, attnVars, flagVars, rtb, dob,
                         nin>>
      BY <1>11, <2>2 DEF TxCrch
    <3>4. TypeOK' /\ PointerOK(rta)' /\ Kept'
      BY <1>1, <1>3, <3>1, <3>3
    <3>5. CutShort' /\ Counts' /\ Replay'
      BY <3>1, <3>2, <3>3
    <3> QED
      BY <3>1, <3>3, <3>4, <3>5, SendStep
  <2> QED
    BY <2>1, <2>2
<1> QED
  BY <1>4, <1>5, <1>6, <1>7, <1>8, <1>9, <1>10, <1>11

\* The first command of a list empties the buffer.
LEMMA CommandStep ==
  ASSUME Inv, NEW c \in Cmd, RxCmd(c) \/ RxBadCmd
  PROVE  Inv'
<1>1. Bottom \in Pointer /\ Bottom.addr = 0 /\ ~Bottom.red /\ ~Bottom.bad
  BY CoreAssumption DEF Bottom, Pointer
<1>2. /\ state = "rxcmd" /\ state' \in {"rxaddr", "rxccrc", "txnak"}
      /\ state' = "rxaddr" => rcmd' \notin {"labo", "attn"}
      /\ rcmd' \in Cmd /\ cnt' = 1 /\ nakcode' \in NakCode /\ Rcv
      /\ UNCHANGED <<bcnt, attnVars, babo, doretra, anact, rtbuf, rtb, dob>>
  BY DEF RxCmd, RxBadCmd, Abort, NakCode, Inv, TypeOK
<1>3. cmdseen' \in BOOLEAN
  BY DEF RxCmd, RxBadCmd
<1>4. \/ UNCHANGED <<nakdone, rta, sent>>
      \/ nakdone' = FALSE /\ rta' = Bottom /\ sent' = 0
  BY DEF RxCmd, RxBadCmd
<1>5. TypeOK'
  <2>1. nakdone' \in BOOLEAN
    BY <1>4 DEF Inv, TypeOK
  <2>2. rta' \in Pointer /\ sent' \in Nat
    BY <1>1, <1>4 DEF Inv, TypeOK
  <2> QED
    BY <1>2, <1>3, <2>1, <2>2 DEF Inv, TypeOK, State, RxState, attnVars, Rcv
<1>6. PointerOK(rta)' /\ Kept' /\ CutShort'
  BY <1>1, <1>2, <1>4, CoreAssumption DEF Inv, PointerOK, Kept, CutShort, ExecState
<1>7. Counts' /\ Replay'
  BY <1>2 DEF Inv, Counts, Replay
<1> QED
  BY <1>2, <1>5, <1>6, <1>7, SendStep

\* A replay reads the response from its first byte to its last.
LEMMA ReplayStep == Inv /\ (RxNak \/ TxSop \/ TxRtbuf) => Inv'
<1> SUFFICES ASSUME Inv, RxNak \/ TxSop \/ TxRtbuf PROVE Inv'
  OBVIOUS
<1>1. Bottom \in Pointer /\ Bottom.addr = 0 /\ ~Bottom.red /\ ~Bottom.bad
  BY CoreAssumption DEF Bottom, Pointer
<1>2. rta.addr \in 0..RtTop /\ rtb.addr \in 0..RtTop /\ bcnt \in Nat
  BY DEF Inv, TypeOK, Pointer
<1>3. CASE RxNak
  <2>1. TypeOK'
    BY <1>1, <1>2, <1>3 DEF RxNak, Inv, TypeOK, State, attnVars, bufVars, Rcv
  <2>2. PointerOK(rta)' /\ PointerOK(rtb)' /\ Kept'
    BY <1>1, <1>3, CoreAssumption DEF RxNak, Inv, PointerOK, Kept, bufVars
  <2>3. CutShort' /\ Counts' /\ Replay' /\ Parking' /\ Unparking'
    BY <1>3 DEF RxNak, Inv, CutShort, ExecState, Counts, Replay, Parking,
       Unparking, bufVars
  <2> QED
    BY <2>1, <2>2, <2>3 DEF Inv
<1>4. ASSUME Fetch, UNCHANGED <<rta, rtbuf, sent>>, rtb.addr < rta.addr
      PROVE  /\ rtb' \in Pointer /\ PointerOK(rtb)' /\ dob' \in Byte
             /\ rtb'.addr = rtb.addr + 1 /\ dob' = Tx(rtb.addr + 1)
  BY <1>2, <1>4, FetchFacts, CoreAssumption DEF Inv, Kept
<1>5. CASE TxSop
  <2>1. /\ state = "txsop"
        /\ UNCHANGED <<rcmd, cnt, bcnt, nakcode, attnVars, flagVars, bufVars, nin>>
    BY <1>5 DEF TxSop
  <2>2. CASE doretra /\ rta.addr # 0
    <3>1. Fetch /\ state' = "txrtbuf" /\ rtb.addr = 0 /\ bcnt = rta.addr
      BY <1>1, <1>5, <2>1, <2>2 DEF TxSop, Inv, Replay
    <3>2. /\ rtb' \in Pointer /\ PointerOK(rtb)' /\ dob' \in Byte
          /\ rtb'.addr = 1 /\ dob' = Tx(1)
      BY <1>2, <1>4, <2>1, <2>2, <3>1 DEF bufVars
    <3>3. TypeOK'
      BY <2>1, <3>1, <3>2 DEF Inv, TypeOK, State, attnVars, flagVars, bufVars
    <3>4. PointerOK(rta)' /\ Kept' /\ CutShort' /\ Counts' /\ Parking' /\ Unparking'
      BY <2>1, <3>1 DEF Inv, PointerOK, Kept, CutShort, ExecState, Counts,
         Parking, Unparking, bufVars, flagVars
    <3>5. Replay'
      BY <1>2, <2>1, <2>2, <3>1, <3>2 DEF Inv, Replay, bufVars, flagVars
    <3> QED
      BY <3>2, <3>3, <3>4, <3>5 DEF Inv
  <2>3. CASE ~(doretra /\ rta.addr # 0)
    <3>1. /\ state' \in {"txnak", "txeop", "rxcmd"} /\ UNCHANGED <<rtb, dob>>
          /\ state' = "rxcmd" => ~doretra
          /\ state' = "txnak" => nakdone
      BY <1>5, <2>3 DEF TxSop
    <3>2. TypeOK'
      BY <2>1, <3>1 DEF Inv, TypeOK, State, RxState, attnVars, flagVars, bufVars
    <3>3. CutShort' /\ Counts' /\ Replay'
      BY <2>1, <3>1 DEF Inv, CutShort, ExecState, Counts, Replay, flagVars, bufVars
    <3> QED
      BY <2>1, <3>1, <3>2, <3>3, QuietStep DEF bufVars
  <2> QED
    BY <2>2, <2>3
<1>6. CASE TxRtbuf
  <2>1. /\ state = "txrtbuf" /\ bcnt' = bcnt - 1
        /\ UNCHANGED <<rcmd, cnt, nakcode, attnVars, flagVars, bufVars, nin>>
    BY <1>6 DEF TxRtbuf
  <2>2. bcnt \in 1..rta.addr /\ rtb.addr = rta.addr - bcnt + 1
    BY <2>1 DEF Inv, Replay
  <2>3. CASE bcnt # 1
    <3>1. Fetch /\ state' = "txrtbuf"
      BY <1>6, <2>3 DEF TxRtbuf
    <3>2. /\ rtb' \in Pointer /\ PointerOK(rtb)' /\ dob' \in Byte
          /\ rtb'.addr = rtb.addr + 1 /\ dob' = Tx(rtb.addr + 1)
      BY <1>2, <1>4, <2>1, <2>2, <2>3, <3>1 DEF bufVars
    <3>3. TypeOK'
      BY <2>1, <2>2, <3>1, <3>2 DEF Inv, TypeOK, State, attnVars, flagVars, bufVars
    <3>4. PointerOK(rta)' /\ Kept' /\ CutShort' /\ Counts' /\ Parking' /\ Unparking'
      BY <2>1, <3>1 DEF Inv, PointerOK, Kept, CutShort, ExecState, Counts,
         Parking, Unparking, bufVars, flagVars
    <3>5. Replay'
      BY <1>2, <2>1, <2>2, <2>3, <3>1, <3>2 DEF Inv, Replay, bufVars, flagVars
    <3> QED
      BY <3>2, <3>3, <3>4, <3>5 DEF Inv
  <2>4. CASE bcnt = 1
    <3>1. /\ state' \in {"txnak", "txeop"} /\ UNCHANGED <<rtb, dob>>
          /\ state' = "txeop" => ~nakdone
      BY <1>6, <2>4 DEF TxRtbuf
    <3>2. TypeOK'
      BY <2>1, <2>4, <3>1 DEF Inv, TypeOK, State, attnVars, flagVars, bufVars
    <3>3. CutShort' /\ Counts' /\ Replay'
      BY <2>1, <3>1 DEF Inv, CutShort, ExecState, Counts, Replay, flagVars, bufVars
    <3> QED
      BY <2>1, <3>1, <3>2, <3>3, QuietStep DEF bufVars
  <2> QED
    BY <2>3, <2>4
<1> QED
  BY <1>3, <1>5, <1>6

\* A block is parked above the response, and read from there once its crc is
\* good; a block that does not fit is refused, and never reaches the bus.
LEMMA BlockStep ==
  Inv /\ (WBlk \/ RxWblk \/ RxDcrc \/ WBlk0 \/ WBlkLow \/ WBlkHigh) => Inv'
<1> SUFFICES ASSUME Inv, WBlk \/ RxWblk \/ RxDcrc \/ WBlk0 \/ WBlkLow \/ WBlkHigh
             PROVE  Inv'
  OBVIOUS
<1>1. /\ rta.addr \in 0..RtTop /\ rtb.addr \in 0..RtTop
      /\ rta.bad \in BOOLEAN /\ rtb.bad \in BOOLEAN
      /\ bcnt \in Nat /\ cnt \in Nat
  BY DEF Inv, TypeOK, Pointer
<1>2. CASE WBlk
  <2>1. /\ state = "wblk" /\ state' = "rxwblk" /\ rtb' = rta /\ bcnt' = 2 * cnt
        /\ UNCHANGED <<rcmd, cnt, nakcode, attnVars, flagVars, bufVars, dob, nin>>
    BY <1>2 DEF WBlk
  <2>2. TypeOK'
    BY <2>1 DEF Inv, TypeOK, State, RxState, attnVars, flagVars, bufVars
  <2>3. /\ PointerOK(rta)' /\ PointerOK(rtb)' /\ Kept' /\ CutShort' /\ Counts'
        /\ Replay' /\ Unparking'
    BY <2>1 DEF Inv, PointerOK, Kept, CutShort, ExecState, Counts, Replay,
       Unparking, bufVars, flagVars
  <2>4. Parking'
    BY <1>1, <2>1, CoreAssumption DEF Inv, Counts, Parking, Stored, bufVars
  <2> QED
    BY <2>2, <2>3, <2>4 DEF Inv
<1>3. CASE RxWblk
  <2>1. /\ state = "rxwblk" /\ state' \in {"rxwblk", "rxdcrc"}
        /\ state' = "rxdcrc" <=> bcnt = 1
        /\ bcnt' = bcnt - 1 /\ Rcv
        /\ UNCHANGED <<rcmd, cnt, nakcode, attnVars, flagVars, rta, sent, dob>>
    BY <1>3 DEF RxWblk
  <2>2. /\ bcnt \in 1..(2 * cnt) /\ rta.addr <= rtb.addr /\ cnt # 0
        /\ ~rtb.bad => /\ rtb.addr = rta.addr + (2 * cnt - bcnt)
                       /\ Stored(2 * cnt - bcnt)
    BY <2>1 DEF Inv, Parking, Counts
  <2>3. /\ rtb' \in Pointer /\ PointerOK(rtb)'
        /\ rtb.addr < RtTop => rtb'.addr = rtb.addr + 1 /\ rtb'.bad = rtb.bad
        /\ rtb.addr = RtTop => rtb'.addr = RtTop /\ rtb'.bad
    BY <1>3, IncFacts DEF RxWblk, Inv, TypeOK
  <2>4. /\ rtbuf' \in [0..RtTop -> Byte]
        /\ rtbuf'[rtb.addr] = Rx(2 * cnt - bcnt + 1)
        /\ \A k \in 0..RtTop : k # rtb.addr => rtbuf'[k] = rtbuf[k]
    BY <1>1, <1>3, <2>2 DEF RxWblk, Inv, TypeOK, Byte, Rx
  <2>5. TypeOK'
    BY <2>1, <2>2, <2>3, <2>4 DEF Inv, TypeOK, State, RxState, attnVars, flagVars, Rcv
  <2>6. PointerOK(rta)' /\ CutShort' /\ Counts' /\ Replay' /\ Unparking'
    BY <2>1, <2>2 DEF Inv, PointerOK, CutShort, ExecState, Counts, Replay,
       Unparking, flagVars
  <2>7. Kept'
    BY <1>1, <2>1, <2>2, <2>4 DEF Inv, Kept
  <2>8. Parking'
    <3>1. ASSUME ~rtb'.bad
          PROVE  /\ ~rtb.bad /\ rtb.addr < RtTop
                 /\ rtb'.addr = rta.addr + (2 * cnt - bcnt) + 1
      BY <1>1, <2>2, <2>3, <3>1, CoreAssumption
    <3>2. ASSUME ~rtb'.bad PROVE Stored(2 * cnt - bcnt)'
      BY SMTT(30), <1>1, <2>1, <2>2, <2>4, <3>1, <3>2, CoreAssumption DEF Stored
    <3>3. rta'.addr <= rtb'.addr
      BY <1>1, <2>1, <2>2, <2>3, CoreAssumption
    <3>4. CASE state' = "rxwblk"
      BY <1>1, <2>1, <2>2, <3>1, <3>2, <3>3, <3>4 DEF Parking
    <3>5. CASE state' = "rxdcrc"
      <4>1. (2 * cnt - bcnt)' = (2 * cnt)'
        BY <1>1, <2>1, <3>5
      <4> QED
        BY <2>1, <3>2, <3>5, <4>1 DEF Parking
    <3> QED
      BY <2>1, <3>4, <3>5
  <2> QED
    BY <2>3, <2>5, <2>6, <2>7, <2>8 DEF Inv
<1>4. CASE RxDcrc
  <2>1. /\ state = "rxdcrc" /\ state' \in {"wblk0", "txnak"}
        /\ state' = "wblk0" => ~rtb.bad
        /\ rtb' = rta /\ bcnt' = 2 * cnt /\ nakcode' \in NakCode /\ Rcv
        /\ UNCHANGED <<rcmd, cnt, attnVars, flagVars, bufVars, dob>>
    BY <1>4 DEF RxDcrc, Abort, NakCode, Inv, TypeOK
  <2>2. TypeOK'
    BY <1>1, <2>1 DEF Inv, TypeOK, State, attnVars, flagVars, bufVars, Rcv
  <2>3. /\ PointerOK(rta)' /\ PointerOK(rtb)' /\ Kept' /\ CutShort' /\ Counts'
        /\ Replay' /\ Unparking'
    BY <2>1 DEF Inv, PointerOK, Kept, CutShort, ExecState, Counts, Replay,
       Unparking, bufVars, flagVars
  <2>4. Parking'
    BY <2>1 DEF Inv, Parking, Stored, bufVars
  <2> QED
    BY <2>2, <2>3, <2>4 DEF Inv
<1>5. ASSUME Fetch, UNCHANGED <<rta, rtbuf>>, Stored(2 * cnt),
             rta.addr <= rtb.addr, rtb.addr < rta.addr + 2 * cnt
      PROVE  /\ rtb' \in Pointer /\ PointerOK(rtb)' /\ dob' \in Byte
             /\ rtb'.addr = rtb.addr + 1 /\ dob' = Rx(rtb.addr - rta.addr + 1)
  BY <1>1, <1>5, FetchFacts, CoreAssumption DEF Inv, Stored
<1>6. CASE WBlk0
  <2>1. /\ state = "wblk0"
        /\ UNCHANGED <<rcmd, cnt, bcnt, nakcode, attnVars, flagVars, bufVars, nin>>
    BY <1>6 DEF WBlk0
  <2>2. CASE cnt # 0
    <3>1. /\ Fetch /\ state' = "wblk1"
          /\ bcnt = 2 * cnt /\ rtb = rta /\ Stored(2 * cnt)
      BY <1>6, <2>1, <2>2 DEF WBlk0, Inv, Parking
    <3>2. /\ rtb' \in Pointer /\ PointerOK(rtb)' /\ dob' \in Byte
          /\ rtb'.addr = rta.addr + 1 /\ dob' = Rx(1)
      BY <1>1, <1>5, <2>1, <2>2, <3>1 DEF bufVars
    <3>3. TypeOK'
      BY <2>1, <3>1, <3>2 DEF Inv, TypeOK, State, attnVars, flagVars, bufVars
    <3>4. PointerOK(rta)' /\ Kept' /\ CutShort' /\ Counts' /\ Replay' /\ Parking'
      BY <2>1, <3>1 DEF Inv, PointerOK, Kept, CutShort, ExecState, Counts,
         Replay, Parking, bufVars, flagVars
    <3>5. Unparking'
      BY <1>1, <2>1, <2>2, <3>1, <3>2 DEF Unparking, Stored, bufVars
    <3> QED
      BY <3>2, <3>3, <3>4, <3>5 DEF Inv
  <2>3. CASE cnt = 0
    <3>1. state' = "txdcnt" /\ UNCHANGED <<rtb, dob>>
      BY <1>6, <2>3 DEF WBlk0
    <3>2. TypeOK'
      BY <2>1, <3>1 DEF Inv, TypeOK, State, attnVars, flagVars, bufVars
    <3>3. CutShort' /\ Counts' /\ Replay'
      BY <2>1, <3>1 DEF Inv, CutShort, ExecState, Counts, Replay, flagVars, bufVars
    <3> QED
      BY <2>1, <3>1, <3>2, <3>3, QuietStep DEF bufVars
  <2> QED
    BY <2>2, <2>3
<1>7. CASE WBlkLow
  <2>1. /\ Fetch /\ bcnt' = bcnt - 1
        /\ state \in {"wblk1", "wblkl"} /\ state' \in {"wblk2", "wblkh"}
        /\ UNCHANGED <<rcmd, cnt, nakcode, attnVars, flagVars, bufVars, nin>>
    BY <1>7 DEF WBlkLow
  <2>2. /\ bcnt \in 1..(2 * cnt) /\ bcnt # 1 /\ bcnt % 2 = 0
        /\ rtb.addr = rta.addr + (2 * cnt - bcnt) + 1 /\ Stored(2 * cnt)
    BY <2>1 DEF Inv, Unparking
  <2>3. /\ rtb' \in Pointer /\ PointerOK(rtb)' /\ dob' \in Byte
        /\ rtb'.addr = rtb.addr + 1 /\ dob' = Rx(rtb.addr - rta.addr + 1)
    BY <1>1, <1>5, <2>1, <2>2 DEF bufVars
  <2>4. TypeOK'
    BY <2>1, <2>2, <2>3 DEF Inv, TypeOK, State, attnVars, flagVars, bufVars
  <2>5. PointerOK(rta)' /\ Kept' /\ CutShort' /\ Counts' /\ Replay' /\ Parking'
    BY <2>1 DEF Inv, PointerOK, Kept, CutShort, ExecState, Counts, Replay,
       Parking, bufVars, flagVars
  <2>6. Unparking'
    <3>1. bcnt' \in 1..(2 * cnt') /\ bcnt' % 2 = 1
      BY <1>1, <2>1, <2>2
    <3>2. Stored(2 * cnt)' /\ dob' = Rx(2 * cnt' - bcnt' + 1)
      BY <1>1, <2>1, <2>2, <2>3 DEF Stored, bufVars
    <3> QED
      BY <1>1, <2>1, <2>2, <2>3, <3>1, <3>2 DEF Unparking, bufVars
  <2> QED
    BY <2>3, <2>4, <2>5, <2>6 DEF Inv
<1>8. CASE WBlkHigh
  <2>1. /\ bcnt' = bcnt - 1 /\ state \in {"wblk2", "wblkh"}
        /\ UNCHANGED <<rcmd, cnt, nakcode, attnVars, flagVars, bufVars, nin>>
    BY <1>8 DEF WBlkHigh
  <2>2. /\ bcnt \in 1..(2 * cnt) /\ bcnt % 2 = 1
        /\ rtb.addr = rta.addr + (2 * cnt - bcnt) + 1 /\ Stored(2 * cnt)
    BY <2>1 DEF Inv, Unparking
  <2>3. CASE bcnt # 1
    <3>1. Fetch /\ state' = "wblkl"
      BY <1>8, <2>3 DEF WBlkHigh
    <3>2. /\ rtb' \in Pointer /\ PointerOK(rtb)' /\ dob' \in Byte
          /\ rtb'.addr = rtb.addr + 1 /\ dob' = Rx(rtb.addr - rta.addr + 1)
      BY <1>1, <1>5, <2>1, <2>2, <2>3, <3>1 DEF bufVars
    <3>3. TypeOK'
      BY <2>1, <2>2, <3>1, <3>2 DEF Inv, TypeOK, State, attnVars, flagVars, bufVars
    <3>4. PointerOK(rta)' /\ Kept' /\ CutShort' /\ Counts' /\ Replay' /\ Parking'
      BY <2>1, <3>1 DEF Inv, PointerOK, Kept, CutShort, ExecState, Counts,
         Replay, Parking, bufVars, flagVars
    <3>5. Unparking'
      <4>1. bcnt' \in 1..(2 * cnt') /\ bcnt' # 1 /\ bcnt' % 2 = 0
        BY <1>1, <2>1, <2>2, <2>3
      <4>2. Stored(2 * cnt)' /\ dob' = Rx(2 * cnt' - bcnt' + 1)
        BY <1>1, <2>1, <2>2, <3>2 DEF Stored, bufVars
      <4> QED
        BY <1>1, <2>1, <2>2, <3>1, <3>2, <4>1, <4>2 DEF Unparking, bufVars
    <3> QED
      BY <3>2, <3>3, <3>4, <3>5 DEF Inv
  <2>4. CASE bcnt = 1
    <3>1. state' = "wwait" /\ UNCHANGED <<rtb, dob>>
      BY <1>8, <2>4 DEF WBlkHigh
    <3>2. TypeOK'
      BY <2>1, <2>4, <3>1 DEF Inv, TypeOK, State, attnVars, flagVars, bufVars
    <3>3. CutShort' /\ Counts' /\ Replay'
      BY <2>1, <3>1 DEF Inv, CutShort, ExecState, Counts, Replay, flagVars, bufVars
    <3> QED
      BY <2>1, <3>1, <3>2, <3>3, QuietStep DEF bufVars
  <2> QED
    BY <2>3, <2>4
<1> QED
  BY <1>2, <1>3, <1>4, <1>6, <1>7, <1>8

\* Every step keeps the invariant.
LEMMA InvStep == Inv /\ [Next]_vars => Inv'
<1> SUFFICES ASSUME Inv, [Next]_vars PROVE Inv'
  OBVIOUS
<1>1. CASE RaiseLam
  BY <1>1, AttentionStep
<1>2. CASE Host
  <2>1. PICK c \in Comma : TRUE
    BY DEF Comma
  <2>2. PICK m \in Cmd : TRUE
    BY DEF Cmd
  <2>3. 0 \in 0..MaxCnt
    BY CoreAssumption
  <2>4. CASE RxSop \/ RxAttn \/ RxAddr \/ RxDat \/ RxBadCnt \/ RxBadDcrc
    BY <2>1, <2>3, <2>4, MoveStep
  <2>5. CASE RxNak
    BY <2>5, ReplayStep
  <2>6. CASE \E d \in Comma : RxComma(d) \/ RxSkip(d)
    BY <2>3, <2>6, MoveStep
  <2>7. CASE (\E d \in Cmd : RxCmd(d)) \/ RxBadCmd
    BY <2>2, <2>7, CommandStep
  <2>8. CASE \E n \in 0..MaxCnt : RxCnt(n)
    BY <2>1, <2>8, MoveStep
  <2>9. CASE \E ok \in BOOLEAN : RxCcrc(ok)
    BY <2>1, <2>3, <2>9, MoveStep
  <2>10. CASE RxWblk \/ RxDcrc
    BY <2>10, BlockStep
  <2> QED
    BY <1>2, <2>4, <2>5, <2>6, <2>7, <2>8, <2>9, <2>10 DEF Host
<1>3. CASE Core
  <2>1. PICK c \in Comma : TRUE
    BY DEF Comma
  <2>2. 0 \in 0..MaxCnt
    BY CoreAssumption
  <2>3. CASE RequestNotify
    BY <2>3, AttentionStep
  <2>4. CASE \/ StartNotify \/ TxAnot \/ TxNak \/ TxNakcode \/ TxEop
             \/ RStart \/ WWait \/ Attn
    BY <2>1, <2>2, <2>4, MoveStep
  <2>5. CASE TxSop \/ TxRtbuf
    BY <2>5, ReplayStep
  <2>6. CASE \/ TxCmd \/ TxCnt \/ TxDat \/ TxDcnt \/ TxLabo \/ TxStat \/ TxCrcl
             \/ TxCrch
    BY <2>6, ResponseStep
  <2>7. CASE WBlk \/ WBlk0 \/ WBlkLow \/ WBlkHigh
    BY <2>7, BlockStep
  <2> QED
    BY <1>3, <2>3, <2>4, <2>5, <2>6, <2>7 DEF Core
<1>4. CASE UNCHANGED vars
  <2>1. TypeOK'
    BY <1>4 DEF Inv, TypeOK, vars, attnVars, flagVars, bufVars
  <2> QED
    BY <1>4, <2>1, SameStep DEF vars, attnVars, flagVars, bufVars
<1> QED
  BY <1>1, <1>2, <1>3, <1>4 DEF Next

-----------------------------------------------------------------------------
(* The theorems.                                                            *)

\* The state machine keeps its types, and between two lists the retransmit
\* buffer holds the whole response, unless the host was told by a NAK that it
\* was cut short (sl_txcrch, nakcode rtovfl).
THEOREM ResponseKept == Spec => []CoreInv
<1>1. Inv => CoreInv
  BY DEF Inv, CoreInv, RetransmitComplete, Kept, CutShort, ExecState
<1> QED
  BY InvInit, InvStep, <1>1, PTL DEF Spec

\* A NAK from the host is answered with the response from its first byte on, in
\* order (sl_txrtbuf), whatever a wblk has parked in the buffer meanwhile.
THEOREM ReplayInOrder == Spec => []RetransmitInOrder
<1>1. Inv => RetransmitInOrder
  BY DEF Inv, RetransmitInOrder, Replay
<1> QED
  BY InvInit, InvStep, <1>1, PTL DEF Spec

\* The bytes that sl_wblk1 to sl_wblkh hand to the bus are those of the block,
\* in order, for every block length and fill of the buffer.
THEOREM BlockInOrder == Spec => []WblkDataInOrder
<1>1. Inv => WblkDataInOrder
  BY DEF Inv, WblkDataInOrder, Unparking
<1> QED
  BY InvInit, InvStep, <1>1, PTL DEF Spec
=============================================================================
