-------------------------- MODULE RlinkBus_proofs ---------------------------
(***************************************************************************)
(* The bus FSM of rlink_core and the link FSM that drives it stay in step, *)
(* for every block length, rbus timeout and behaviour of slave and host:   *)
(* no pulse is missed, no byte is lost and data passes in order.           *)
(***************************************************************************)
EXTENDS RlinkBus, TLAPS

ReadState == {"rstart", "rreg0", "rreg1", "rwait", "rend", "rabo0", "rabo1"}
WriteState == {"wstart", "wreg0", "wreg1", "wabo0", "wabo1"}

\* The command in execution.
OpOK ==
  /\ op \in {"rreg", "wreg"} => lcnt = 1
  /\ lstate \in {"rstart", "txdat"} => op \in {"rreg", "rblk"}
  /\ lstate \in {"wblk2", "wblkl", "wblkh", "wwait1"} => op = "wblk"
  /\ lstate = "wwait0" => op \in {"wreg", "wblk"}

\* Which states of the bus FSM go with which state of the link FSM.
InStep ==
  /\ lstate \in {"txcmd", "rstart", "wblk2", "txdcnt"} => bstate = "idle"
  /\ lstate = "txdat" => bstate \in ReadState \cup {"idle"}
  /\ lstate = "wblkl" => bstate \in {"wstart", "wreg1", "wabo1"}
  /\ lstate = "wblkh" => bstate \in {"wreg0", "wabo0"}
  /\ lstate = "wwait0" => bstate \in WriteState
  /\ lstate = "wwait1" => bstate \in {"wreg1", "wabo1"} /\ cnt = 0
  /\ lstate = "txstat" => bstate = "idle" \/ (bstate = "wreg1" /\ cnt = 0)

\* The words still to do.
WordsLeft ==
  /\ bstate # "idle" => cnt <= lcnt
  /\ bstate \in {"rreg1", "rend", "rabo1", "wreg1", "wabo0", "wabo1"} => cnt < lcnt
  /\ bstate \in {"rstart", "rreg0", "rwait", "rabo0"} => cnt # 0
  /\ bstate = "rend" => cnt = 0
  /\ lstate \in {"wblkl", "wblkh"} => cnt >= 2
  /\ lstate = "wwait0" => cnt = 1

\* Write data: the word in din is the next one due.
WriteWord ==
  /\ lstate = "wblk2" => din = 1 /\ lbcnt = 2 * lcnt - 1
  /\ lstate \in {"wblkl", "wblkh", "wwait0"} => din = lcnt - cnt + 1
  /\ lstate = "wblkl" => lbcnt = 2 * cnt - 2
  /\ lstate = "wblkh" => lbcnt = 2 * cnt - 3

\* Bytes that came into DOFIFO by the time the bus FSM is in its state.
Pushed ==
  CASE bstate = "idle" -> 2 * lcnt
    [] bstate = "rreg1" -> 2 * (lcnt - cnt) - 2
    [] bstate = "rend" -> 2 * lcnt - 1
    [] bstate = "rabo1" -> 2 * (lcnt - cnt) - 1
    [] bstate = "rabo0" -> 2 * (lcnt - cnt)
    [] OTHER -> 2 * (lcnt - cnt) - (IF dathpend THEN 1 ELSE 0)

\* Read data: every byte pushed is in DOFIFO or has been taken.
ReadBytes ==
  /\ lstate = "rstart" => npush = 0
  /\ lstate # "txdat" => size = 0
  /\ lstate = "txdat" => /\ lbcnt \in 1..(2 * lcnt)
                         /\ npush = Pushed
                         /\ size + 2 * lcnt = npush + lbcnt
  /\ bstate \in {"rstart", "rreg0"} /\ dathpend => rbdout = lcnt - cnt
  /\ bstate \in {"rreg1", "rend", "rwait"} => rbdout = lcnt - cnt
  /\ bstate = "rwait" => dathpend
  /\ bstate = "rreg1" => ~dathpend

\* How full DOFIFO can be: reading pauses only after the word under way.
Room ==
  /\ ~wfifo => size <= High
  /\ bstate = "rstart" => size <= High
  /\ bstate = "rreg0" => size <= High + (IF dathpend THEN 1 ELSE 2)
  /\ bstate = "rreg1" => size <= High + 2
  /\ bstate \in {"rend", "rwait", "rabo1"} => size <= High + 3
  /\ bstate = "rabo0" => size <= High + 1

\* dcnt lags behind the cycles that went well by the one just ended.
Counted ==
  /\ lstate \in {"rstart", "wblk2"} => good = 0
  /\ lstate # "txcmd" =>
       good = dcnt + (IF bstate \in {"rreg1", "wreg1"} /\ ~blkabo THEN 1 ELSE 0)
  /\ bstate # "idle" => good <= lcnt - cnt

Inv == /\ TypeOK /\ OpOK /\ InStep /\ WordsLeft /\ WriteWord /\ ReadBytes
       /\ Room /\ Counted

-----------------------------------------------------------------------------
(* What follows from the invariant in one state.                            *)

\* There is always room for a byte that is pushed.
LEMMA RoomForByte == Inv => NoByteLost
  BY BusAssumption, MarginAssumption DEF Inv, TypeOK, Room, NoByteLost, DOFIFO_ENA

\* Which states of the link FSM go with reading and writing.
LEMMA LinkOfBus ==
  ASSUME Inv
  PROVE  /\ bstate \in ReadState => lstate = "txdat"
         /\ bstate \in WriteState =>
              lstate \in {"wblkl", "wblkh", "wwait0", "wwait1", "txstat"}
         /\ bstate = "idle" =>
              lstate \in {"txcmd", "rstart", "txdat", "wblk2", "txdcnt", "txstat"}
  BY DEF Inv, TypeOK, LState, BState, InStep, ReadState, WriteState

\* The reset state satisfies the invariant.
LEMMA InvInit == Init => Inv
<1> SUFFICES ASSUME Init PROVE Inv
  OBVIOUS
<1>1. lcnt \in 1..MaxCnt
  BY BusAssumption DEF Init, Op
<1>2. TypeOK
  <2>1. blkabo \in BOOLEAN /\ dathpend \in BOOLEAN /\ wfifo \in BOOLEAN
    BY DEF Init
  <2> QED
    BY <1>1, <2>1, BusAssumption, MarginAssumption DEF Init, TypeOK, LState, BState, Op
<1> QED
  BY <1>1, <1>2, BusAssumption DEF Init, Inv, Op, OpOK, InStep, WordsLeft, WriteWord,
     ReadBytes, Room, Counted

-----------------------------------------------------------------------------
(* One clock cycle.                                                         *)

\* DOFIFO in one cycle: no push is refused, and the pause flag follows the
\* fill level with a delay of one cycle.
LEMMA FifoTick ==
  ASSUME Inv, NEW h \in BOOLEAN, NEW s \in Sres, Tick(h, s)
  PROVE  /\ size' = size + (IF DOFIFO_ENA THEN 1 ELSE 0)
                         - (IF DOFIFO_RE(h) THEN 1 ELSE 0)
         /\ size' \in 0..FifoSize
         /\ wfifo' \in BOOLEAN
         /\ ~wfifo' => size' <= High
<1>1. size \in 0..FifoSize /\ wfifo \in BOOLEAN
  BY DEF Inv, TypeOK
<1>2. DOFIFO_ENA => size < FifoSize
  BY RoomForByte DEF NoByteLost
<1>3. DOFIFO_RE(h) => size > 0
  BY DEF DOFIFO_RE
<1>4. size' = size + (IF DOFIFO_ENA THEN 1 ELSE 0) - (IF DOFIFO_RE(h) THEN 1 ELSE 0)
  BY <1>1, <1>2 DEF Tick, FifoStep
<1>5. size' \in 0..FifoSize
  BY <1>1, <1>2, <1>3, <1>4, BusAssumption
<1>6. wfifo' \in BOOLEAN
  BY <1>1 DEF Tick, WFifo
<1>7. ~wfifo' => size < High
  BY <1>1, BusAssumption DEF Tick, WFifo, Inv, Room
<1>8. ~wfifo' => size' <= High
  BY <1>1, <1>4, <1>7, BusAssumption
<1> QED
  BY <1>4, <1>5, <1>6, <1>8

\* While a block is read the link FSM takes bytes or waits, and cannot be at
\* its last byte.
LEMMA ReadTick ==
  ASSUME Inv, NEW h \in BOOLEAN, NEW s \in Sres, Tick(h, s), bstate \in ReadState
  PROVE  /\ lstate = "txdat" /\ lstate' = "txdat" /\ UNCHANGED <<op, lcnt, din>>
         /\ lbcnt' \in 1..(2 * lcnt)
         /\ npush' = npush + (IF DOFIFO_ENA THEN 1 ELSE 0)
         /\ size' + 2 * lcnt = npush' + lbcnt'
         /\ size' <= size + (IF DOFIFO_ENA THEN 1 ELSE 0)
         /\ good' = good + (IF CycleEnd(s) /\ ~Failed(s) THEN 1 ELSE 0)
<1>1. lstate = "txdat"
  BY LinkOfBus
<1>2. /\ size \in Nat /\ lcnt \in Nat /\ cnt \in Nat /\ npush \in Nat
      /\ lbcnt \in 1..(2 * lcnt) /\ npush = Pushed /\ size + 2 * lcnt = npush + lbcnt
      /\ dathpend \in BOOLEAN
  BY <1>1, BusAssumption DEF Inv, TypeOK, ReadBytes
<1>3. npush < 2 * lcnt
  BY <1>2, BusAssumption DEF Inv, TypeOK, WordsLeft, Pushed, ReadState
<1>4. LinkTxDat(h)
  BY <1>1 DEF Tick, LinkStep, LinkTxCmd, LinkRstart, LinkWblk2, LinkWblkl, LinkWblkh,
     LinkWwait0, LinkWwait1, LinkTxDcnt, LinkTxStat
<1>5. DOFIFO_RE(h) => size > 0
  BY DEF DOFIFO_RE
<1>6. /\ lstate' = "txdat" /\ UNCHANGED <<op, lcnt, din>>
      /\ lbcnt' = lbcnt - (IF DOFIFO_RE(h) THEN 1 ELSE 0)
      /\ DOFIFO_RE(h) => lbcnt # 1
  BY <1>1, <1>2, <1>3, <1>4, <1>5 DEF LinkTxDat, lnkVars
<1>7. size' = size + (IF DOFIFO_ENA THEN 1 ELSE 0) - (IF DOFIFO_RE(h) THEN 1 ELSE 0)
  BY FifoTick
<1>8. /\ npush' = npush + (IF DOFIFO_ENA THEN 1 ELSE 0)
      /\ good' = good + (IF CycleEnd(s) /\ ~Failed(s) THEN 1 ELSE 0)
  BY <1>1 DEF Tick, Observe
<1>9. /\ lbcnt' \in 1..(2 * lcnt)
      /\ size' + 2 * lcnt = npush' + lbcnt'
      /\ size' <= size + (IF DOFIFO_ENA THEN 1 ELSE 0)
  BY <1>2, <1>6, <1>7, <1>8
<1> QED
  BY <1>1, <1>6, <1>8, <1>9

\* The parts of the invariant that every cycle of a read keeps alike.
LEMMA ReadFrame ==
  ASSUME Inv, NEW h \in BOOLEAN, NEW s \in Sres, Tick(h, s), bstate \in ReadState,
         bstate' \in ReadState \cup {"idle"},
         cnt' \in 0..MaxCnt, dcnt' \in 0..MaxCnt, btocnt' \in 0..BtoInit,
         blkabo' \in BOOLEAN, dathpend' \in BOOLEAN, rbdout' \in 0..MaxCnt,
         good' \in 0..MaxCnt, WordsLeft', npush' = Pushed',
         bstate' \in {"rstart", "rreg0"} /\ dathpend' => rbdout' = lcnt - cnt',
         bstate' \in {"rreg1", "rend", "rwait"} => rbdout' = lcnt - cnt',
         bstate' = "rwait" => dathpend',
         bstate' = "rreg1" => ~dathpend',
         Room', Counted'
  PROVE  Inv'
<1>1. /\ lstate = "txdat" /\ lstate' = "txdat" /\ UNCHANGED <<op, lcnt, din>>
      /\ lbcnt' \in 1..(2 * lcnt)
      /\ npush' = npush + (IF DOFIFO_ENA THEN 1 ELSE 0)
      /\ size' + 2 * lcnt = npush' + lbcnt'
  BY ReadTick
<1>2. size' \in 0..FifoSize /\ wfifo' \in BOOLEAN
  BY FifoTick
<1>3. npush' \in Nat /\ lbcnt' \in Nat
  BY <1>1 DEF Inv, TypeOK
<1>4. TypeOK'
  BY <1>1, <1>2, <1>3 DEF Inv, TypeOK, BState, ReadState
<1>5. OpOK' /\ InStep' /\ WriteWord'
  BY <1>1 DEF Inv, OpOK, InStep, WriteWord
<1>6. ReadBytes'
  BY <1>1 DEF ReadBytes
<1> QED
  BY <1>4, <1>5, <1>6 DEF Inv

\* A cycle of a read keeps the invariant.
LEMMA ReadStep ==
  ASSUME Inv, NEW h \in BOOLEAN, NEW s \in Sres, Tick(h, s), bstate \in ReadState
  PROVE  Inv'
<1>1. /\ lstate = "txdat" /\ lstate' = "txdat" /\ UNCHANGED <<op, lcnt, din>>
      /\ npush' = npush + (IF DOFIFO_ENA THEN 1 ELSE 0)
      /\ size' <= size + (IF DOFIFO_ENA THEN 1 ELSE 0)
      /\ good' = good + (IF CycleEnd(s) /\ ~Failed(s) THEN 1 ELSE 0)
      /\ size' \in Nat /\ (~wfifo' => size' <= High)
  BY ReadTick, FifoTick, BusAssumption
<1>2. /\ lcnt \in 1..MaxCnt /\ cnt \in 0..MaxCnt /\ dcnt \in 0..MaxCnt
      /\ btocnt \in 0..BtoInit /\ rbdout \in 0..MaxCnt /\ good \in 0..MaxCnt
      /\ size \in Nat /\ npush \in Nat
      /\ blkabo \in BOOLEAN /\ dathpend \in BOOLEAN /\ wfifo \in BOOLEAN
      /\ npush = Pushed
  BY <1>1, BusAssumption DEF Inv, TypeOK, ReadBytes
<1>3. BtoInit \in 0..BtoInit /\ MaxCnt \in Nat
  BY BusAssumption
<1> USE DEF Inv, WordsLeft, Room, Counted, ReadBytes
<1>4. CASE BusStart
  <2>1. /\ bstate = "rstart" /\ bstate' = "rreg0" /\ btocnt' = BtoInit
        /\ UNCHANGED <<cnt, dcnt, blkabo, dathpend, rbdout>>
        /\ ~DOFIFO_ENA /\ ~CycleEnd(s)
    BY <1>4 DEF BusStart, ReadState, DOFIFO_ENA, CycleEnd
  <2>2. WordsLeft'
    BY <1>1, <1>2, <1>3, <2>1
  <2>3. Room'
    BY <1>1, <1>2, <1>3, <2>1, BusAssumption
  <2>4. Counted'
    BY <1>1, <1>2, <1>3, <2>1
  <2>5. npush' = Pushed'
    BY <1>1, <1>2, <2>1 DEF Pushed
  <2> QED
    BY <1>1, <1>2, <1>3, <2>1, <2>2, <2>3, <2>4, <2>5, ReadFrame DEF ReadState
<1>5. CASE BusRreg0(s) /\ CycleEnd(s)
  <2>1. /\ bstate = "rreg0" /\ bstate' = "rreg1" /\ ~dathpend' /\ cnt' = cnt - 1
        /\ rbdout' = lcnt - cnt + 1 /\ UNCHANGED dcnt
    BY <1>5 DEF BusRreg0
  <2>2. blkabo' \in BOOLEAN /\ dathpend' \in BOOLEAN /\ (blkabo' <=> Failed(s))
    BY <1>5, Zenon DEF BusRreg0, Failed
  <2>3. btocnt' \in 0..BtoInit
    BY <1>2, <1>3, <1>5 DEF BusRreg0
  <2>4. cnt # 0 /\ cnt <= lcnt /\ (DOFIFO_ENA <=> dathpend)
    BY <2>1 DEF DOFIFO_ENA
  <2>5. cnt' \in 0..MaxCnt /\ rbdout' \in 0..MaxCnt /\ rbdout' = lcnt - cnt'
    BY <1>2, <1>3, <2>1, <2>4
  <2>6. WordsLeft'
    BY <1>1, <1>2, <2>1, <2>4
  <2>7. Room'
    BY <1>1, <1>2, <2>1, <2>4, BusAssumption
  <2>8. good' \in 0..MaxCnt /\ Counted'
    BY <1>1, <1>2, <1>3, <1>5, <2>1, <2>2, <2>4
  <2>9. npush' = Pushed'
    BY <1>1, <1>2, <2>1, <2>4 DEF Pushed
  <2> QED
    BY <1>1, <1>2, <2>1, <2>2, <2>3, <2>5, <2>6, <2>7, <2>8, <2>9, ReadFrame
       DEF ReadState
<1>6. CASE BusRreg0(s) /\ ~CycleEnd(s)
  <2>1. /\ bstate = "rreg0" /\ bstate' = "rreg0" /\ ~dathpend' /\ UNCHANGED <<cnt, dcnt>>
        /\ rbdout' = 0
    BY <1>6 DEF BusRreg0
  <2>2. blkabo' \in BOOLEAN /\ dathpend' \in BOOLEAN
    BY <1>6, Zenon DEF BusRreg0, Failed
  <2>3. btocnt' \in 0..BtoInit
    BY <1>2, <1>3, <1>6 DEF BusRreg0
  <2>4. cnt # 0 /\ cnt <= lcnt /\ (DOFIFO_ENA <=> dathpend)
    BY <2>1 DEF DOFIFO_ENA
  <2>5. WordsLeft'
    BY <1>1, <1>2, <2>1, <2>4
  <2>6. Room'
    BY <1>1, <1>2, <2>1, <2>4, BusAssumption
  <2>7. Counted'
    BY <1>1, <1>2, <1>3, <1>6, <2>1
  <2>8. npush' = Pushed'
    BY <1>1, <1>2, <2>1, <2>4 DEF Pushed
  <2> QED
    BY <1>1, <1>2, <1>3, <1>6, <2>1, <2>2, <2>3, <2>5, <2>6, <2>7, <2>8, ReadFrame
       DEF ReadState
<1>7. CASE BusRreg1
  <2>1. /\ bstate = "rreg1" /\ dathpend' /\ btocnt' = BtoInit
        /\ UNCHANGED <<cnt, blkabo, rbdout>>
        /\ dcnt' = (IF blkabo THEN dcnt ELSE dcnt + 1)
        /\ DOFIFO_ENA /\ ~CycleEnd(s)
    BY <1>7 DEF BusRreg1, DOFIFO_ENA, CycleEnd
  <2>2. /\ bstate' \in {"rend", "rabo1", "rwait", "rreg0"}
        /\ bstate' = "rend" <=> cnt = 0
        /\ bstate' = "rreg0" => ~wfifo
    BY <1>2, <1>7 DEF BusRreg1
  <2>3. dathpend' \in BOOLEAN /\ dcnt' \in 0..MaxCnt
    <3>1. dathpend' \in BOOLEAN
      BY <1>7 DEF BusRreg1
    <3>2. dcnt' \in 0..MaxCnt
      BY <1>1, <1>2, <1>3, <2>1
    <3> QED
      BY <3>1, <3>2
  <2>4. WordsLeft'
    BY <1>1, <1>2, <2>1, <2>2
  <2>5. Room'
    BY <1>1, <1>2, <2>1, <2>2, BusAssumption
  <2>6. Counted'
    BY <1>1, <1>2, <2>1, <2>2
  <2>7. npush' = Pushed'
    BY <1>1, <1>2, <2>1, <2>2 DEF Pushed
  <2> QED
    BY <1>1, <1>2, <1>3, <2>1, <2>2, <2>3, <2>4, <2>5, <2>6, <2>7, ReadFrame
       DEF ReadState
<1>8. CASE BusRwait
  <2>1. /\ bstate = "rwait" /\ bstate' \in {"rwait", "rstart"} /\ btocnt' = BtoInit
        /\ bstate' = "rstart" => ~wfifo
        /\ UNCHANGED <<cnt, dcnt, blkabo, dathpend, rbdout>>
        /\ ~DOFIFO_ENA /\ ~CycleEnd(s)
    BY <1>2, <1>8 DEF BusRwait, DOFIFO_ENA, CycleEnd
  <2>2. WordsLeft'
    BY <1>1, <1>2, <1>3, <2>1
  <2>3. Room'
    BY <1>1, <1>2, <1>3, <2>1, BusAssumption
  <2>4. Counted'
    BY <1>1, <1>2, <1>3, <2>1
  <2>5. npush' = Pushed'
    BY <1>1, <1>2, <2>1 DEF Pushed
  <2> QED
    BY <1>1, <1>2, <1>3, <2>1, <2>2, <2>3, <2>4, <2>5, ReadFrame DEF ReadState
<1>9. CASE BusRend
  <2>1. /\ bstate = "rend" /\ bstate' = "idle" /\ btocnt' = BtoInit
        /\ dathpend' \in BOOLEAN
        /\ UNCHANGED <<cnt, dcnt, blkabo, rbdout>>
        /\ DOFIFO_ENA /\ ~CycleEnd(s)
    BY <1>2, <1>9 DEF BusRend, DOFIFO_ENA, CycleEnd
  <2>2. WordsLeft'
    BY <1>1, <1>2, <1>3, <2>1
  <2>3. Room'
    BY <1>1, <1>2, <1>3, <2>1, BusAssumption
  <2>4. Counted'
    BY <1>1, <1>2, <1>3, <2>1
  <2>5. npush' = Pushed'
    BY <1>1, <1>2, <2>1 DEF Pushed
  <2> QED
    BY <1>1, <1>2, <1>3, <2>1, <2>2, <2>3, <2>4, <2>5, ReadFrame DEF ReadState
<1>10. CASE BusRabo0
  <2>1. /\ bstate = "rabo0" /\ bstate' = "rabo1" /\ btocnt' = BtoInit
        /\ cnt' = cnt - 1 /\ cnt # 0 /\ cnt' \in 0..MaxCnt
        /\ UNCHANGED <<dcnt, blkabo, dathpend, rbdout>>
        /\ DOFIFO_ENA /\ ~CycleEnd(s)
    BY <1>2, <1>3, <1>10 DEF BusRabo0, DOFIFO_ENA, CycleEnd
  <2>2. WordsLeft'
    BY <1>1, <1>2, <1>3, <2>1
  <2>3. Room'
    BY <1>1, <1>2, <1>3, <2>1, BusAssumption
  <2>4. Counted'
    BY <1>1, <1>2, <1>3, <2>1
  <2>5. npush' = Pushed'
    BY <1>1, <1>2, <2>1 DEF Pushed
  <2> QED
    BY <1>1, <1>2, <1>3, <2>1, <2>2, <2>3, <2>4, <2>5, ReadFrame DEF ReadState
<1>11. CASE BusRabo1
  <2>1. /\ bstate = "rabo1" /\ btocnt' = BtoInit /\ dathpend' \in BOOLEAN
        /\ bstate' \in {"rabo1", "rabo0", "idle"}
        /\ bstate' = "rabo1" <=> wfifo
        /\ bstate' = "rabo0" => cnt # 0
        /\ bstate' = "idle" => cnt = 0
        /\ UNCHANGED <<cnt, dcnt, blkabo, rbdout>>
        /\ DOFIFO_ENA <=> ~wfifo
        /\ ~CycleEnd(s)
    BY <1>2, <1>11 DEF BusRabo1, DOFIFO_ENA, CycleEnd
  <2>2. WordsLeft'
    BY <1>1, <1>2, <1>3, <2>1
  <2>3. Room'
    BY <1>1, <1>2, <1>3, <2>1, BusAssumption
  <2>4. Counted'
    BY <1>1, <1>2, <1>3, <2>1
  <2>5. npush' = Pushed'
    BY <1>1, <1>2, <2>1 DEF Pushed
  <2> QED
    BY <1>1, <1>2, <1>3, <2>1, <2>2, <2>3, <2>4, <2>5, ReadFrame DEF ReadState
<1>12. \/ BusStart \/ BusRreg0(s) \/ BusRreg1 \/ BusRwait \/ BusRend \/ BusRabo0
       \/ BusRabo1
  BY DEF Tick, BusStep, ReadState, BusIdle, BusWreg0, BusWreg1, BusWabo0, BusWabo1
<1> QED
  BY <1>4, <1>5, <1>6, <1>7, <1>8, <1>9, <1>10, <1>11, <1>12

\* While a block is written DOFIFO stays empty.
LEMMA WriteTick ==
  ASSUME Inv, NEW h \in BOOLEAN, NEW s \in Sres, Tick(h, s), bstate \in WriteState
  PROVE  /\ lstate \in {"wblkl", "wblkh", "wwait0", "wwait1", "txstat"}
         /\ size' = 0 /\ wfifo' \in BOOLEAN /\ npush' \in Nat
         /\ good' = good + (IF CycleEnd(s) /\ ~Failed(s) THEN 1 ELSE 0)
<1>1. lstate \in {"wblkl", "wblkh", "wwait0", "wwait1", "txstat"}
  BY LinkOfBus
<1>2. ~DOFIFO_ENA /\ ~DOFIFO_RE(h) /\ size = 0
  BY <1>1 DEF DOFIFO_ENA, DOFIFO_RE, WriteState, Inv, ReadBytes
<1>3. size' = 0 /\ wfifo' \in BOOLEAN
  BY <1>2, FifoTick
<1>4. /\ npush' \in Nat
      /\ good' = good + (IF CycleEnd(s) /\ ~Failed(s) THEN 1 ELSE 0)
  BY <1>1, <1>2 DEF Tick, Observe, Inv, TypeOK
<1> QED
  BY <1>1, <1>3, <1>4

\* The parts of the invariant that every cycle of a write keeps alike.
LEMMA WriteFrame ==
  ASSUME Inv, NEW h \in BOOLEAN, NEW s \in Sres, Tick(h, s), bstate \in WriteState,
         bstate' \in WriteState \cup {"idle"},
         lstate' \in {"wblkl", "wblkh", "wwait0", "wwait1", "txdcnt", "txstat", "txcmd"},
         op' \in Op, lcnt' \in 1..MaxCnt, lbcnt' \in Nat, din' \in 0..MaxCnt,
         cnt' \in 0..MaxCnt, dcnt' \in 0..MaxCnt, btocnt' \in 0..BtoInit,
         blkabo' \in BOOLEAN, UNCHANGED <<dathpend, rbdout>>, good' \in 0..MaxCnt,
         OpOK', InStep', WordsLeft', WriteWord', Counted'
  PROVE  Inv'
<1>1. size' = 0 /\ wfifo' \in BOOLEAN /\ npush' \in Nat
  BY WriteTick
<1>2. TypeOK'
  BY <1>1, BusAssumption DEF Inv, TypeOK, LState, BState, WriteState
<1>3. ReadBytes'
  BY <1>1 DEF ReadBytes, WriteState
<1>4. Room'
  BY <1>1, BusAssumption DEF Room, WriteState
<1> QED
  BY <1>2, <1>3, <1>4 DEF Inv

\* The link FSM in a cycle of a write that reports no word: it moves on to
\* wait for the word, or out of the command after the last one.
LEMMA LinkIdles ==
  ASSUME Inv, NEW h \in BOOLEAN, NEW s \in Sres, LinkStep(h, s), ~B2L_WDONE(s),
         lstate \in {"wblkl", "wblkh", "wwait0", "wwait1", "txstat"}
  PROVE  /\ UNCHANGED din /\ op' \in Op /\ lcnt' \in 1..MaxCnt /\ lbcnt' \in Nat
         /\ lstate = "wblkl" => lstate' = "wblkh" /\ lbcnt' = lbcnt - 1
         /\ lstate = "wblkh" => lstate' = "wblkh" /\ lbcnt' = lbcnt
         /\ lstate = "wwait0" => lstate' = "wwait0" /\ lbcnt' = lbcnt
         /\ lstate = "wwait1" => lstate' = "txdcnt" /\ lbcnt' = lbcnt
         /\ lstate = "txstat" => lstate' \in {"txstat", "txcmd"}
         /\ lstate' # "txcmd" => UNCHANGED <<op, lcnt>>
         /\ op' \in {"rreg", "wreg"} => lcnt' = 1
<1>1. /\ lbcnt \in Nat /\ lcnt \in 1..MaxCnt /\ op \in Op /\ MaxCnt \in Nat \ {0}
      /\ op \in {"rreg", "wreg"} => lcnt = 1
      /\ lstate = "wblkl" => lbcnt # 0
  BY BusAssumption DEF Inv, TypeOK, OpOK, WriteWord, WordsLeft
<1>2. CASE lstate = "wblkl"
  BY <1>1, <1>2 DEF LinkStep, LinkTxCmd, LinkRstart, LinkTxDat, LinkWblk2, LinkWblkl,
     LinkWblkh, LinkWwait0, LinkWwait1, LinkTxDcnt, LinkTxStat
<1>3. CASE lstate = "wblkh"
  BY <1>1, <1>3 DEF LinkStep, LinkTxCmd, LinkRstart, LinkTxDat, LinkWblk2, LinkWblkl,
     LinkWblkh, LinkWwait0, LinkWwait1, LinkTxDcnt, LinkTxStat
<1>4. CASE lstate = "wwait0"
  BY <1>1, <1>4 DEF LinkStep, LinkTxCmd, LinkRstart, LinkTxDat, LinkWblk2, LinkWblkl,
     LinkWblkh, LinkWwait0, LinkWwait1, LinkTxDcnt, LinkTxStat
<1>5. CASE lstate = "wwait1"
  BY <1>1, <1>5 DEF LinkStep, LinkTxCmd, LinkRstart, LinkTxDat, LinkWblk2, LinkWblkl,
     LinkWblkh, LinkWwait0, LinkWwait1, LinkTxDcnt, LinkTxStat
<1>6. CASE lstate = "txstat"
  <2>1. LinkTxStat(h)
    BY <1>6 DEF LinkStep, LinkTxCmd, LinkRstart, LinkTxDat, LinkWblk2, LinkWblkl,
       LinkWblkh, LinkWwait0, LinkWwait1, LinkTxDcnt
  <2> QED
    BY <1>1, <1>6, <2>1 DEF LinkTxStat, lnkVars, Op
<1> QED
  BY <1>2, <1>3, <1>4, <1>5, <1>6

\* ... and in a cycle that reports a word done: it puts up the next word, or
\* ends the command.
LEMMA LinkHeeds ==
  ASSUME Inv, NEW h \in BOOLEAN, NEW s \in Sres, LinkStep(h, s), B2L_WDONE(s)
  PROVE  /\ UNCHANGED <<op, lcnt>>
         /\ lstate \in {"wblkh", "wwait0"}
         /\ lstate = "wblkh" /\ cnt # 2 =>
              lstate' = "wblkl" /\ din' = din + 1 /\ lbcnt' = lbcnt - 1
         /\ lstate = "wblkh" /\ cnt = 2 =>
              lstate' = "wwait0" /\ din' = din + 1 /\ lbcnt' = lbcnt - 1
         /\ lstate = "wwait0" =>
              /\ UNCHANGED <<lbcnt, din>>
              /\ lstate' = IF op = "wblk" THEN "wwait1" ELSE "txstat"
<1>1. bstate \in {"wreg0", "wabo0"}
  BY DEF B2L_WDONE
<1>2. lstate \in {"wblkh", "wwait0"}
  BY <1>1, LinkOfBus DEF Inv, InStep, WriteState
<1>3. CASE lstate = "wblkh"
  <2>1. LinkWblkh(s)
    BY <1>3 DEF LinkStep, LinkTxCmd, LinkRstart, LinkTxDat, LinkWblk2, LinkWblkl,
       LinkWwait0, LinkWwait1, LinkTxDcnt, LinkTxStat
  <2>2. cnt \in Nat /\ cnt >= 2 /\ lbcnt = 2 * cnt - 3
    BY <1>3, BusAssumption DEF Inv, TypeOK, WordsLeft, WriteWord
  <2> QED
    BY <1>3, <2>1, <2>2 DEF LinkWblkh
<1>4. CASE lstate = "wwait0"
  BY <1>4 DEF LinkStep, LinkTxCmd, LinkRstart, LinkTxDat, LinkWblk2, LinkWblkl,
     LinkWblkh, LinkWwait0, LinkWwait1, LinkTxDcnt, LinkTxStat
<1> QED
  BY <1>2, <1>3, <1>4

\* A cycle of a write keeps the invariant.
LEMMA WriteStep ==
  ASSUME Inv, NEW h \in BOOLEAN, NEW s \in Sres, Tick(h, s), bstate \in WriteState
  PROVE  Inv'
<1>1. /\ lstate \in {"wblkl", "wblkh", "wwait0", "wwait1", "txstat"}
      /\ good' = good + (IF CycleEnd(s) /\ ~Failed(s) THEN 1 ELSE 0)
  BY WriteTick
<1>2. /\ lcnt \in 1..MaxCnt /\ cnt \in 0..MaxCnt /\ dcnt \in 0..MaxCnt
      /\ din \in 0..MaxCnt /\ lbcnt \in Nat /\ op \in Op
      /\ btocnt \in 0..BtoInit /\ good \in 0..MaxCnt /\ blkabo \in BOOLEAN
      /\ BtoInit \in 0..BtoInit /\ MaxCnt \in Nat \ {0}
  BY BusAssumption DEF Inv, TypeOK
<1>3. LinkStep(h, s)
  BY DEF Tick
<1> USE DEF Inv, OpOK, InStep, WordsLeft, WriteWord, Counted
<1>4. CASE \/ BusStart \/ BusWreg1 \/ BusWabo1
  <2>1. /\ bstate \in {"wstart", "wreg1", "wabo1"}
        /\ bstate' \in {"wreg0", "wabo0", "idle"}
        /\ bstate' = "idle" <=> bstate # "wstart" /\ cnt = 0
        /\ bstate' = "wabo0" => bstate # "wstart"
        /\ UNCHANGED <<cnt, blkabo, dathpend, rbdout>> /\ btocnt' = BtoInit
        /\ dcnt' = (IF bstate = "wreg1" /\ ~blkabo THEN dcnt + 1 ELSE dcnt)
        /\ ~CycleEnd(s) /\ ~B2L_WDONE(s)
    BY <1>4 DEF BusStart, BusWreg1, BusWabo1, WriteState, CycleEnd, B2L_WDONE
  <2>2. /\ UNCHANGED din /\ op' \in Op /\ lcnt' \in 1..MaxCnt /\ lbcnt' \in Nat
        /\ lstate = "wblkl" => lstate' = "wblkh" /\ lbcnt' = lbcnt - 1
        /\ lstate = "wblkh" => lstate' = "wblkh" /\ lbcnt' = lbcnt
        /\ lstate = "wwait0" => lstate' = "wwait0" /\ lbcnt' = lbcnt
        /\ lstate = "wwait1" => lstate' = "txdcnt" /\ lbcnt' = lbcnt
        /\ lstate = "txstat" => lstate' \in {"txstat", "txcmd"}
        /\ lstate' # "txcmd" => UNCHANGED <<op, lcnt>>
        /\ op' \in {"rreg", "wreg"} => lcnt' = 1
    BY <1>1, <1>3, <2>1, LinkIdles
  <2>3. lstate # "wblkh" /\ (lstate = "txstat" => cnt = 0 /\ bstate = "wreg1")
    BY <1>1, <2>1
  <2>4. dcnt' \in 0..MaxCnt /\ good' \in 0..MaxCnt
    BY <1>1, <1>2, <2>1
  <2>5. OpOK' /\ InStep'
    BY <1>1, <1>2, <2>1, <2>2, <2>3 DEF WriteState
  <2>6. WordsLeft'
    BY <1>1, <1>2, <2>1, <2>2, <2>3
  <2>7. WriteWord'
    <3>1. CASE lstate = "wblkl"
      BY <1>2, <2>1, <2>2, <3>1
    <3>2. CASE lstate = "wwait0"
      BY <1>2, <2>1, <2>2, <3>2
    <3>3. CASE lstate \in {"wwait1", "txstat"}
      BY <2>2, <3>3
    <3> QED
      BY <1>1, <2>3, <3>1, <3>2, <3>3
  <2>8. Counted'
    <3>1. good = dcnt' /\ good' = good /\ lstate' \notin {"rstart", "wblk2"}
      BY <1>1, <1>2, <2>1, <2>2, <2>3
    <3>2. bstate' # "idle" => UNCHANGED lcnt /\ good <= lcnt - cnt
      BY <1>1, <1>2, <2>1, <2>2, <2>3 DEF WriteState
    <3> QED
      BY <1>2, <2>1, <3>1, <3>2
  <2> QED
    BY <1>1, <1>2, <2>1, <2>2, <2>3, <2>4, <2>5, <2>6, <2>7, <2>8, WriteFrame
       DEF WriteState
<1>5. CASE BusWabo0 \/ (BusWreg0(s) /\ CycleEnd(s))
  <2>1. /\ bstate \in {"wabo0", "wreg0"} /\ B2L_WDONE(s)
        /\ bstate' = IF bstate = "wabo0" THEN "wabo1" ELSE "wreg1"
        /\ cnt' = cnt - 1 /\ UNCHANGED <<dcnt, dathpend, rbdout>>
        /\ CycleEnd(s) <=> bstate = "wreg0"
    BY <1>5 DEF BusWabo0, BusWreg0, B2L_WDONE, CycleEnd
  <2>2. /\ blkabo' \in BOOLEAN
        /\ bstate = "wreg0" => (blkabo' <=> Failed(s))
    BY <1>2, <1>5, <2>1 DEF BusWabo0, BusWreg0, Failed
  <2>3. btocnt' \in 0..BtoInit
    BY <1>2, <1>5 DEF BusWabo0, BusWreg0
  <2>4. /\ UNCHANGED <<op, lcnt>>
        /\ lstate \in {"wblkh", "wwait0"}
        /\ lstate = "wblkh" /\ cnt # 2 =>
             lstate' = "wblkl" /\ din' = din + 1 /\ lbcnt' = lbcnt - 1
        /\ lstate = "wblkh" /\ cnt = 2 =>
             lstate' = "wwait0" /\ din' = din + 1 /\ lbcnt' = lbcnt - 1
        /\ lstate = "wwait0" =>
             /\ UNCHANGED <<lbcnt, din>>
             /\ lstate' = IF op = "wblk" THEN "wwait1" ELSE "txstat"
    BY <1>3, <2>1, LinkHeeds
  <2>5. /\ cnt # 0 /\ cnt <= lcnt /\ cnt' \in 0..MaxCnt
        /\ lstate = "wblkh" => cnt >= 2 /\ lbcnt = 2 * cnt - 3 /\ din = lcnt - cnt + 1
        /\ lstate = "wwait0" => cnt = 1
    BY <1>2, <2>1, <2>4
  <2>6. din' \in 0..MaxCnt /\ lbcnt' \in Nat /\ good' \in 0..MaxCnt
    BY <1>1, <1>2, <2>1, <2>4, <2>5
  <2>7. OpOK' /\ InStep'
    BY <1>2, <2>1, <2>4, <2>5 DEF WriteState, Op
  <2>8. WordsLeft' /\ WriteWord'
    BY <1>2, <2>1, <2>4, <2>5
  <2>9. Counted'
    BY <1>1, <1>2, <2>1, <2>2, <2>4, <2>5
  <2> QED
    BY <1>2, <2>1, <2>2, <2>3, <2>4, <2>5, <2>6, <2>7, <2>8, <2>9, WriteFrame
       DEF WriteState
<1>6. CASE BusWreg0(s) /\ ~CycleEnd(s)
  <2>1. /\ bstate = "wreg0" /\ bstate' = "wreg0" /\ ~B2L_WDONE(s)
        /\ UNCHANGED <<cnt, dcnt, dathpend, rbdout>>
    BY <1>6 DEF BusWreg0, B2L_WDONE
  <2>2. blkabo' \in BOOLEAN
    BY <1>6, Zenon DEF BusWreg0, Failed
  <2>3. btocnt' \in 0..BtoInit
    BY <1>2, <1>6 DEF BusWreg0
  <2>4. /\ lstate \in {"wblkh", "wwait0"}
        /\ UNCHANGED <<lstate, op, lcnt, lbcnt, din>>
    BY <1>1, <1>3, <2>1, LinkIdles
  <2>5. good' = good
    BY <1>1, <1>2, <1>6
  <2>6. OpOK' /\ InStep' /\ WordsLeft' /\ WriteWord' /\ Counted'
    BY <2>1, <2>4, <2>5
  <2> QED
    BY <1>2, <2>1, <2>2, <2>3, <2>4, <2>5, <2>6, WriteFrame DEF WriteState
<1>7. BusStart \/ BusWreg0(s) \/ BusWreg1 \/ BusWabo0 \/ BusWabo1
  BY DEF Tick, BusStep, WriteState, BusIdle, BusRreg0, BusRreg1, BusRwait, BusRend,
     BusRabo0, BusRabo1
<1> QED
  BY <1>4, <1>5, <1>6, <1>7

\* A cycle in which the bus FSM is idle: it sees every start of the link FSM.
LEMMA IdleStep ==
  ASSUME Inv, NEW h \in BOOLEAN, NEW s \in Sres, Tick(h, s), bstate = "idle"
  PROVE  Inv'
<1>1. lstate \in {"txcmd", "rstart", "txdat", "wblk2", "txdcnt", "txstat"}
  BY LinkOfBus
<1>2. /\ lcnt \in 1..MaxCnt /\ cnt \in 0..MaxCnt /\ dcnt \in 0..MaxCnt
      /\ din \in 0..MaxCnt /\ lbcnt \in Nat /\ op \in Op /\ rbdout \in 0..MaxCnt
      /\ good \in 0..MaxCnt /\ size \in Nat /\ npush \in Nat
      /\ blkabo \in BOOLEAN /\ dathpend \in BOOLEAN
      /\ BtoInit \in 0..BtoInit /\ MaxCnt \in Nat \ {0} /\ High \in Nat
  BY BusAssumption DEF Inv, TypeOK
<1>3. ~DOFIFO_ENA /\ ~CycleEnd(s)
  BY DEF DOFIFO_ENA, CycleEnd
<1>4. /\ size' = size - (IF DOFIFO_RE(h) THEN 1 ELSE 0)
      /\ size' \in 0..FifoSize /\ wfifo' \in BOOLEAN
      /\ ~wfifo' => size' <= High
  BY <1>2, <1>3, FifoTick
<1>5. /\ npush' = IF lstate = "txcmd" THEN 0 ELSE npush
      /\ good' = IF lstate = "txcmd" THEN 0 ELSE good
  BY <1>2, <1>3 DEF Tick, Observe
<1>6. BusIdle(h) /\ LinkStep(h, s) /\ btocnt' = BtoInit /\ UNCHANGED rbdout
  BY DEF Tick, BusStep, BusIdle, BusStart, BusRreg0, BusRreg1, BusRwait, BusRend,
     BusRabo0, BusRabo1, BusWreg0, BusWreg1, BusWabo0, BusWabo1
<1>7. ASSUME L2B_GO(h)
      PROVE  /\ cnt' = lcnt /\ dcnt' = 0 /\ ~blkabo' /\ ~dathpend'
             /\ blkabo' \in BOOLEAN /\ dathpend' \in BOOLEAN
             /\ bstate' = CASE L2B_CMD = "stat" -> "idle"
                            [] L2B_CMD = "rblk" -> "rstart"
                            [] L2B_CMD = "wblk" -> "wstart"
  BY <1>6, <1>7 DEF BusIdle
<1>8. ASSUME ~L2B_GO(h)
      PROVE  UNCHANGED <<bstate, cnt, dcnt, blkabo, dathpend>>
  BY <1>6, <1>8 DEF BusIdle
<1> DEFINE Link == LinkTxCmd(h) \/ LinkRstart \/ LinkTxDat(h) \/ LinkWblk2
                   \/ LinkTxDcnt(h) \/ LinkTxStat(h)
<1>9. Link
  BY <1>1, <1>6 DEF LinkStep, LinkWblkl, LinkWblkh, LinkWwait0, LinkWwait1
<1> USE DEF Inv, OpOK, InStep, WordsLeft, WriteWord, ReadBytes, Room, Counted
<1>10. CASE lstate = "txcmd" /\ h
  <2>1. UNCHANGED <<lstate, op, lcnt, lbcnt, din>>
    BY <1>9, <1>10 DEF LinkTxCmd, LinkRstart, LinkTxDat, LinkWblk2, LinkTxDcnt, LinkTxStat
  <2>2. ~L2B_GO(h) /\ ~DOFIFO_RE(h)
    BY <1>10 DEF L2B_GO, DOFIFO_RE
  <2>3. TypeOK'
    BY <1>2, <1>4, <1>5, <1>6, <1>8, <1>10, <2>1, <2>2 DEF TypeOK
  <2> QED
    BY <1>2, <1>4, <1>5, <1>8, <1>10, <2>1, <2>2, <2>3
<1>11. CASE lstate = "txcmd" /\ ~h
  <2>1. /\ UNCHANGED <<op, lcnt>> /\ din' = 1 /\ lbcnt' = 2 * lcnt - 1
        /\ lstate' = CASE op \in {"rreg", "rblk"} -> "rstart"
                       [] op = "wreg" -> "wwait0"
                       [] op = "wblk" -> "wblk2"
    BY <1>9, <1>11 DEF LinkTxCmd, LinkRstart, LinkTxDat, LinkWblk2, LinkTxDcnt, LinkTxStat
  <2>2. L2B_GO(h) /\ ~DOFIFO_RE(h) /\ L2B_CMD = IF op = "wreg" THEN "wblk" ELSE "stat"
    BY <1>11 DEF L2B_GO, DOFIFO_RE, L2B_CMD
  <2>3. /\ op = "wreg" => lstate' = "wwait0" /\ bstate' = "wstart" /\ lcnt = 1
        /\ op = "wblk" => lstate' = "wblk2" /\ bstate' = "idle"
        /\ op \in {"rreg", "rblk"} => lstate' = "rstart" /\ bstate' = "idle"
    BY <1>7, <2>1, <2>2
  <2>4. lstate' \in LState /\ bstate' \in BState /\ lbcnt' \in Nat
    BY <1>2, <2>1, <2>3 DEF LState, BState, Op
  <2>5. TypeOK'
    <3>1. /\ cnt' \in 0..MaxCnt /\ dcnt' \in 0..MaxCnt /\ din' \in 0..MaxCnt
          /\ blkabo' \in BOOLEAN /\ dathpend' \in BOOLEAN
      BY <1>2, <1>7, <2>1, <2>2
    <3>2. UNCHANGED <<op, lcnt, rbdout>> /\ npush' = 0 /\ good' = 0 /\ btocnt' = BtoInit
      BY <1>5, <1>6, <1>11, <2>1
    <3> QED
      BY <1>2, <1>4, <2>4, <3>1, <3>2 DEF TypeOK
  <2>6. OpOK' /\ InStep' /\ WordsLeft' /\ WriteWord'
    BY <1>2, <1>7, <2>1, <2>2, <2>3 DEF Op, WriteState
  <2>7. ReadBytes' /\ Room' /\ Counted'
    BY <1>2, <1>4, <1>5, <1>7, <1>11, <2>1, <2>2, <2>3 DEF Op
  <2> QED
    BY <2>5, <2>6, <2>7
<1>12. CASE lstate = "rstart"
  <2>1. /\ UNCHANGED <<op, lcnt, din>> /\ lbcnt' = 2 * lcnt /\ lstate' = "txdat"
    BY <1>9, <1>12 DEF LinkTxCmd, LinkRstart, LinkTxDat, LinkWblk2, LinkTxDcnt, LinkTxStat
  <2>2. L2B_GO(h) /\ ~DOFIFO_RE(h) /\ L2B_CMD = "rblk"
    BY <1>12 DEF L2B_GO, DOFIFO_RE, L2B_CMD
  <2>3. bstate' = "rstart" /\ cnt' = lcnt /\ dcnt' = 0 /\ ~blkabo' /\ ~dathpend'
    BY <1>7, <2>2
  <2>4. TypeOK'
    BY <1>2, <1>4, <1>5, <1>6, <1>7, <1>12, <2>1, <2>2, <2>3 DEF TypeOK, LState, BState
  <2>5. OpOK' /\ InStep' /\ WordsLeft' /\ WriteWord'
    BY <1>2, <1>12, <2>1, <2>3 DEF ReadState
  <2>6. npush' = Pushed'
    BY <1>2, <1>5, <1>12, <2>1, <2>3 DEF Pushed
  <2>7. ReadBytes' /\ Room' /\ Counted'
    BY <1>2, <1>4, <1>5, <1>12, <2>1, <2>2, <2>3, <2>6
  <2> QED
    BY <2>4, <2>5, <2>7
<1>13. CASE lstate = "wblk2"
  <2>1. /\ UNCHANGED <<op, lcnt, din>> /\ lbcnt' = lbcnt - 1
        /\ lstate' = IF lbcnt = 1 THEN "wwait0" ELSE "wblkl"
    BY <1>9, <1>13 DEF LinkTxCmd, LinkRstart, LinkTxDat, LinkWblk2, LinkTxDcnt, LinkTxStat
  <2>2. L2B_GO(h) /\ ~DOFIFO_RE(h) /\ L2B_CMD = "wblk"
    BY <1>13 DEF L2B_GO, DOFIFO_RE, L2B_CMD
  <2>3. bstate' = "wstart" /\ cnt' = lcnt /\ dcnt' = 0 /\ ~blkabo' /\ ~dathpend'
    BY <1>7, <2>2
  <2>4. din = 1 /\ lbcnt = 2 * lcnt - 1
    BY <1>13
  <2>5. TypeOK'
    BY <1>2, <1>4, <1>5, <1>6, <1>7, <1>13, <2>1, <2>2, <2>3, <2>4 DEF TypeOK, LState, BState
  <2>6. OpOK' /\ InStep' /\ WordsLeft' /\ WriteWord'
    BY <1>2, <1>13, <2>1, <2>3, <2>4 DEF WriteState
  <2>7. ReadBytes' /\ Room' /\ Counted'
    BY <1>2, <1>4, <1>5, <1>13, <2>1, <2>2, <2>3
  <2> QED
    BY <2>5, <2>6, <2>7
<1>14. CASE lstate = "txdat"
  <2>1. UNCHANGED <<bstate, cnt, dcnt, blkabo, dathpend>>
    BY <1>8, <1>14 DEF L2B_GO
  <2>2. LinkTxDat(h)
    BY <1>9, <1>14 DEF LinkTxCmd, LinkRstart, LinkWblk2, LinkTxDcnt, LinkTxStat
  <2>3. /\ npush = 2 * lcnt /\ lbcnt \in 1..(2 * lcnt) /\ size = lbcnt
    BY <1>2, <1>14 DEF Pushed
  <2>4. /\ UNCHANGED <<op, lcnt, din>>
        /\ \/ ~DOFIFO_RE(h) /\ UNCHANGED <<lstate, lbcnt>>
           \/ DOFIFO_RE(h) /\ lbcnt # 1 /\ lstate' = "txdat" /\ lbcnt' = lbcnt - 1
           \/ /\ DOFIFO_RE(h) /\ lbcnt = 1 /\ lbcnt' = lbcnt
              /\ lstate' \in {"txdcnt", "txstat"}
    BY <1>14, <2>2 DEF LinkTxDat, lnkVars
  <2>5. TypeOK'
    BY <1>2, <1>4, <1>5, <1>6, <1>14, <2>1, <2>3, <2>4 DEF TypeOK, LState
  <2>6. OpOK' /\ InStep' /\ WordsLeft' /\ WriteWord'
    BY <1>2, <1>14, <2>1, <2>4
  <2>7. npush' = Pushed'
    BY <1>5, <1>14, <2>1, <2>3, <2>4 DEF Pushed
  <2>8. ReadBytes' /\ Room' /\ Counted'
    BY <1>2, <1>4, <1>5, <1>14, <2>1, <2>3, <2>4, <2>7
  <2> QED
    BY <2>5, <2>6, <2>8
<1>15. CASE lstate \in {"txdcnt", "txstat"}
  <2>1. UNCHANGED <<bstate, cnt, dcnt, blkabo, dathpend>> /\ ~DOFIFO_RE(h)
    BY <1>8, <1>15 DEF L2B_GO, DOFIFO_RE
  <2>2. LinkTxDcnt(h) \/ LinkTxStat(h)
    BY <1>9, <1>15 DEF LinkTxCmd, LinkRstart, LinkWblk2, LinkTxDat
  <2>3. /\ lstate' \in {"txdcnt", "txstat", "txcmd"} /\ UNCHANGED <<lbcnt, din>>
        /\ op' \in Op /\ lcnt' \in 1..MaxCnt /\ (op' \in {"rreg", "wreg"} => lcnt' = 1)
    BY <1>2, <2>2 DEF LinkTxDcnt, LinkTxStat, lnkVars
  <2>4. TypeOK'
    BY <1>2, <1>4, <1>5, <1>6, <1>15, <2>1, <2>3 DEF TypeOK, LState
  <2>5. OpOK' /\ InStep' /\ WordsLeft' /\ WriteWord'
    BY <2>1, <2>3
  <2>6. ReadBytes' /\ Room'
    <3>1. size = 0 /\ size' = 0
      BY <1>2, <1>4, <1>15, <2>1
    <3>2. bstate' = "idle" /\ lstate' \notin {"rstart", "txdat"}
      BY <2>1, <2>3
    <3>3. ReadBytes'
      BY <3>1, <3>2
    <3>4. Room'
      BY <1>4, <3>2
    <3> QED
      BY <3>3, <3>4
  <2>7. Counted'
    BY <1>2, <1>5, <1>15, <2>1, <2>3
  <2> QED
    BY <2>4, <2>5, <2>6, <2>7
<1> QED
  BY <1>1, <1>10, <1>11, <1>12, <1>13, <1>14, <1>15

\* Every cycle keeps the invariant.
LEMMA InvStep == Inv /\ [Next]_vars => Inv'
<1> SUFFICES ASSUME Inv, [Next]_vars PROVE Inv'
  OBVIOUS
<1>1. ASSUME NEW h \in BOOLEAN, NEW s \in Sres, Tick(h, s)
      PROVE  Inv'
  <2>1. bstate = "idle" \/ bstate \in ReadState \/ bstate \in WriteState
    BY DEF Inv, TypeOK, BState, ReadState, WriteState
  <2> QED
    BY <1>1, <2>1, ReadStep, WriteStep, IdleStep
<1>2. CASE UNCHANGED vars
  BY <1>2 DEF vars, lnkVars, busVars, Inv, TypeOK, OpOK, InStep, WordsLeft, WriteWord,
     ReadBytes, Pushed, Room, Counted
<1> QED
  BY <1>1, <1>2 DEF Next

-----------------------------------------------------------------------------
(* The theorems.                                                            *)

\* DOFIFO, whose BUSY output is not connected, is never written when full, if
\* reading pauses four bytes or more before (28 of 32 in the code), and dcnt
\* counts exactly the words done before the first error.
THEOREM NoByteIsLost == Spec => []BusInv
<1>1. Inv => DcntExact
  BY DEF Inv, TypeOK, InStep, Counted, DcntExact
<1>2. Inv => BusInv
  BY <1>1, RoomForByte DEF Inv, BusInv
<1> QED
  BY InvInit, InvStep, <1>2, PTL DEF Spec

\* The one cycle pulses L2B_GO and B2L_WDONE always find the other FSM in a
\* state that looks at them.
THEOREM PulsesHeeded == Spec => []NoPulseMissed
<1>1. Inv => NoPulseMissed
  <2> SUFFICES ASSUME Inv PROVE NoPulseMissed
    OBVIOUS
  <2>1. \A h \in BOOLEAN : L2B_GO(h) => bstate = "idle"
    BY DEF Inv, InStep, L2B_GO
  <2>2. ASSUME NEW s \in Sres, B2L_WDONE(s) PROVE lstate \in {"wblkh", "wwait0"}
    BY <2>2, LinkOfBus DEF Inv, InStep, B2L_WDONE, CycleEnd, WriteState
  <2> QED
    BY <2>1, <2>2 DEF NoPulseMissed
<1> QED
  BY InvInit, InvStep, <1>1, PTL DEF Spec

\* Read data leaves DOFIFO low byte first and word by word, and the word on the
\* bus in a write is the one that is due.
THEOREM DataPassesInOrder == Spec => []DataInOrder
<1>1. Inv => DataInOrder
  <2> SUFFICES ASSUME Inv PROVE DataInOrder
    OBVIOUS
  <2>1. ASSUME bstate = "rreg1" \/ bstate = "rend" \/ (bstate = "rreg0" /\ dathpend)
        PROVE  rbdout = npush \div 2 + 1 /\ (bstate = "rreg1" <=> npush % 2 = 0)
    <3>1. lstate = "txdat"
      BY <2>1, LinkOfBus DEF ReadState
    <3>2. /\ rbdout = lcnt - cnt /\ npush = Pushed /\ npush \in Nat
          /\ lcnt \in Nat /\ cnt \in Nat /\ cnt <= lcnt /\ (bstate = "rend" => cnt = 0)
      BY <2>1, <3>1, BusAssumption DEF Inv, TypeOK, ReadBytes, WordsLeft
    <3>3. IF bstate = "rreg1" THEN npush = 2 * (rbdout - 1) ELSE npush = 2 * (rbdout - 1) + 1
      BY <2>1, <3>2 DEF Pushed
    <3> QED
      BY <3>2, <3>3
  <2>2. lstate = "txcmd" => size = 0
    BY DEF Inv, ReadBytes
  <2>3. ASSUME bstate = "wreg0" PROVE din = lcnt - cnt + 1
    BY <2>3, LinkOfBus DEF Inv, InStep, WriteWord, WriteState
  <2> QED
    BY <2>1, <2>2, <2>3 DEF DataInOrder, ReadDataInOrder, WriteDataInOrder
<1> QED
  BY InvInit, InvStep, <1>1, PTL DEF Spec
=============================================================================
