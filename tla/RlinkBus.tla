------------------------------ MODULE RlinkBus ------------------------------
(***************************************************************************)
(* The bus FSM of rlink_core (rtl/vlib/rlink/rlink_core.vhd, proc_bnext)   *)
(* with the data phases of the link FSM that drive it, clock cycle by      *)
(* clock cycle.  The two machines share no handshake: the link FSM starts  *)
(* the bus with a one cycle pulse (L2B_GO), the bus reports each write     *)
(* with a one cycle pulse (B2L_WDONE), and read data crosses in DOFIFO,    *)
(* whose BUSY output is not connected.  That no pulse and no byte is lost  *)
(* rests on the states of the two machines being in step.                  *)
(*                                                                         *)
(* In every cycle the host side may hold (RL_HOLD) and the addressed slave *)
(* answers with any busy, ack and err.  A data word is known by its number *)
(* in the block.                                                           *)
(***************************************************************************)
EXTENDS Naturals

CONSTANTS FifoSize,   \* slots of DOFIFO
          High, Low,  \* fill levels at which reading pauses and goes on
          BtoInit,    \* start value of the rbus timeout counter
          MaxCnt      \* largest word count of a block

ASSUME BusAssumption ==
  /\ FifoSize \in Nat /\ High \in Nat /\ Low \in Nat /\ Low < High
  /\ BtoInit \in Nat /\ MaxCnt \in Nat \ {0}

\* Reading pauses early enough: bytes still to come fit above the upper level.
ASSUME MarginAssumption == High + 4 <= FifoSize

VARIABLES
  lstate, op, lcnt, lbcnt,   \* link FSM: state, command, cnt, bcnt
  din,                       \* number of the word in R_LREGS.din
  bstate, cnt, dcnt, btocnt, blkabo, dathpend, wfifo,   \* R_BREGS
  rbdout,                    \* number of the word in R_BREGS.rbdout, 0: none
  size,                      \* fill of DOFIFO
  npush,                     \* bytes of this block put into DOFIFO (auxiliary)
  good                       \* words done before the first error (auxiliary)

lnkVars == <<lstate, op, lcnt, lbcnt, din>>
busVars == <<bstate, cnt, dcnt, btocnt, blkabo, dathpend, rbdout>>
vars == <<lnkVars, busVars, wfifo, size, npush, good>>

LState == {"txcmd", "rstart", "txdat", "wblk2", "wblkl", "wblkh", "wwait0",
           "wwait1", "txdcnt", "txstat"}
BState == {"idle", "rstart", "rreg0", "rreg1", "rwait", "rend", "rabo0",
           "rabo1", "wstart", "wreg0", "wreg1", "wabo0", "wabo1"}
Op == {"rreg", "rblk", "wreg", "wblk"}

Init ==
  /\ lstate = "txcmd" /\ lbcnt = 0 /\ din = 0
  /\ op \in Op /\ lcnt \in IF op \in {"rreg", "wreg"} THEN {1} ELSE 1..MaxCnt
  /\ bstate = "idle" /\ cnt = 0 /\ dcnt = 0 /\ btocnt = BtoInit
  /\ blkabo = FALSE /\ dathpend = FALSE /\ wfifo = FALSE /\ rbdout = 0
  /\ size = 0 /\ npush = 0 /\ good = 0

-----------------------------------------------------------------------------
(* Combinational signals; h is RL_HOLD, s the response of the slave.        *)

Sres == [busy: BOOLEAN, ack: BOOLEAN, err: BOOLEAN]

L2B_GO(h) == lstate \in {"rstart", "wblk2"} \/ (lstate = "txcmd" /\ ~h)
L2B_CMD == CASE lstate = "rstart" -> "rblk"
             [] lstate = "wblk2" \/ (lstate = "txcmd" /\ op = "wreg") -> "wblk"
             [] OTHER -> "stat"

\* Mutant of CycleEnd: a busy slave is waited for without a timeout.
CycleEndNoTimeout(s) == bstate \in {"rreg0", "wreg0"} /\ ~s.busy

\* The rbus cycle ends: the slave is no longer busy, or the timeout expires.
CycleEnd(s) == bstate \in {"rreg0", "wreg0"} /\ (~s.busy \/ btocnt = 0)

\* ... with an error, a timeout or without acknowledge.
Failed(s) == blkabo \/ s.err \/ (CycleEnd(s) /\ (s.busy \/ ~s.ack))

B2L_WDONE(s) == bstate = "wabo0" \/ (bstate = "wreg0" /\ CycleEnd(s))

DOFIFO_ENA == \/ bstate \in {"rreg1", "rend", "rabo0"}
              \/ bstate = "rreg0" /\ dathpend
              \/ bstate = "rabo1" /\ ~wfifo
DOFIFO_RE(h) == lstate = "txdat" /\ size > 0 /\ ~h

-----------------------------------------------------------------------------
(* Link FSM.                                                                *)

LinkTxCmd(h) ==
  /\ lstate = "txcmd"
  /\ lstate' = IF h THEN "txcmd"
               ELSE CASE op \in {"rreg", "rblk"} -> "rstart"
                      [] op = "wreg" -> "wwait0"
                      [] op = "wblk" -> "wblk2"
  /\ din' = IF h THEN din ELSE 1
  /\ lbcnt' = IF h THEN lbcnt ELSE 2 * lcnt - 1
  /\ UNCHANGED <<op, lcnt>>

LinkRstart ==
  /\ lstate = "rstart"
  /\ lbcnt' = 2 * lcnt
  /\ lstate' = "txdat"
  /\ UNCHANGED <<op, lcnt, din>>

LinkTxDat(h) ==
  /\ lstate = "txdat"
  /\ CASE ~DOFIFO_RE(h) -> UNCHANGED lnkVars
       [] DOFIFO_RE(h) /\ lbcnt # 1 -> lbcnt' = lbcnt - 1
                                       /\ UNCHANGED <<lstate, op, lcnt, din>>
       [] OTHER -> lstate' = (IF op = "rblk" THEN "txdcnt" ELSE "txstat")
                   /\ UNCHANGED <<op, lcnt, lbcnt, din>>

\* sl_wblk2: the first word is in din, the bus is started.
LinkWblk2 ==
  /\ lstate = "wblk2"
  /\ lbcnt' = lbcnt - 1
  /\ lstate' = IF lbcnt = 1 THEN "wwait0" ELSE "wblkl"
  /\ UNCHANGED <<op, lcnt, din>>

LinkWblkl ==
  /\ lstate = "wblkl"
  /\ lbcnt' = lbcnt - 1
  /\ lstate' = "wblkh"
  /\ UNCHANGED <<op, lcnt, din>>

\* Mutant of LinkWblkh: the next word does not wait for the write of the last.
LinkWblkhNoWait(s) ==
  /\ lstate = "wblkh"
  /\ din' = din + 1
  /\ lbcnt' = lbcnt - 1
  /\ lstate' = IF lbcnt = 1 THEN "wwait0" ELSE "wblkl"
  /\ UNCHANGED <<op, lcnt>>

\* sl_wblkh: the next word waits until the write of the last is done.
LinkWblkh(s) ==
  /\ lstate = "wblkh"
  /\ IF B2L_WDONE(s)
       THEN /\ din' = din + 1
            /\ lbcnt' = lbcnt - 1
            /\ lstate' = IF lbcnt = 1 THEN "wwait0" ELSE "wblkl"
       ELSE UNCHANGED <<din, lbcnt, lstate>>
  /\ UNCHANGED <<op, lcnt>>

LinkWwait0(s) ==
  /\ lstate = "wwait0"
  /\ lstate' = IF B2L_WDONE(s)
               THEN IF op = "wblk" THEN "wwait1" ELSE "txstat"
               ELSE lstate
  /\ UNCHANGED <<op, lcnt, lbcnt, din>>

LinkWwait1 ==
  /\ lstate = "wwait1"
  /\ lstate' = "txdcnt"
  /\ UNCHANGED <<op, lcnt, lbcnt, din>>

LinkTxDcnt(h) ==
  /\ lstate = "txdcnt"
  /\ lstate' = IF h THEN "txdcnt" ELSE "txstat"
  /\ UNCHANGED <<op, lcnt, lbcnt, din>>

\* The command is completed; the next one that uses the bus is received.
LinkTxStat(h) ==
  /\ lstate = "txstat"
  /\ IF h THEN UNCHANGED lnkVars
     ELSE /\ lstate' = "txcmd"
          /\ op' \in Op
          /\ lcnt' \in IF op' \in {"rreg", "wreg"} THEN {1} ELSE 1..MaxCnt
          /\ UNCHANGED <<lbcnt, din>>

LinkStep(h, s) ==
  \/ LinkTxCmd(h) \/ LinkRstart \/ LinkTxDat(h) \/ LinkWblk2 \/ LinkWblkl
  \/ LinkWblkh(s) \/ LinkWwait0(s) \/ LinkWwait1 \/ LinkTxDcnt(h)
  \/ LinkTxStat(h)

-----------------------------------------------------------------------------
(* Bus FSM.                                                                 *)

BusIdle(h) ==
  /\ bstate = "idle"
  /\ IF L2B_GO(h)
       THEN /\ blkabo' = FALSE /\ dathpend' = FALSE
            /\ dcnt' = 0 /\ cnt' = lcnt
            /\ bstate' = CASE L2B_CMD = "stat" -> "idle"
                           [] L2B_CMD = "rblk" -> "rstart"
                           [] L2B_CMD = "wblk" -> "wstart"
       ELSE UNCHANGED <<bstate, cnt, dcnt, blkabo, dathpend>>
  /\ btocnt' = BtoInit /\ UNCHANGED rbdout

BusStart ==
  /\ bstate \in {"rstart", "wstart"}
  /\ bstate' = IF bstate = "rstart" THEN "rreg0" ELSE "wreg0"
  /\ btocnt' = BtoInit
  /\ UNCHANGED <<cnt, dcnt, blkabo, dathpend, rbdout>>

\* sb_rreg0: a pending high byte is sent while the next word is read.
BusRreg0(s) ==
  /\ bstate = "rreg0"
  /\ dathpend' = FALSE
  /\ blkabo' = Failed(s)
  /\ rbdout' = IF CycleEnd(s) THEN lcnt - cnt + 1 ELSE 0
  /\ cnt' = IF CycleEnd(s) THEN cnt - 1 ELSE cnt
  /\ bstate' = IF CycleEnd(s) THEN "rreg1" ELSE "rreg0"
  /\ btocnt' = IF btocnt = 0 THEN BtoInit ELSE btocnt - 1
  /\ UNCHANGED dcnt

BusRreg1 ==
  /\ bstate = "rreg1"
  /\ dathpend' = TRUE
  /\ dcnt' = IF blkabo THEN dcnt ELSE dcnt + 1
  /\ bstate' = CASE cnt = 0 -> "rend"
                 [] cnt # 0 /\ blkabo -> "rabo1"
                 [] OTHER -> IF wfifo THEN "rwait" ELSE "rreg0"
  /\ btocnt' = BtoInit
  /\ UNCHANGED <<cnt, blkabo, rbdout>>

BusRwait ==
  /\ bstate = "rwait"
  /\ bstate' = IF wfifo THEN "rwait" ELSE "rstart"
  /\ btocnt' = BtoInit
  /\ UNCHANGED <<cnt, dcnt, blkabo, dathpend, rbdout>>

BusRend ==
  /\ bstate = "rend"
  /\ dathpend' = FALSE
  /\ bstate' = "idle"
  /\ btocnt' = BtoInit
  /\ UNCHANGED <<cnt, dcnt, blkabo, rbdout>>

\* rblk abort: the words not read are padded with zero.
BusRabo0 ==
  /\ bstate = "rabo0"
  /\ cnt' = cnt - 1
  /\ bstate' = "rabo1"
  /\ btocnt' = BtoInit
  /\ UNCHANGED <<dcnt, blkabo, dathpend, rbdout>>

BusRabo1 ==
  /\ bstate = "rabo1"
  /\ dathpend' = (dathpend /\ wfifo)
  /\ bstate' = CASE wfifo -> "rabo1"
                 [] ~wfifo /\ cnt # 0 -> "rabo0"
                 [] OTHER -> "idle"
  /\ btocnt' = BtoInit
  /\ UNCHANGED <<cnt, dcnt, blkabo, rbdout>>

BusWreg0(s) ==
  /\ bstate = "wreg0"
  /\ blkabo' = Failed(s)
  /\ cnt' = IF CycleEnd(s) THEN cnt - 1 ELSE cnt
  /\ bstate' = IF CycleEnd(s) THEN "wreg1" ELSE "wreg0"
  /\ btocnt' = IF btocnt = 0 THEN BtoInit ELSE btocnt - 1
  /\ UNCHANGED <<dcnt, dathpend, rbdout>>

\* Mutant of BusWreg1: a failed write is counted as done.
BusWreg1CountsFailed ==
  /\ bstate = "wreg1"
  /\ dcnt' = dcnt + 1
  /\ bstate' = CASE cnt = 0 -> "idle"
                 [] cnt # 0 /\ blkabo -> "wabo0"
                 [] OTHER -> "wreg0"
  /\ btocnt' = BtoInit
  /\ UNCHANGED <<cnt, blkabo, dathpend, rbdout>>

BusWreg1 ==
  /\ bstate = "wreg1"
  /\ dcnt' = IF blkabo THEN dcnt ELSE dcnt + 1
  /\ bstate' = CASE cnt = 0 -> "idle"
                 [] cnt # 0 /\ blkabo -> "wabo0"
                 [] OTHER -> "wreg0"
  /\ btocnt' = BtoInit
  /\ UNCHANGED <<cnt, blkabo, dathpend, rbdout>>

\* Mutant of BusWabo0: the rest of the data is dropped without wait cycles.
BusWabo0NoWait ==
  /\ bstate = "wabo0"
  /\ cnt' = cnt - 1
  /\ bstate' = IF cnt = 1 THEN "wabo1" ELSE "wabo0"
  /\ btocnt' = BtoInit
  /\ UNCHANGED <<dcnt, blkabo, dathpend, rbdout>>

\* wblk abort: the rest of the data is dropped.
BusWabo0 ==
  /\ bstate = "wabo0"
  /\ cnt' = cnt - 1
  /\ bstate' = "wabo1"
  /\ btocnt' = BtoInit
  /\ UNCHANGED <<dcnt, blkabo, dathpend, rbdout>>

BusWabo1 ==
  /\ bstate = "wabo1"
  /\ bstate' = IF cnt # 0 THEN "wabo0" ELSE "idle"
  /\ btocnt' = BtoInit
  /\ UNCHANGED <<cnt, dcnt, blkabo, dathpend, rbdout>>

BusStep(h, s) ==
  \/ BusIdle(h) \/ BusStart \/ BusRreg0(s) \/ BusRreg1 \/ BusRwait \/ BusRend
  \/ BusRabo0 \/ BusRabo1 \/ BusWreg0(s) \/ BusWreg1 \/ BusWabo0 \/ BusWabo1

-----------------------------------------------------------------------------
(* DOFIFO, and the hysteresis on its fill level.                            *)

FifoStep(h) ==
  size' = size + (IF DOFIFO_ENA /\ size < FifoSize THEN 1 ELSE 0)
               - (IF DOFIFO_RE(h) THEN 1 ELSE 0)

WFifo == wfifo' = CASE size >= High -> TRUE
                    [] size <= Low -> FALSE
                    [] OTHER -> wfifo

\* Auxiliary counters of the current block.
Observe(h, s) ==
  /\ npush' = IF lstate = "txcmd" THEN 0
              ELSE npush + (IF DOFIFO_ENA THEN 1 ELSE 0)
  /\ good' = IF lstate = "txcmd" THEN 0
             ELSE good + (IF CycleEnd(s) /\ ~Failed(s) THEN 1 ELSE 0)

\* One clock cycle.
Tick(h, s) ==
  /\ LinkStep(h, s)
  /\ BusStep(h, s)
  /\ FifoStep(h)
  /\ WFifo
  /\ Observe(h, s)

Next == \E h \in BOOLEAN, s \in Sres : Tick(h, s)

\* The clock runs, and the host side does not hold back a byte for ever.
HostTakes ==
  \E s \in Sres : /\ lstate \in {"txcmd", "txdcnt", "txstat"} \/ DOFIFO_RE(FALSE)
                  /\ Tick(FALSE, s)

Spec == Init /\ [][Next]_vars
FairSpec == Spec /\ WF_vars(Next) /\ SF_vars(HostTakes)

-----------------------------------------------------------------------------
(* Properties.                                                              *)

\* Every variable keeps its type.
TypeOK ==
  /\ lstate \in LState /\ op \in Op /\ lcnt \in 1..MaxCnt /\ lbcnt \in Nat
  /\ din \in 0..MaxCnt
  /\ bstate \in BState /\ cnt \in 0..MaxCnt /\ dcnt \in 0..MaxCnt
  /\ btocnt \in 0..BtoInit /\ blkabo \in BOOLEAN /\ dathpend \in BOOLEAN
  /\ wfifo \in BOOLEAN /\ rbdout \in 0..MaxCnt
  /\ size \in 0..FifoSize /\ npush \in Nat /\ good \in 0..MaxCnt

\* The bus FSM listens when it is started, and the link FSM when a write is
\* reported: no one cycle pulse is missed, whatever errors and delays occur.
NoPulseMissed ==
  /\ \A h \in BOOLEAN : L2B_GO(h) => bstate = "idle"
  /\ \A s \in Sres : B2L_WDONE(s) => lstate \in {"wblkh", "wwait0"}

\* DOFIFO is never written when full: the level at which reading pauses
\* leaves room for every byte still to come.
NoByteLost == DOFIFO_ENA => size < FifoSize

\* Read data goes to the host low byte first, word by word, although the high
\* byte is sent only when the next bus cycle has started.
ReadDataInOrder ==
  /\ bstate = "rreg1" \/ bstate = "rend" \/ (bstate = "rreg0" /\ dathpend) =>
       /\ rbdout = npush \div 2 + 1
       /\ bstate = "rreg1" <=> npush % 2 = 0
  /\ lstate = "txcmd" => size = 0

\* While a write cycle is on the bus, din is the word that is due.
WriteDataInOrder == bstate = "wreg0" => din = lcnt - cnt + 1

\* Data passes in order in both directions.
DataInOrder == ReadDataInOrder /\ WriteDataInOrder

\* dcnt as sent to the host counts the words done before the first error.
DcntExact == lstate = "txdcnt" => dcnt = good

\* The counts are right: DOFIFO within its size, dcnt exact, the rest in its type.
BusInv == TypeOK /\ NoByteLost /\ DcntExact

\* Every transfer comes to an end, also with a slave that stays busy.
TransferEnds == lstate # "txcmd" ~> lstate = "txcmd"
=============================================================================
