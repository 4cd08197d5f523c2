----------------------------- MODULE RlinkCore -----------------------------
(***************************************************************************)
(* The link state machine of rlink_core (rtl/vlib/rlink/rlink_core.vhd,    *)
(* proc_lnext) with its retransmit buffer: symbols come in from the host,  *)
(* a response packet goes out and is kept in the buffer, a NAK comma from  *)
(* the host sends it again.  The buffer is shared with the wblk command,   *)
(* which parks the data of the block above the response written so far     *)
(* until the data crc is checked.                                          *)
(*                                                                         *)
(* One step consumes or emits one byte or comma; the two bytes of a 16 bit *)
(* field go in one step where the two states treat them alike.  A byte is  *)
(* known by its place: Tx(k) is byte k of the response since the first     *)
(* command of the list, Rx(k) byte k of the data of a block.  The host is  *)
(* free to send any symbol at any time.  The bus FSM is in RlinkBus; here  *)
(* its block abort flag is arbitrary.                                      *)
(* rcmd and cnt are followed only where they hold a command and a count;   *)
(* what else passes through them (an attention pattern, an illegal code)   *)
(* is reloaded before it is used.                                          *)
(***************************************************************************)
EXTENDS Naturals

CONSTANTS RtTop,     \* top address of the retransmit buffer, rtaddr_tred + 1
          MaxCnt,    \* largest word count the host asks for
          MaxIn      \* bound on the number of symbols and fields sent

\* The counter has one bit less than the buffer address (cntawidth).
ASSUME CoreAssumption ==
  /\ RtTop \in Nat \ {0} /\ MaxIn \in Nat
  /\ MaxCnt \in Nat /\ 2 * MaxCnt < RtTop

VARIABLES
  state,             \* R_LREGS.state
  rcmd, cnt, bcnt, cmdseen, babo, doretra, nakdone, nakcode,
  anreq, anact, arpend,
  attn,              \* some bit of R_LREGS.attn is set
  anena, atoena,     \* R_CREGS
  rta, rtb,          \* rtaddra and rtaddrb, each with its red and bad flag
  rtbuf,             \* the memory
  dob,               \* RTBUF_DOB, the byte read last on port b
  nin,               \* symbols the host may still send
  sent               \* response bytes since the first command (auxiliary)

attnVars == <<anreq, arpend, attn, anena, atoena>>
flagVars == <<cmdseen, babo, doretra, nakdone, anact>>
bufVars  == <<rta, rtbuf, sent>>
vars == <<state, rcmd, cnt, bcnt, nakcode, attnVars, flagVars, bufVars, rtb,
          dob, nin>>

RxState == {"rxcmd", "rxaddr", "rxdat", "rxcnt", "rxccrc", "rxwblk", "rxdcrc"}
State == {"idle", "rxeop"} \cup RxState \cup
         {"txanot", "txsop", "txnak", "txnakcode", "txrtbuf", "txeop",
          "txcmd", "txcnt", "rstart", "txdat", "wblk", "wblk0", "wblk1",
          "wblk2", "wblkl", "wblkh", "wwait", "txdcnt", "txlabo", "attn",
          "txstat", "txcrcl", "txcrch"}
Cmd == {"rreg", "rblk", "wreg", "wblk", "labo", "attn", "init"}
Comma == {"sop", "eop", "nak", "attn"}
NakCode == {"frame", "cmd", "cnt", "ccrc", "dcrc", "rtovfl", "rtwblk"}

Tx(k) == <<"tx", k>>
Rx(k) == <<"rx", k>>
Empty == <<"none", 0>>
Byte == {Empty} \cup ({"tx", "rx"} \X Nat)
Pointer == [addr: 0..RtTop, red: BOOLEAN, bad: BOOLEAN]
Bottom == [addr |-> 0, red |-> FALSE, bad |-> FALSE]

Init ==
  /\ state = "idle" /\ rcmd = "rreg" /\ cnt = 0 /\ bcnt = 0
  /\ cmdseen = FALSE /\ babo = FALSE /\ doretra = FALSE /\ nakdone = FALSE
  /\ nakcode = "frame"
  /\ anreq = FALSE /\ anact = FALSE /\ arpend = FALSE /\ attn = FALSE
  /\ anena = FALSE /\ atoena = FALSE
  /\ rta = Bottom /\ rtb = Bottom
  /\ rtbuf = [k \in 0..RtTop |-> Empty] /\ dob = Empty
  /\ nin = MaxIn /\ sent = 0

-----------------------------------------------------------------------------
(* The retransmit buffer.                                                   *)

\* A pointer stops at the top address and is red there; one more access
\* makes it bad.
Inc(p) == IF p.red THEN [addr |-> p.addr, red |-> TRUE, bad |-> TRUE]
          ELSE [addr |-> p.addr + 1, red |-> p.addr + 1 = RtTop, bad |-> p.bad]

\* A response byte goes to the host and, through port a, into the buffer.
Put ==
  /\ rta' = Inc(rta)
  /\ rtbuf' = [rtbuf EXCEPT ![rta.addr] = Tx(sent + 1)]
  /\ sent' = sent + 1

\* The two bytes of a 16 bit field.
Put2 ==
  /\ rta' = Inc(Inc(rta))
  /\ rtbuf' = [rtbuf EXCEPT ![rta.addr] = Tx(sent + 1),
                            ![Inc(rta).addr] = Tx(sent + 2)]
  /\ sent' = sent + 2

\* Port b reads a byte, which is in dob one cycle later.
Fetch ==
  /\ dob' = rtbuf[rtb.addr]
  /\ rtb' = Inc(rtb)

-----------------------------------------------------------------------------
(* Attentions.                                                              *)

RaiseLam ==
  /\ attn' = TRUE
  /\ UNCHANGED <<state, rcmd, cnt, bcnt, nakcode, anreq, arpend, anena,
                 atoena, flagVars, bufVars, rtb, dob, nin>>

\* Request a notify: attention seen, or attn read overdue and atoena set.
RequestNotify ==
  /\ ~anreq
  /\ \/ attn /\ anena /\ ~arpend
     \/ arpend /\ atoena
  /\ anreq' = TRUE
  /\ UNCHANGED <<state, rcmd, cnt, bcnt, nakcode, arpend, attn, anena,
                 atoena, flagVars, bufVars, rtb, dob, nin>>

StartNotify ==
  /\ state = "idle" /\ anreq
  /\ anreq' = FALSE /\ arpend' = TRUE
  /\ state' = "txanot"
  /\ UNCHANGED <<rcmd, cnt, bcnt, nakcode, attn, anena, atoena, flagVars,
                 bufVars, rtb, dob, nin>>

TxAnot ==
  /\ state = "txanot"
  /\ anact' = TRUE
  /\ state' = "txcnt"
  /\ UNCHANGED <<rcmd, cnt, bcnt, nakcode, attnVars, cmdseen, babo, doretra,
                 nakdone, bufVars, rtb, dob, nin>>

-----------------------------------------------------------------------------
(* Input.                                                                   *)

Rcv == nin > 0 /\ nin' = nin - 1

\* sl_idle: SOP starts a list, ATTN asks for a notify, NAK for the response.
RxSop ==
  /\ state = "idle" /\ ~anreq /\ Rcv
  /\ cmdseen' = FALSE
  /\ state' = "txsop"
  /\ UNCHANGED <<rcmd, cnt, bcnt, nakcode, attnVars, babo, doretra, nakdone,
                 anact, bufVars, rtb, dob>>

RxAttn ==
  /\ state = "idle" /\ ~anreq /\ Rcv
  /\ state' = "txanot"
  /\ UNCHANGED <<rcmd, cnt, bcnt, nakcode, attnVars, flagVars, bufVars, rtb,
                 dob>>

RxNak ==
  /\ state = "idle" /\ ~anreq /\ Rcv
  /\ rtb' = Bottom
  /\ bcnt' = rta.addr
  /\ doretra' = TRUE
  /\ state' = "txsop"
  /\ UNCHANGED <<rcmd, cnt, nakcode, attnVars, cmdseen, babo, nakdone, anact,
                 bufVars, dob>>

\* Abort: the nak code is latched, the rest of the list will be skipped.
Abort(code) ==
  /\ nakcode' = code
  /\ state' = "txnak"

\* A comma inside a list; only EOP before a command is expected.
RxComma(c) ==
  /\ state \in RxState /\ Rcv
  /\ IF state = "rxcmd" /\ c = "eop" THEN state' = "txeop" /\ nakcode' = nakcode
                                     ELSE Abort("frame")
  /\ UNCHANGED <<rcmd, cnt, bcnt, attnVars, flagVars, bufVars, rtb, dob>>

\* The rest of an aborted list is skipped, any comma but EOP included.
RxSkip(c) ==
  /\ state = "rxeop" /\ Rcv
  /\ state' = IF c = "eop" THEN "txeop" ELSE "rxeop"
  /\ UNCHANGED <<rcmd, cnt, bcnt, nakcode, attnVars, flagVars, bufVars, rtb,
                 dob>>

\* sl_rxcmd: the first command of a list clears the retransmit buffer.
RxCmd(c) ==
  /\ state = "rxcmd" /\ Rcv
  /\ rcmd' = c
  /\ cnt' = 1
  /\ cmdseen' = TRUE
  /\ IF cmdseen
       THEN UNCHANGED <<nakdone, rta, sent>>
       ELSE nakdone' = FALSE /\ rta' = Bottom /\ sent' = 0
  /\ state' = IF c \in {"labo", "attn"} THEN "rxccrc" ELSE "rxaddr"
  /\ UNCHANGED <<bcnt, nakcode, attnVars, babo, doretra, anact, rtbuf, rtb,
                 dob>>

\* Command code 111.
RxBadCmd ==
  /\ state = "rxcmd" /\ Rcv
  /\ cnt' = 1
  /\ cmdseen' = TRUE
  /\ IF cmdseen
       THEN UNCHANGED <<nakdone, rta, sent>>
       ELSE nakdone' = FALSE /\ rta' = Bottom /\ sent' = 0
  /\ Abort("cmd")
  /\ UNCHANGED <<rcmd, bcnt, attnVars, babo, doretra, anact, rtbuf, rtb, dob>>

RxAddr ==
  /\ state = "rxaddr" /\ Rcv
  /\ state' = CASE rcmd = "rreg" -> "rxccrc"
                [] rcmd \in {"wreg", "init"} -> "rxdat"
                [] OTHER -> "rxcnt"
  /\ UNCHANGED <<rcmd, cnt, bcnt, nakcode, attnVars, flagVars, bufVars, rtb,
                 dob>>

RxDat ==
  /\ state = "rxdat" /\ Rcv
  /\ state' = "rxccrc"
  /\ UNCHANGED <<rcmd, cnt, bcnt, nakcode, attnVars, flagVars, bufVars, rtb,
                 dob>>

\* A count within the width of the counter, or one beyond it.
RxCnt(n) ==
  /\ state = "rxcnt" /\ Rcv
  /\ cnt' = n
  /\ state' = "rxccrc"
  /\ UNCHANGED <<rcmd, bcnt, nakcode, attnVars, flagVars, bufVars, rtb, dob>>

RxBadCnt ==
  /\ state = "rxcnt" /\ Rcv
  /\ Abort("cnt")
  /\ UNCHANGED <<rcmd, cnt, bcnt, attnVars, flagVars, bufVars, rtb, dob>>

RxCcrc(ok) ==
  /\ state = "rxccrc" /\ Rcv
  /\ IF ok THEN state' = "txcmd" /\ nakcode' = nakcode ELSE Abort("ccrc")
  /\ UNCHANGED <<rcmd, cnt, bcnt, attnVars, flagVars, bufVars, rtb, dob>>

-----------------------------------------------------------------------------
(* Framing of the response, retransmission.                                 *)

TxSop ==
  /\ state = "txsop"
  /\ IF doretra
       THEN IF rta.addr = 0
            THEN /\ state' = IF nakdone THEN "txnak" ELSE "txeop"
                 /\ UNCHANGED <<rtb, dob>>
            ELSE Fetch /\ state' = "txrtbuf"
       ELSE state' = "rxcmd" /\ UNCHANGED <<rtb, dob>>
  /\ UNCHANGED <<rcmd, cnt, bcnt, nakcode, attnVars, flagVars, bufVars,
                 nin>>

TxRtbuf ==
  /\ state = "txrtbuf"
  /\ bcnt' = bcnt - 1
  /\ IF bcnt # 1 THEN Fetch /\ state' = state
     ELSE /\ state' = IF nakdone THEN "txnak" ELSE "txeop"
          /\ UNCHANGED <<rtb, dob>>
  /\ UNCHANGED <<rcmd, cnt, nakcode, attnVars, flagVars, bufVars, nin>>

TxNak ==
  /\ state = "txnak"
  /\ nakdone' = TRUE
  /\ state' = "txnakcode"
  /\ UNCHANGED <<rcmd, cnt, bcnt, nakcode, attnVars, cmdseen, babo, doretra,
                 anact, bufVars, rtb, dob, nin>>

TxNakcode ==
  /\ state = "txnakcode"
  /\ state' = IF doretra THEN "txeop" ELSE "rxeop"
  /\ UNCHANGED <<rcmd, cnt, bcnt, nakcode, attnVars, flagVars, bufVars, rtb,
                 dob, nin>>

\* EOP ends the packet; sl_idle clears anact and doretra.
TxEop ==
  /\ state = "txeop"
  /\ anact' = FALSE /\ doretra' = FALSE
  /\ state' = "idle"
  /\ UNCHANGED <<rcmd, cnt, bcnt, nakcode, attnVars, cmdseen, babo, nakdone,
                 bufVars, rtb, dob, nin>>

-----------------------------------------------------------------------------
(* Command execution.                                                       *)

TxCmd ==
  /\ state = "txcmd"
  /\ Put
  /\ babo' = (babo /\ rcmd \notin {"rblk", "wblk"})
  /\ state' = CASE rcmd = "rreg" -> "rstart"
                [] rcmd = "rblk" -> "txcnt"
                [] rcmd = "wreg" -> "wwait"
                [] rcmd = "wblk" -> IF cnt # 0 THEN "wblk" ELSE "rxdcrc"
                [] rcmd = "labo" -> "txlabo"
                [] rcmd = "attn" -> "attn"
                [] rcmd = "init" -> "txstat"
  /\ UNCHANGED <<rcmd, cnt, bcnt, nakcode, attnVars, cmdseen, doretra,
                 nakdone, anact, rtb, dob, nin>>

\* A count or an attention pattern; that of a notify is not buffered.
TxCnt ==
  /\ state = "txcnt"
  /\ IF anact THEN UNCHANGED bufVars ELSE Put2
  /\ state' = CASE anact -> "txcrcl"
                [] ~anact /\ rcmd = "rblk" -> IF cnt # 0 THEN "rstart"
                                                         ELSE "txdcnt"
                [] OTHER -> "txstat"
  /\ UNCHANGED <<rcmd, cnt, bcnt, nakcode, attnVars, flagVars, rtb, dob,
                 nin>>

RStart ==
  /\ state = "rstart"
  /\ bcnt' = 2 * cnt
  /\ state' = "txdat"
  /\ UNCHANGED <<rcmd, cnt, nakcode, attnVars, flagVars, bufVars, rtb, dob,
                 nin>>

TxDat ==
  /\ state = "txdat"
  /\ Put
  /\ bcnt' = bcnt - 1
  /\ state' = IF bcnt # 1 THEN "txdat"
              ELSE IF rcmd = "rblk" THEN "txdcnt" ELSE "txstat"
  /\ UNCHANGED <<rcmd, cnt, nakcode, attnVars, flagVars, rtb, dob, nin>>

\* Mutant of WBlk: the data is parked at the bottom of the buffer.
WBlkAtBottom ==
  /\ state = "wblk"
  /\ rtb' = Bottom
  /\ bcnt' = 2 * cnt
  /\ state' = "rxwblk"
  /\ UNCHANGED <<rcmd, cnt, nakcode, attnVars, flagVars, bufVars, dob,
                 nin>>

\* wblk: port b takes over above the response and collects the data.
WBlk ==
  /\ state = "wblk"
  /\ rtb' = rta
  /\ bcnt' = 2 * cnt
  /\ state' = "rxwblk"
  /\ UNCHANGED <<rcmd, cnt, nakcode, attnVars, flagVars, bufVars, dob,
                 nin>>

RxWblk ==
  /\ state = "rxwblk" /\ Rcv
  /\ rtbuf' = [rtbuf EXCEPT ![rtb.addr] = Rx(2 * cnt - bcnt + 1)]
  /\ rtb' = Inc(rtb)
  /\ bcnt' = bcnt - 1
  /\ state' = IF bcnt = 1 THEN "rxdcrc" ELSE "rxwblk"
  /\ UNCHANGED <<rcmd, cnt, nakcode, attnVars, flagVars, rta, sent, dob>>

\* Mutant of RxDcrc: data that did not fit into the buffer is used.
RxDcrcUnchecked ==
  /\ state = "rxdcrc" /\ Rcv
  /\ rtb' = rta
  /\ bcnt' = 2 * cnt
  /\ state' = "wblk0"
  /\ UNCHANGED <<rcmd, cnt, nakcode, attnVars, flagVars, bufVars, dob>>

\* Data crc good: rewind port b, and go on if the data was stored.
RxDcrc ==
  /\ state = "rxdcrc" /\ Rcv
  /\ rtb' = rta
  /\ bcnt' = 2 * cnt
  /\ IF rtb.bad THEN Abort("rtwblk") ELSE state' = "wblk0" /\ nakcode' = nakcode
  /\ UNCHANGED <<rcmd, cnt, attnVars, flagVars, bufVars, dob>>

RxBadDcrc ==
  /\ state = "rxdcrc" /\ Rcv
  /\ Abort("dcrc")
  /\ UNCHANGED <<rcmd, cnt, bcnt, attnVars, flagVars, bufVars, rtb, dob>>

WBlk0 ==
  /\ state = "wblk0"
  /\ IF cnt # 0 THEN Fetch /\ state' = "wblk1"
                ELSE state' = "txdcnt" /\ UNCHANGED <<rtb, dob>>
  /\ UNCHANGED <<rcmd, cnt, bcnt, nakcode, attnVars, flagVars, bufVars,
                 nin>>

\* The low byte of a word is in dob, the high byte is fetched.
WBlkLow ==
  /\ state \in {"wblk1", "wblkl"}
  /\ Fetch
  /\ bcnt' = bcnt - 1
  /\ state' = IF state = "wblk1" THEN "wblk2" ELSE "wblkh"
  /\ UNCHANGED <<rcmd, cnt, nakcode, attnVars, flagVars, bufVars, nin>>

\* The high byte is in dob: the word goes to the bus.
WBlkHigh ==
  /\ state \in {"wblk2", "wblkh"}
  /\ bcnt' = bcnt - 1
  /\ IF bcnt # 1 THEN Fetch /\ state' = "wblkl"
                 ELSE state' = "wwait" /\ UNCHANGED <<rtb, dob>>
  /\ UNCHANGED <<rcmd, cnt, nakcode, attnVars, flagVars, bufVars, nin>>

\* The write is done; a write to RLCNTL sets anena and atoena.
WWait ==
  /\ state = "wwait"
  /\ state' = IF rcmd = "wblk" THEN "txdcnt" ELSE "txstat"
  /\ \/ UNCHANGED <<anena, atoena>>
     \/ anena' \in BOOLEAN /\ atoena' \in BOOLEAN
  /\ UNCHANGED <<rcmd, cnt, bcnt, nakcode, anreq, arpend, attn, flagVars,
                 bufVars, rtb, dob, nin>>

\* dcnt is sent; babo takes over blkabo of the bus FSM.
TxDcnt ==
  /\ state = "txdcnt"
  /\ Put2
  /\ babo' \in IF cnt = 0 THEN {FALSE} ELSE BOOLEAN
  /\ state' = "txstat"
  /\ UNCHANGED <<rcmd, cnt, bcnt, nakcode, attnVars, cmdseen, doretra,
                 nakdone, anact, rtb, dob, nin>>

TxLabo ==
  /\ state = "txlabo"
  /\ Put
  /\ state' = "txstat"
  /\ UNCHANGED <<rcmd, cnt, bcnt, nakcode, attnVars, flagVars, rtb, dob,
                 nin>>

Attn ==
  /\ state = "attn"
  /\ attn' = FALSE /\ arpend' = FALSE /\ anreq' = FALSE
  /\ state' = "txcnt"
  /\ UNCHANGED <<rcmd, cnt, bcnt, nakcode, anena, atoena, flagVars, bufVars,
                 rtb, dob, nin>>

TxStat ==
  /\ state = "txstat"
  /\ Put
  /\ state' = "txcrcl"
  /\ UNCHANGED <<rcmd, cnt, bcnt, nakcode, attnVars, flagVars, rtb, dob,
                 nin>>

TxCrcl ==
  /\ state = "txcrcl"
  /\ IF anact THEN UNCHANGED bufVars ELSE Put
  /\ state' = "txcrch"
  /\ UNCHANGED <<rcmd, cnt, bcnt, nakcode, attnVars, flagVars, rtb, dob,
                 nin>>

\* Mutant of TxCrch: the last byte is sent although it cannot be buffered.
TxCrchUnchecked ==
  /\ state = "txcrch"
  /\ IF anact THEN UNCHANGED bufVars ELSE Put
  /\ state' = CASE anact -> "txeop"
                [] ~anact /\ rcmd = "labo" /\ babo -> "rxeop"
                [] OTHER -> "rxcmd"
  /\ UNCHANGED <<rcmd, cnt, bcnt, nakcode, attnVars, flagVars, rtb, dob, nin>>

\* The last byte is sent only if it can be buffered, else the list is aborted.
TxCrch ==
  /\ state = "txcrch"
  /\ IF rta.red
       THEN Abort("rtovfl") /\ UNCHANGED bufVars
       ELSE /\ IF anact THEN UNCHANGED bufVars ELSE Put
            /\ state' = CASE anact -> "txeop"
                          [] ~anact /\ rcmd = "labo" /\ babo -> "rxeop"
                          [] OTHER -> "rxcmd"
            /\ nakcode' = nakcode
  /\ UNCHANGED <<rcmd, cnt, bcnt, attnVars, flagVars, rtb, dob, nin>>

-----------------------------------------------------------------------------
Host ==
  \/ RxSop \/ RxAttn \/ RxNak
  \/ \E c \in Comma : RxComma(c) \/ RxSkip(c)
  \/ \E c \in Cmd : RxCmd(c)
  \/ RxBadCmd \/ RxAddr \/ RxDat
  \/ \E n \in 0..MaxCnt : RxCnt(n)
  \/ RxBadCnt
  \/ \E ok \in BOOLEAN : RxCcrc(ok)
  \/ RxWblk \/ RxDcrc \/ RxBadDcrc

Core ==
  \/ RequestNotify \/ StartNotify \/ TxAnot
  \/ TxSop \/ TxRtbuf \/ TxNak \/ TxNakcode \/ TxEop
  \/ TxCmd \/ TxCnt \/ RStart \/ TxDat \/ WBlk \/ WBlk0 \/ WBlkLow \/ WBlkHigh
  \/ WWait \/ TxDcnt \/ TxLabo \/ Attn \/ TxStat \/ TxCrcl \/ TxCrch

Next == RaiseLam \/ Host \/ Core

Spec == Init /\ [][Next]_vars
-----------------------------------------------------------------------------
(* Properties.                                                              *)

\* Every variable keeps its type.
TypeOK ==
  /\ state \in State /\ rcmd \in Cmd /\ cnt \in Nat /\ bcnt \in Nat
  /\ cmdseen \in BOOLEAN /\ babo \in BOOLEAN /\ doretra \in BOOLEAN
  /\ nakdone \in BOOLEAN /\ nakcode \in NakCode
  /\ anreq \in BOOLEAN /\ anact \in BOOLEAN /\ arpend \in BOOLEAN
  /\ attn \in BOOLEAN /\ anena \in BOOLEAN /\ atoena \in BOOLEAN
  /\ rta \in Pointer /\ rtb \in Pointer
  /\ rtbuf \in [0..RtTop -> Byte] /\ dob \in Byte
  /\ nin \in Nat /\ sent \in Nat

\* A NAK from the host replays the response byte by byte from its start,
\* whatever was aborted, overflowed or parked in the buffer meanwhile.
RetransmitInOrder ==
  state = "txrtbuf" => bcnt \in 1..rta.addr /\ dob = Tx(rta.addr - bcnt + 1)

\* What is replayed is the whole response, unless the host has been told by a
\* NAK that it was cut short; so a replay that ends in EOP is complete.
RetransmitComplete == state = "idle" /\ ~nakdone => rta.addr = sent

\* The words written to the bus are the data of the block in their order,
\* although the block was parked in the buffer that holds the response.
WblkDataInOrder ==
  state \in {"wblk1", "wblk2", "wblkl", "wblkh"} =>
    bcnt \in 1..(2 * cnt) /\ dob = Rx(2 * cnt - bcnt + 1)

\* The types, and that a replay is complete: what a resend depends on between lists.
CoreInv == TypeOK /\ RetransmitComplete
=============================================================================
