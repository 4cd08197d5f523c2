---------------------------- MODULE RlinkPacketBuf ----------------------------
(***************************************************************************)
(* The packet framing of the host: RlinkPacketBufSnd and RlinkPacketBufRcv *)
(* (tools/src/librlink) as operators on symbols and on the receive buffer. *)
(*                                                                         *)
(* A symbol is one byte on the line, a tuple: the escape symbol, the code  *)
(* byte of a comma, or a plain byte known by what it stands for.  A crc    *)
(* symbol carries the bytes it was computed from, so a crc matches exactly *)
(* when the reader has seen these bytes.  Escaped data bytes (Xon, Xoff,   *)
(* Fill, Esc) come out of the receiver as the plain byte they stand for    *)
(* and are not told apart from it.                                         *)
(***************************************************************************)
EXTENDS Integers, Sequences, SequencesExt

Esc == <<"esc", "", 0>>
Ecode(c) == <<"code", c, 0>>
Junk == <<"junk", "", 0>>          \* a byte damaged on the line
NakCode == <<"nakc", "", 0>>
Crc(bytes) == <<"crc", "", 0, bytes>>

PutRawEsc(c) == <<Esc, Ecode(c)>>

\* A packet as it goes over the line: comma, payload, EOP.
Packet(first, payload) == PutRawEsc(first) \o payload \o PutRawEsc("eop")

\* The receive buffer: raw is the part of fRawBuf not yet processed, sop the
\* flag kFlagSopSeen, nak the flag kFlagNakSeen.
NewBuf == [raw |-> <<>>, state |-> "idle", esc |-> FALSE, sop |-> FALSE,
           pkt |-> <<>>, ndone |-> 0, crc |-> <<>>, nakindex |-> -1]

AcceptPacketKeepsCrc(b) ==
  [b EXCEPT !.state = "idle", !.sop = FALSE, !.pkt = <<>>, !.ndone = 0,
            !.nakindex = -1]
AcceptPacket(b) ==
  [b EXCEPT !.state = "idle", !.sop = FALSE, !.pkt = <<>>, !.ndone = 0,
            !.crc = <<>>, !.nakindex = -1]

\* One symbol in kRcvIdle: SOP and ATTN open a packet, all else is dropped.
ProcessDataIdle(b, s) ==
  CASE b.esc -> LET c == [b EXCEPT !.esc = FALSE]
                IN IF s \in {Ecode("sop"), Ecode("attn")}
                   THEN [c EXCEPT !.state = "fill", !.sop = s = Ecode("sop")]
                   ELSE c
    [] s = Esc -> [b EXCEPT !.esc = TRUE]
    [] OTHER -> b

\* One symbol in kRcvFill.  A NAK is legal once, in a response.
ProcessDataFill(b, s) ==
  CASE b.esc ->
         LET c == [b EXCEPT !.esc = FALSE]
         IN CASE s = Ecode("eop") -> [c EXCEPT !.state = "done"]
              [] s = Ecode("nak") /\ b.sop /\ b.nakindex < 0 ->
                   [c EXCEPT !.nakindex = Len(b.pkt)]
              [] OTHER -> [c EXCEPT !.state = "error"]
    [] s = Esc -> [b EXCEPT !.esc = TRUE]
    [] OTHER -> [b EXCEPT !.pkt = Append(@, s)]

\* ProcessData() goes through the raw buffer until a packet is complete or
\* damaged; what follows such a packet stays in the raw buffer.
ProcessDataDropsRest(b) ==
  LET Step(c, s) == CASE c.state = "idle" -> ProcessDataIdle(c, s)
                      [] c.state = "fill" -> ProcessDataFill(c, s)
                      [] OTHER -> c
  IN FoldLeft(Step, [b EXCEPT !.raw = <<>>], b.raw)
ProcessData(b) ==
  LET Step(c, s) == CASE c.state = "idle" -> ProcessDataIdle(c, s)
                      [] c.state = "fill" -> ProcessDataFill(c, s)
                      [] OTHER -> [c EXCEPT !.raw = Append(@, s)]
  IN FoldLeft(Step, [b EXCEPT !.raw = <<>>], b.raw)

PacketState(b) == CASE b.state \in {"idle", "fill"} -> "pend"
                    [] b.state = "done" -> IF b.sop THEN "resp" ELSE "attn"
                    [] OTHER -> "error"

CheckNak(b) == b.nakindex >= 0 /\ b.ndone = b.nakindex
CheckSize(b, n) == Len(b.pkt) - b.ndone >= n
NextByte(b) == b.pkt[b.ndone + 1]
GetWithCrc(b) == [b EXCEPT !.ndone = @ + 1, !.crc = Append(@, NextByte(b))]
SkipCrc(b) == [b EXCEPT !.ndone = @ + 1]
CheckCrc(b) == NextByte(b) = Crc(b.crc)
=============================================================================
