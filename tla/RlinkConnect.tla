----------------------------- MODULE RlinkConnect -----------------------------
(***************************************************************************)
(* RlinkConnect (tools/src/librlink/RlinkConnect.cpp) over a port: command *)
(* lists are sent, responses and attention notifies are picked from a byte *)
(* stream that RlinkPort::Read() delivers in pieces of any size, late, or  *)
(* damaged.  The FPGA end answers as rlink_core does (module RlinkCore).   *)
(*                                                                         *)
(* The connection lock is held from begin to end of every operation, so    *)
(* one operation is under way at a time, whichever thread runs it.  server *)
(* tells whether an RlinkServer is active: then notifies go to it and      *)
(* WaitAttn() is refused; otherwise they are kept in fAttnNotiPatt.        *)
(***************************************************************************)
EXTENDS RlinkPacketBuf, FiniteSets

CONSTANTS Lists,     \* command lists that callers execute
          MaxExec,   \* bound: calls of Exec()
          MaxNoti,   \* bound: notifies sent by the FPGA
          MaxFault,  \* bound: damaged bytes, damaged requests and timeouts
          NSeq       \* sequence numbers per command code (32 in the code)

Code == {"rreg", "wreg", "rblk", "labo", "attn"}

ASSUME ConnectAssumption ==
  /\ Lists \subseteq Seq(Code) \ {<<>>}
  /\ {MaxExec, MaxNoti, MaxFault} \subseteq Nat
  /\ NSeq \in Nat \ {0}

VARIABLES
  server,   \* ServerActive()
  pc,       \* where the operation that holds the lock is
  seqNumber,   \* fSeqNumber, per command code
  clist,    \* list of the current or last Exec(): commands with their number
  buf,      \* fRcvPkt
  attnNotiPatt,   \* fAttnNotiPatt, as the set of notifies ored into it
  req,      \* requests on their way to the FPGA, with their fate
  line,     \* bytes on their way to the host
  open, arpend,   \* FPGA: a list is open, for want of its EOP; attn read pending
  answer, whole,  \* auxiliary: answers of the FPGA, lists executed to the end
  ret,      \* auxiliary: what the calls of Exec() have returned
  sent, got,      \* auxiliary: notifies sent, notifies handed over
  nfault, nlate

hostVars == <<pc, seqNumber, clist, buf, attnNotiPatt, ret, got>>
fpgaVars == <<open, arpend, answer, whole, sent>>
vars == <<server, hostVars, fpgaVars, req, line, nfault, nlate>>

Id == 1..MaxExec
Noti == 1..MaxNoti
Fail == [ok |-> FALSE, data |-> <<>>]
NExec == Len(ret) + IF pc \in {"snd", "resp", "respnext"} THEN 1 ELSE 0

Init ==
  /\ server \in BOOLEAN
  /\ pc = "idle" /\ seqNumber = [c \in Code |-> 0] /\ clist = <<>>
  /\ buf = NewBuf /\ attnNotiPatt = {} /\ req = <<>> /\ line = <<>>
  /\ open = "no" /\ arpend = FALSE
  /\ answer = [i \in Id |-> <<>>] /\ whole = {} /\ ret = <<>>
  /\ sent = {} /\ got = {} /\ nfault = 0 /\ nlate = 0

-----------------------------------------------------------------------------
(* Bytes of a command and of a notify.                                      *)

CmdByte(cmd) == <<"cmd", cmd.code, cmd.seq>>
CntByte == <<"cnt", "", 0>>
DatByte(on, v) == <<"dat", IF on THEN "on" ELSE "off", v>>
PatByte(n) == <<"pat", "", n>>

\* rcv: command, for rblk the count, data with status, crc.
RcvSize(cmd) == IF cmd.code = "rblk" THEN 4 ELSE 3

\* EncodeRequest() numbers the commands of each code.
EncodeRequest(codes) ==
  [k \in DOMAIN codes |->
     LET c == codes[k]
         before == Cardinality({j \in 1..(k - 1) : codes[j] = c})
     IN [code |-> c, seq |-> (seqNumber[c] + before) % NSeq]]
NumberedOnce(codes) == seqNumber
Numbered(codes) ==
  [c \in Code |->
     (seqNumber[c] + Cardinality({j \in DOMAIN codes : codes[j] = c})) % NSeq]

-----------------------------------------------------------------------------
(* DecodeResponse(): command by command, from where the buffer stands.      *)

\* d.ok is FALSE after a return -1; the buffer keeps what was consumed.
DecodeCommand(d, cmd) ==
  LET b0 == d.b
      b1 == GetWithCrc(b0)
      b2 == IF cmd.code = "rblk" THEN GetWithCrc(b1) ELSE b1
      b3 == GetWithCrc(b2)
      bad(b) == [d EXCEPT !.ok = FALSE, !.b = b]
  IN CASE ~d.ok \/ d.labo -> d
       [] CheckNak(b0) \/ ~CheckSize(b0, RcvSize(cmd)) -> bad(b0)
       [] NextByte(b0) # CmdByte(cmd) -> bad(b1)
       [] cmd.code = "rblk" /\ NextByte(b1) # CntByte -> bad(b2)
       [] ~CheckCrc(b3) -> bad(SkipCrc(b3))
       [] OTHER -> [ok |-> TRUE, b |-> SkipCrc(b3),
                    labo |-> cmd.code = "labo" /\ NextByte(b2)[2] = "on",
                    data |-> Append(d.data, NextByte(b2)[3])]

DecodeResponse(b) ==
  FoldLeft(DecodeCommand, [ok |-> TRUE, b |-> b, labo |-> FALSE, data |-> <<>>],
           clist)

\* DecodeAttnNotify(): the pattern, as a set of notifies; {} if damaged.
DecodeAttnNotify(b) ==
  IF CheckSize(b, 2) /\ CheckCrc(GetWithCrc(b)) THEN {NextByte(b)[3]} ELSE {}

ProcessAttnNotify(b) ==
  LET pat == DecodeAttnNotify(b)
  IN /\ buf' = AcceptPacket(b)
     /\ got' = got \cup pat
     /\ attnNotiPatt' = IF server THEN attnNotiPatt ELSE attnNotiPatt \cup pat

-----------------------------------------------------------------------------
(* Reading from the port.                                                   *)

Rest == UNCHANGED <<server, fpgaVars, req, nfault>>

\* RlinkPort::Read() returns some of the bytes that are on their way;
\* PollRead() times out while they are late.  ReadData() is refused while
\* the raw buffer holds data.
CanRead == buf.raw = <<>>
Chunk(n) == /\ line' = SubSeq(line, n + 1, Len(line)) /\ UNCHANGED nlate
Filled(n) == [buf EXCEPT !.raw = SubSeq(line, 1, n)]
Late == /\ nfault + nlate < MaxFault /\ nlate' = nlate + 1 /\ UNCHANGED line

Returned(r) == ret' = Append(ret, r)
Keep(b) == buf' = b /\ UNCHANGED <<attnNotiPatt, got>>

\* Exec() and ExecPart(): the request is encoded ...
Exec(codes) ==
  /\ pc = "idle" /\ NExec < MaxExec
  /\ clist' = EncodeRequest(codes) /\ seqNumber' = Numbered(codes)
  /\ pc' = "snd"
  /\ UNCHANGED <<server, buf, attnNotiPatt, ret, got, fpgaVars, req, line, nfault,
                 nlate>>
\* ... and sent.  fate is what becomes of it: it arrives, is damaged, or lost,
\* or loses its EOP.  If the write fails, Exec() returns false, with a first
\* part of the request possibly under way.
Damage == {"nak", "mute", "open"}
SndPacket(fate, ok) ==
  /\ pc = "snd"
  /\ \/ fate = "ok" /\ ok /\ UNCHANGED nfault
     \/ fate \in Damage /\ nfault + nlate < MaxFault /\ nfault' = nfault + 1
  /\ req' = Append(req, [id |-> NExec, cmds |-> clist, fate |-> fate])
  /\ IF ok THEN pc' = "resp" /\ UNCHANGED ret
           ELSE pc' = "idle" /\ Returned(Fail)
  /\ UNCHANGED <<server, seqNumber, clist, buf, attnNotiPatt, got, fpgaVars, line,
                 nlate>>

\* The end of ExecPart(): decode what there is; a complete response is
\* accepted and the rest of the raw buffer processed, else an exception
\* leaves the packet in the buffer.
FinishLeavesRest(b) ==
  LET d == DecodeResponse(b)
  IN /\ Returned(IF d.ok THEN [ok |-> TRUE, data |-> d.data] ELSE Fail)
     /\ buf' = IF d.ok THEN AcceptPacket(d.b) ELSE d.b
     /\ pc' = "idle"
     /\ UNCHANGED <<seqNumber, clist, attnNotiPatt, got>>
Finish(b) ==
  LET d == DecodeResponse(b)
  IN /\ Returned(IF d.ok THEN [ok |-> TRUE, data |-> d.data] ELSE Fail)
     /\ buf' = IF d.ok THEN AcceptPacket(d.b) ELSE d.b
     /\ pc' = IF d.ok THEN "unsol" ELSE "idle"
     /\ UNCHANGED <<seqNumber, clist, attnNotiPatt, got>>

\* One packet in the inner loop of ReadResponse(); b is the buffer after
\* ProcessData().  The loop goes on while the raw buffer holds data.
Again(b, next, read) == pc' = IF b.raw = <<>> THEN read ELSE next
RespPacket(b) ==
  /\ \/ PacketState(b) = "resp" /\ Finish(b)
     \/ /\ PacketState(b) # "resp" /\ Again(b, "respnext", "resp")
        /\ CASE PacketState(b) = "attn" -> ProcessAttnNotify(b)
             [] PacketState(b) = "error" -> Keep(AcceptPacket(b))
             [] OTHER -> Keep(b)
        /\ UNCHANGED <<seqNumber, clist, ret>>

\* ReadResponse(): a read, with the first packet found in it ...
RespRead(n) ==
  /\ pc = "resp" /\ CanRead
  /\ Chunk(n) /\ RespPacket(ProcessData(Filled(n))) /\ Rest
\* ... and the next packets of the same read.
RespNext ==
  /\ pc = "respnext"
  /\ RespPacket(ProcessData(buf)) /\ UNCHANGED <<line, nlate>> /\ Rest
\* Timeout in the port: the partial packet stays and is decoded.
RespTimeout ==
  /\ pc = "resp" /\ CanRead /\ Late /\ Finish(buf) /\ Rest
\* The time is over in the loop, with data still coming.
RespExpired ==
  /\ pc = "resp" /\ Late /\ Finish(AcceptPacket(buf)) /\ Rest
\* ReadData() throws out of Exec().
RespThrow ==
  /\ pc = "resp" /\ ~CanRead
  /\ pc' = "idle" /\ Returned(Fail)
  /\ UNCHANGED <<seqNumber, clist, buf, attnNotiPatt, got, line, nlate>> /\ Rest

\* ProcessUnsolicitedData(), at the end of ExecPart() and for the server.
ProcessUnsolicitedData ==
  /\ pc = "unsol"
  /\ IF CanRead THEN pc' = "idle" /\ Keep(buf)
     ELSE LET b == ProcessData(buf)
          IN /\ pc' = "unsol"
             /\ CASE PacketState(b) = "attn" -> ProcessAttnNotify(b)
                  [] PacketState(b) = "pend" -> Keep(b)
                  [] OTHER -> Keep(AcceptPacket(b))
  /\ UNCHANGED <<seqNumber, clist, ret, line, nlate>> /\ Rest

\* HandleUnsolicitedData(), called by the server when the port is readable.
HandleUnsolicitedData(n) ==
  /\ pc = "idle" /\ server /\ CanRead
  /\ Chunk(n) /\ pc' = "unsol" /\ Keep(Filled(n))
  /\ UNCHANGED <<seqNumber, clist, ret>> /\ Rest

\* WaitAttn(): harvest what is pending ...
WaitHarvest ==
  /\ pc = "idle" /\ ~server /\ attnNotiPatt # {}
  /\ attnNotiPatt' = {}
  /\ UNCHANGED <<pc, seqNumber, clist, buf, ret, got, line, nlate>> /\ Rest
\* ... or wait; a notify ends the wait at once, with the raw buffer as it is.
WaitBegin ==
  /\ pc = "idle" /\ ~server /\ attnNotiPatt = {}
  /\ pc' = "wait" /\ Keep(buf)
  /\ UNCHANGED <<seqNumber, clist, ret, line, nlate>> /\ Rest
WaitPacket(b) ==
  /\ CASE PacketState(b) = "attn" ->
            LET pat == DecodeAttnNotify(b)
            IN /\ buf' = AcceptPacket(b) /\ got' = got \cup pat
               /\ IF pat = {} THEN Again(b, "waitnext", "wait")
                              ELSE pc' = "idle"
               /\ UNCHANGED attnNotiPatt
       [] PacketState(b) = "pend" -> Keep(b) /\ Again(b, "waitnext", "wait")
       [] OTHER -> Keep(AcceptPacket(b)) /\ Again(b, "waitnext", "wait")
  /\ UNCHANGED <<seqNumber, clist, ret>>
WaitRead(n) ==
  /\ pc = "wait" /\ CanRead
  /\ Chunk(n) /\ WaitPacket(ProcessData(Filled(n))) /\ Rest
WaitNext ==
  /\ pc = "waitnext"
  /\ WaitPacket(ProcessData(buf)) /\ UNCHANGED <<line, nlate>> /\ Rest
\* Timeout; or ReadData() throws.
WaitEnd ==
  /\ pc = "wait" /\ pc' = "idle" /\ Keep(buf)
  /\ UNCHANGED <<seqNumber, clist, ret, line, nlate>> /\ Rest

-----------------------------------------------------------------------------
(* The FPGA end and the line.                                               *)

\* The response bytes of the first n commands, on tells a labo to abort.
Response(id, cmds, n, on) ==
  LET Body(k) == <<CmdByte(cmds[k])>>
                 \o (IF cmds[k].code = "rblk" THEN <<CntByte>> ELSE <<>>)
                 \o <<DatByte(on /\ cmds[k].code = "labo", 10 * id + k)>>
      Bodies(k) == FlattenSeq([j \in 1..k |-> Body(j)])
  IN FlattenSeq([k \in 1..n |-> Body(k) \o <<Crc(Bodies(k))>>])
Nak == PutRawEsc("nak") \o <<NakCode>>

\* A labo that is active ends the list.
Executed(cmds, n, on) ==
  LET labos == {k \in 1..n : on /\ cmds[k].code = "labo"}
  IN IF labos = {} THEN n ELSE Min(labos)
Complete(cmds, m, on) ==
  m = Len(cmds) \/ (m > 0 /\ on /\ cmds[m].code = "labo")

FpgaAnswer ==
  /\ req # <<>> /\ open = "no" /\ Head(req).fate # "mute"
  /\ LET r == Head(req)
     IN \E n \in 0..Len(r.cmds), on \in BOOLEAN :
          LET m == Executed(r.cmds, n, on)
              bytes == Response(r.id, r.cmds, m, on)
          IN /\ r.fate # "nak" => n = Len(r.cmds)
             /\ line' = line \o CASE r.fate = "ok" -> Packet("sop", bytes)
                                  [] r.fate = "nak" -> Packet("sop", bytes \o Nak)
                                  [] OTHER -> PutRawEsc("sop") \o bytes
             /\ open' = IF r.fate = "open" THEN "list" ELSE "no"
             /\ answer' = [answer EXCEPT ![r.id] = [k \in 1..m |-> 10 * r.id + k]]
             /\ whole' = IF Complete(r.cmds, m, on) THEN whole \cup {r.id} ELSE whole
             /\ arpend' = (arpend /\ \A k \in 1..m : r.cmds[k].code # "attn")
  /\ req' = Tail(req)
  /\ UNCHANGED <<server, hostVars, sent, nfault, nlate>>

\* The request is lost; or it falls into a list that is still open, which
\* is answered with one NAK and, once an EOP comes, with an EOP.
FpgaIgnore ==
  /\ req # <<>> /\ (open # "no" \/ Head(req).fate = "mute")
  /\ LET hasEop == Head(req).fate # "open"
     IN IF open = "no" THEN UNCHANGED <<line, open>>
        ELSE /\ line' = line \o (IF open = "list" THEN Nak ELSE <<>>)
                             \o (IF hasEop THEN PutRawEsc("eop") ELSE <<>>)
             /\ open' = IF hasEop THEN "no" ELSE "nak"
  /\ req' = Tail(req)
  /\ UNCHANGED <<server, hostVars, arpend, answer, whole, sent, nfault, nlate>>

\* One notify is sent, then none until an attn command.
FpgaNotify(n) ==
  /\ open = "no" /\ ~arpend /\ n \in Noti \ sent
  /\ line' = line \o Packet("attn", <<PatByte(n), Crc(<<PatByte(n)>>)>>)
  /\ arpend' = TRUE /\ sent' = sent \cup {n}
  /\ UNCHANGED <<server, hostVars, open, answer, whole, req, nfault, nlate>>

\* A byte on the line is damaged or lost.
LineFault(i) ==
  /\ nfault + nlate < MaxFault /\ nfault' = nfault + 1
  /\ line' \in {[line EXCEPT ![i] = Junk], RemoveAt(line, i)}
  /\ UNCHANGED <<server, hostVars, fpgaVars, req, nlate>>

-----------------------------------------------------------------------------
Next ==
  \/ \E codes \in Lists : Exec(codes)
  \/ \E fate \in {"ok"} \cup Damage, ok \in BOOLEAN : SndPacket(fate, ok)
  \/ RespNext \/ RespTimeout \/ RespExpired \/ RespThrow
  \/ ProcessUnsolicitedData \/ WaitHarvest \/ WaitBegin \/ WaitNext \/ WaitEnd
  \/ \E n \in DOMAIN line : \/ RespRead(n) \/ WaitRead(n) \/ LineFault(n)
                            \/ HandleUnsolicitedData(n)
  \/ FpgaAnswer \/ FpgaIgnore \/ \E n \in Noti : FpgaNotify(n)

Spec == Init /\ [][Next]_vars

-----------------------------------------------------------------------------
(* Properties.                                                              *)

TypeOK ==
  /\ server \in BOOLEAN /\ arpend \in BOOLEAN /\ open \in {"no", "list", "nak"}
  /\ pc \in {"idle", "snd", "resp", "respnext", "unsol", "wait", "waitnext"}
  /\ seqNumber \in [Code -> 0..(NSeq - 1)]
  /\ \A k \in DOMAIN clist : clist[k] \in [code: Code, seq: 0..(NSeq - 1)]
  /\ buf.state \in {"idle", "fill", "done", "error"}
  /\ buf.ndone \in 0..Len(buf.pkt) /\ buf.nakindex \in -1..Len(buf.pkt)
  /\ attnNotiPatt \subseteq got /\ got \subseteq sent /\ sent \subseteq Noti
  /\ whole \subseteq Id /\ DOMAIN ret \subseteq Id
  /\ nfault \in 0..MaxFault /\ nlate \in 0..MaxFault

\* The line has been good so far, and the FPGA fast enough.
Good == nfault = 0 /\ nlate = 0

\* ReadData() throws if bytes are left in the raw buffer (RlinkPacketBufRcv
\* line 88).  Every operation stops reading at some packet: on a good line
\* none leaves bytes behind, however the stream is cut into reads.
RawConsumed == Good /\ pc \in {"idle", "resp", "wait"} => CanRead

\* On a good line every list is executed and its response found, whatever
\* notifies come before, after or in the same read.
GoodSucceeds == Good => \A i \in DOMAIN ret : ret[i].ok

\* On a good line no notify is lost: it is on the line, in the buffers, or
\* was handed over.
Holds(q, n) == \E i \in DOMAIN q : q[i] = PatByte(n)
NotifyKept ==
  Good => \A n \in sent \ got : Holds(line, n) \/ Holds(buf.raw, n)
                                \/ Holds(buf.pkt, n)

\* Whatever the line does, the callers see the service RlinkExec: a list is
\* executed at most once, and a successful Exec() returns the answers to its
\* own commands, never those of an earlier list that was given up.
Abs == INSTANCE RlinkExec
         WITH call <- IF pc \in {"snd", "resp", "respnext"} THEN {NExec} ELSE {},
              fpga <- answer
ExecService == Abs!Spec

\* The types, and that no read finds bytes of an earlier one.
ConnectInv == TypeOK /\ RawConsumed
=============================================================================
