------------------------------ MODULE RlinkAttn ------------------------------
(***************************************************************************)
(* The attention unit of rlink_core (rtl/vlib/rlink/rlink_core.vhd) as the *)
(* host sees it: packets go in on the downlink, packets come out on the    *)
(* uplink.  Devices raise LAMs, which are collected in R_LREGS.attn.  The  *)
(* unit announces them once with a notify packet (anreq, arpend) and stays *)
(* silent until the host reads and clears the pattern with an attn         *)
(* command.                                                                *)
(*                                                                         *)
(* A request packet is one command list.  Only the commands that touch the *)
(* attention state are told apart: whether the list holds an attn command, *)
(* whether it sets cntl.anena, and the device it reads afterwards (for).   *)
(* Bytes, crc and the retransmit buffer are below this level of detail.    *)
(***************************************************************************)
EXTENDS Sequences, Naturals

CONSTANTS Lam,       \* the attention lines in use
          Dev        \* the devices a list can read after its attn command

VARIABLES attn,      \* R_LREGS.attn, the collected LAMs
          anreq,     \* R_LREGS.anreq, a notify is requested
          arpend,    \* R_LREGS.arpend, a notify is out, attn not yet read
          anena,     \* R_CREGS.anena, notifies are enabled
          lstate,    \* phase of the link FSM, see LinkState
          harv,      \* R_LREGS.cnt as loaded by the attn command
          down,      \* packets on the way to the FPGA
          up         \* packets on the way to the host

fpgaVars == <<attn, anreq, arpend, anena, lstate, harv, down, up>>

\* idle: sl_idle; list: commands before and including attn are executed;
\* tail: the commands after attn; anot: sl_txanot, pattern not yet latched.
LinkState == {"idle", "list", "tail", "anot"}

Request == [typ: {"req"}, attn: BOOLEAN, anena: BOOLEAN, for: Dev \cup {"none"}]
Poll    == [typ |-> "poll"]
Notify(p)   == [typ |-> "anot", pat |-> p]
Response(p) == [typ |-> "resp", pat |-> p]

DownPacket == Request \cup {Poll}
UpPacket   == [typ: {"anot", "resp"}, pat: SUBSET Lam]

AttnTypeOK ==
  /\ attn \subseteq Lam
  /\ anreq \in BOOLEAN /\ arpend \in BOOLEAN /\ anena \in BOOLEAN
  /\ lstate \in LinkState
  /\ harv \subseteq Lam
  /\ down \in Seq(DownPacket)
  /\ up \in Seq(UpPacket)

AttnInit ==
  /\ attn = {} /\ harv = {}
  /\ anreq = FALSE /\ arpend = FALSE /\ anena = FALSE
  /\ lstate = "idle"
  /\ down = <<>> /\ up = <<>>

-----------------------------------------------------------------------------
(* Actions of the unit.                                                     *)

\* A device raises LAM b.
RaiseLam(b) ==
  /\ attn' = attn \cup {b}
  /\ UNCHANGED <<anreq, arpend, anena, lstate, harv, down, up>>

\* Attention pending, notify enabled, none outstanding: request a notify.
RequestNotify ==
  /\ attn # {} /\ anena /\ ~arpend /\ ~anreq
  /\ anreq' = TRUE
  /\ UNCHANGED <<attn, arpend, anena, lstate, harv, down, up>>

\* sl_idle serves a requested notify before it looks at the input.
StartNotify ==
  /\ lstate = "idle" /\ anreq
  /\ anreq' = FALSE
  /\ arpend' = TRUE
  /\ lstate' = "anot"
  /\ UNCHANGED <<attn, anena, harv, down, up>>

\* An attn comma from the host: send a notify, arpend is left alone.
AcceptPoll ==
  /\ lstate = "idle" /\ ~anreq
  /\ down # <<>> /\ Head(down).typ = "poll"
  /\ down' = Tail(down)
  /\ lstate' = "anot"
  /\ UNCHANGED <<attn, anreq, arpend, anena, harv, up>>

\* sl_txanot: the pattern sent is the one of the cycle the symbol leaves.
SendNotify ==
  /\ lstate = "anot"
  /\ up' = Append(up, Notify(attn))
  /\ lstate' = "idle"
  /\ UNCHANGED <<attn, anreq, arpend, anena, harv, down>>

\* A command list starts.
AcceptList ==
  /\ lstate = "idle" /\ ~anreq
  /\ down # <<>> /\ Head(down).typ = "req"
  /\ lstate' = IF Head(down).attn THEN "list" ELSE "tail"
  /\ UNCHANGED <<attn, anreq, arpend, anena, harv, down, up>>

\* Mutant of ReadAttn: the clear of arpend and anreq is forgotten.
ReadAttnKeepsPending ==
  /\ lstate = "list"
  /\ harv' = attn
  /\ attn' = {}
  /\ lstate' = "tail"
  /\ UNCHANGED <<anreq, arpend, anena, down, up>>

\* sl_attn: read and clear the pattern, reenable notifies, cancel a request.
ReadAttn ==
  /\ lstate = "list"
  /\ harv' = attn
  /\ attn' = {}
  /\ arpend' = FALSE
  /\ anreq' = FALSE
  /\ lstate' = "tail"
  /\ UNCHANGED <<anena, down, up>>

\* The rest of the list is executed and the response is complete.
FinishList ==
  /\ lstate = "tail" /\ down # <<>>
  /\ anena' = (anena \/ Head(down).anena)
  /\ up' = Append(up, Response(harv))
  /\ down' = Tail(down)
  /\ harv' = {}
  /\ lstate' = "idle"
  /\ UNCHANGED <<attn, anreq, arpend>>

-----------------------------------------------------------------------------
(* What the unit guarantees.                                                *)

\* A notify that is requested or outstanding always has an attention behind
\* it: anreq and arpend are never left set by the attn command that clears
\* the pattern (sl_attn), so a list that reads attn cannot leave the unit
\* mute with nothing to read.
PendingHasAttn == anreq \/ arpend => attn # {}
=============================================================================
