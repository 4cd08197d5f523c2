------------------------------ MODULE RlinkExec ------------------------------
(***************************************************************************)
(* What RlinkConnect promises to its callers, whatever the line does: one  *)
(* command list is under way at a time; the FPGA executes a list at most   *)
(* once and from its start; Exec() returns with success only what the FPGA *)
(* answered for this very list, executed to its end; an attention notify   *)
(* is delivered at most once, and only if it was sent.                     *)
(***************************************************************************)
EXTENDS Naturals, Sequences

CONSTANTS Id,      \* calls of Exec()
          Noti     \* attention notifies

VARIABLES call,   \* the calls that have not returned
          fpga,   \* answers of the FPGA, per call; <<>>: none
          whole,  \* the calls that the FPGA has executed to their end
          ret,    \* what a call has returned, per call
          sent, got   \* notifies sent by the FPGA and delivered to the host
vars == <<call, fpga, whole, ret, sent, got>>

Fail == [ok |-> FALSE, data |-> <<>>]
Init ==
  /\ call = {} /\ fpga = [i \in Id |-> <<>>] /\ whole = {}
  /\ ret = <<>> /\ sent = {} /\ got = {}

Called == call \cup DOMAIN ret

Call(i) ==
  /\ call = {} /\ i \notin Called
  /\ call' = {i}
  /\ UNCHANGED <<fpga, whole, ret, sent, got>>

\* The FPGA executes a list, or a first part of it, also after the call has
\* given up; it never executes it again.  An answer has one value for each
\* executed command.
Execute(i) ==
  /\ i \in Called /\ i \notin whole /\ fpga[i] = <<>>
  /\ fpga'[i] \in Seq(Nat)
  /\ fpga' = [fpga EXCEPT ![i] = fpga'[i]]
  /\ whole' \in {whole, whole \cup {i}}
  /\ UNCHANGED <<call, ret, sent, got>>

Return(i) ==
  /\ i \in call /\ call' = {}
  /\ \E r \in {Fail} \cup {[ok |-> TRUE, data |-> fpga[j]] :
                            j \in {i} \cap whole} :
       ret' = [j \in DOMAIN ret \cup {i} |-> IF j = i THEN r ELSE ret[j]]
  /\ UNCHANGED <<fpga, whole, sent, got>>

Notify(n) ==
  /\ n \notin sent /\ sent' = sent \cup {n}
  /\ UNCHANGED <<call, fpga, whole, ret, got>>

Deliver(n) ==
  /\ n \in sent \ got /\ got' = got \cup {n}
  /\ UNCHANGED <<call, fpga, whole, ret, sent>>

Next ==
  \/ \E i \in Id : Call(i) \/ Execute(i) \/ Return(i)
  \/ \E n \in Noti : Notify(n) \/ Deliver(n)

Spec == Init /\ [][Next]_vars
=============================================================================
