------------------------------ MODULE TapeMedium ------------------------------
(***************************************************************************)
(* What a magnetic tape is to its user: a sequence of records and marks    *)
(* and a place between two of them.  Moving changes nothing, writing       *)
(* appends at the place and forgets what was behind it, and a failed       *)
(* operation may lose the place, until the tape is rewound, but never what *)
(* lies before it.                                                         *)
(***************************************************************************)
EXTENDS Integers, Sequences

VARIABLES items, at      \* at = -1: the place is lost
vars == <<items, at>>

Before == SubSeq(items, 1, at)

\* A lost place is found again by rewinding, and moving on from there.
Move == at' \in 0 .. Len(items) /\ UNCHANGED items
Append1 ==
  /\ at >= 0 /\ at' = at + 1
  /\ Len(items') = at + 1 /\ SubSeq(items', 1, at) = Before
Lose ==
  /\ at' = -1
  /\ \/ UNCHANGED items
     \/ /\ at >= 0 /\ Len(items') \in {at, at + 1}
        /\ SubSeq(items', 1, at) = Before
Mount == at' = 0

Init == at = 0
\* Mounting another tape is the client's to do: changed says when.
Next(changed) == Move \/ Append1 \/ Lose \/ (changed /\ Mount)
=============================================================================
