----------------------------- MODULE NoteQueue -----------------------------
(***************************************************************************)
(* What Noteq promises: MIDI messages wait in the order they arrived, at   *)
(* most Capacity of them, and each is taken out once.  A message that      *)
(* finds the queue full is lost.                                           *)
(***************************************************************************)
EXTENDS Naturals, Sequences

CONSTANTS Capacity, Message

VARIABLE waiting

Init == waiting = <<>>

Put ==
  /\ Len(waiting) < Capacity
  /\ \E m \in Message : waiting' = Append(waiting, m)

Take == waiting # <<>> /\ waiting' = Tail(waiting)

Next == Take \/ Put

Spec == Init /\ [][Next]_waiting
=============================================================================
