------------------------------ MODULE MCSched ------------------------------
(* Small instances of Sched for TLC. *)
EXTENDS Sched

CONSTANTS p1, p2, q1

Single(time, pitch, dur) == [time |-> time, type |-> "note", pitch |-> pitch, dur |-> dur]
User(time, type) == [time |-> time, type |-> type, pitch |-> "c", dur |-> 0]

(* two notes, one after the other and on the same pitch *)
MCLegato == <<Single(0, "c", 1), Single(1, "c", 1)>>

(* a chord of a note without length and a longer one *)
MCChord == <<Single(0, "c", 0), Single(0, "c", 2)>>

(* a note that the program turns on and off itself *)
MCUser == <<User(1, "on"), User(2, "off")>>

MCPhrases == {MCLegato, MCChord, MCUser}
MCMelody == {MCLegato}
MCDelays == { -1, 1}
=============================================================================
