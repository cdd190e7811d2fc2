----------------------------- MODULE MCPhrases -----------------------------
(* Small instances of Phrases for TLC. *)
EXTENDS Phrases

Symmetry == Permutations(Var)

Note(t, p, d) == [time |-> t, type |-> NT_NOTE, pitch |-> p, dur |-> d]
Message(t, b) == [time |-> t, type |-> NT_BYTES, pitch |-> b, dur |-> 0]

(* Two messages of one time, a note that lasts and one of no duration. *)
SomeNotes == {Message(1, 1), Message(1, 2), Note(0, 1, 2), Note(1, 1, 0)}
MCTimes == {0, 1}
MCDurs == {0, 2}
MCLengths == {0, 1}
=============================================================================
