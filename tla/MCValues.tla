------------------------------ MODULE MCValues ------------------------------
(* Small instances of Values for TLC. *)
EXTENDS Values, TLC

Symmetry == Permutations(Task) \cup Permutations(Phrase)
              \cup Permutations(Arr)

(* The notes are left out: what a step does depends on no notes, and a change *)
(* of them is a change whatever they were.                                   *)
View == <<[heap EXCEPT !.content = {}], stack>>
=============================================================================
