----------------------------- MODULE MCRecord -----------------------------
(* Small instances of Record for TLC. *)
EXTENDS Record

(* What the slots of Noteq hold that are free is never read. *)
View == <<Waiting, Qbegin, draining, Current, record, held, recording, sustain, clock, history>>
=============================================================================
