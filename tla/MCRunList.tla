----------------------------- MODULE MCRunList -----------------------------
(* Small instances of RunList for TLC. *)
EXTENDS RunList

CONSTANTS t1, t2, t3, t4
=============================================================================
