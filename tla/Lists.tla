------------------------------- MODULE Lists -------------------------------
(* Linked lists as sequences: what is left of one when some of its elements
   are unlinked.                                                            *)
EXTENDS Naturals, Sequences, FiniteSets

(* The k-th smallest number of S. *)
Nth(S, k) == CHOOSE i \in S : Cardinality({j \in S : j <= i}) = k

(* The elements of s at these places, in the order they have in s. *)
Kept(s, places) == [k \in 1 .. Cardinality(places) |-> s[Nth(places, k)]]

(* How many elements of q are in S. *)
Count(q, S) == Cardinality({i \in DOMAIN q : q[i] \in S})
=============================================================================
