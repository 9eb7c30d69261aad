--------------------------- MODULE MCAuthorization ---------------------------
(* A small instance of Authorization for TLC: two downloads and an upload  *)
(* of one session.                                                         *)
EXTENDS Authorization, TLC

CONSTANTS r1, r2, w1, s1, l1, l2, l3

(* The downloads, and the lock objects, differ in nothing but their names. *)
Twins == Permutations({r1, r2}) \cup Permutations({l1, l2, l3})

MCSessionOf == [r \in Requests |-> s1]
MCWriteOf == [r \in Requests |-> r = w1]
=============================================================================
