---------------------------- MODULE MCLocalCache ----------------------------
(* A small instance of LocalCache for TLC: two worktrees with a file each. *)
(* The object of the second file is the pointer of the first one's object. *)
EXTENDS LocalCache, TLC

CONSTANTS c1, c2, w1, w2, p1, p2, a, pa, ppa, empty, e1, s1

(* The processes differ in nothing but their names.                        *)
Twins == Permutations({c1, c2})

(* Of the edits, the fault and the move that the bounds allow, three come   *)
(* together at most.                                                       *)
ThreeDisturbances == edits + faults + moves <= 3

MCPointer == a :> pa @@ pa :> ppa @@ empty :> empty
MCWorktreeOf == p1 :> w1 @@ p2 :> w2
MCIndex == p1 :> a @@ p2 :> pa
MCStripeOf == [x \in {p1, p2, w1, w2} |-> s1]
=============================================================================
