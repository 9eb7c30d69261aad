--------------------------- MODULE MCSessionStore ---------------------------
(* A small instance of SessionStore for TLC.                               *)
EXTENDS SessionStore, TLC

CONSTANTS t1, t2, alice, p1, p2

(* The logins of the user, and the servers, differ in nothing but names.   *)
Twins == Permutations({t1, t2}) \cup Permutations({p1, p2})

MCPrincipalOf == [t \in Tokens |-> alice]
=============================================================================
