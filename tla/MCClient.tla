------------------------------ MODULE MCClient ------------------------------
(* The client of one machine for TLC.  It either waits for a process that  *)
(* one of its commands started, or runs login commands, whose Git steps    *)
(* have the outcomes such a wait can have.                                 *)
EXTENDS ClientLogin

vars == <<child, loginVars>>

Init == LoginInit /\ (child = None \/ (helper /\ store[Host] = None /\ ChildInit))

Next ==
  \/ ChildNext /\ UNCHANGED loginVars
  \/ child = None /\ LoginNext /\ UNCHANGED child

Spec == Init /\ [][Next]_vars /\ ChildFairness /\ LoginFairness
=============================================================================
