------------------------- MODULE MCUploadTransfer -------------------------
(* Small instances of UploadTransfer for TLC.                              *)
EXTENDS UploadTransfer

CONSTANTS u1, u2, u3, d1, d2, b1, p1, p2, o1, o2, o3, s1

(* Two processes upload one object; downloads and lookups run in the first. *)
RaceObjectOf == [c \in Clients |-> o1]
RaceProcessOf == [c \in Clients |-> IF c = u2 THEN p2 ELSE p1]
(* The second upload races the download, or the batch looks the object up. *)
OneStaysAway == pc[u2] = "idle" \/ pc[b1] = "idle"
OneStripe == [o \in Objects |-> s1]
ThreeIds == 1..3

(* One process, two objects whose durable locks share a stripe.            *)
QueueObjectOf ==
  [c \in Clients |-> IF c = u3 THEN o2 ELSE o1]
QueueProcessOf == [c \in Clients |-> p1]
=============================================================================
