--------------------------- MODULE ObjectService ---------------------------
(***************************************************************************)
(* What the LFS Cloud server promises a Git LFS client about one request,  *)
(* seen from outside: the files of the storage root are only ever added by *)
(* a transfer and removed by somebody else, a success reply names a file   *)
(* that was in the root at some moment of that very request, and a reply   *)
(* is final.  UploadTransfer is shown to implement this specification.     *)
(***************************************************************************)
CONSTANTS
  Clients,    \* the requests
  Objects,    \* the LFS objects of one repository mapping
  FileId,     \* the backend ids of the storage root
  NoId,       \* "no backend id"
  ObjectOf    \* the object a request is about

VARIABLES
  stored,     \* stored[o]: the live files of object o
  witness,    \* witness[c]: the file the service saw or made for c
  reply       \* reply[c]: "pending", "ok", "missing", "failed", "gone"

vars == <<stored, witness, reply>>

Init ==
  /\ stored = [o \in Objects |-> {}]
  /\ witness = [c \in Clients |-> NoId]
  /\ reply = [c \in Clients |-> "pending"]

(* A transfer adds a file of its object, for a client or after it left.    *)
Store(c, i) ==
  /\ \A o \in Objects : i \notin stored[o]
  /\ stored' = [stored EXCEPT ![ObjectOf[c]] = @ \cup {i}]
  /\ \/ UNCHANGED witness
     \/ /\ reply[c] = "pending" /\ witness[c] = NoId
        /\ witness' = [witness EXCEPT ![c] = i]
  /\ UNCHANGED reply

(* The service sees a live file of the object the client asks about; a     *)
(* lookup may come together with its reply.                                *)
Witness(c, i) ==
  /\ reply[c] = "pending" /\ witness[c] = NoId
  /\ i \in stored[ObjectOf[c]]
  /\ witness' = [witness EXCEPT ![c] = i]
  /\ reply' \in {reply, [reply EXCEPT ![c] = "ok"]}
  /\ UNCHANGED stored

(* A success that claims an object names a file the service witnessed.     *)
Acknowledge(c) ==
  /\ reply[c] = "pending" /\ witness[c] # NoId
  /\ reply' = [reply EXCEPT ![c] = "ok"]
  /\ UNCHANGED <<stored, witness>>

(* The truthful negative: the object is missing.                           *)
ReportMissing(c) ==
  /\ reply[c] = "pending" /\ witness[c] = NoId
  /\ reply' = [reply EXCEPT ![c] = "missing"]
  /\ UNCHANGED <<stored, witness>>

Fail(c) ==
  /\ reply[c] = "pending"
  /\ reply' = [reply EXCEPT ![c] = "failed"]
  /\ UNCHANGED <<stored, witness>>

(* Clients that are still waiting lose their connection, or the process.   *)
Leave ==
  /\ \E S \in SUBSET {c \in Clients : reply[c] = "pending"} :
       reply' = [c \in Clients |-> IF c \in S THEN "gone" ELSE reply[c]]
  /\ UNCHANGED <<stored, witness>>

(* Somebody deletes a file of the storage root by hand.                    *)
ExternalDelete(o, i) ==
  /\ i \in stored[o]
  /\ stored' = [stored EXCEPT ![o] = @ \ {i}]
  /\ UNCHANGED <<witness, reply>>

Next ==
  \/ \E c \in Clients, i \in FileId : Store(c, i) \/ Witness(c, i)
  \/ \E c \in Clients : Acknowledge(c) \/ ReportMissing(c) \/ Fail(c)
  \/ Leave
  \/ \E o \in Objects, i \in FileId : ExternalDelete(o, i)

Spec == Init /\ [][Next]_vars
=============================================================================
