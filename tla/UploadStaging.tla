--------------------------- MODULE UploadStaging ---------------------------
(***************************************************************************)
(* The admission of uploads to the local staging directory, and the books  *)
(* the server keeps about it.  An upload takes a global slot and a slot of *)
(* its user, creates its temporary file, measures the free space on a      *)
(* thread of the blocking pool, reserves the bytes its client declared,    *)
(* writes the body, keeps the file while it is sent to the backend, and    *)
(* releases slots, reservation and file, in this order and one after the   *)
(* other: other uploads run in between.  Space is counted in units.        *)
(***************************************************************************)
EXTENDS Integers, FiniteSets, FiniteSetsExt

CONSTANTS
  Uploads, Users,
  UserOf,         \* the principal of an upload
  Declared,       \* the size an upload's URL declares
  GlobalLimit,    \* server.max_concurrent_uploads
  PerUserLimit,   \* server.max_concurrent_uploads_per_user
  MaxUpload,      \* MAX_UPLOAD_OBJECT_BYTES
  MinFree,        \* MIN_UPLOAD_STAGING_FREE_BYTES
  Capacity,       \* size of the volume of the staging directory
  Unknown,           \* null value
  MaxCrashes      \* bound

ASSUME StagingAssumption ==
  /\ IsFiniteSet(Uploads) /\ UserOf \in [Uploads -> Users]
  /\ MaxUpload \in Nat /\ Declared \in [Uploads -> 0..MaxUpload]
  /\ GlobalLimit \in Nat /\ PerUserLimit \in Nat
  /\ MinFree \in Nat /\ Capacity \in Nat /\ Unknown \notin Nat
  /\ MaxCrashes \in Nat

VARIABLES
  pc,        \* pc[u]: where the upload is
  held,      \* held[u]: the guards its future owns
  size,      \* size[u]: bytes of its temporary file
  measured,  \* measured[u]: the free space it read
  slots,     \* free permits of global_slots
  userSlots, \* userSlots[x]: free permits of the semaphore of user x
  reserved,  \* reserved_bytes
  snapshot,  \* available_space_snapshot
  litter,    \* bytes of files that dead processes left behind
  crashes

stagingVars == <<pc, held, size, measured, slots, userSlots, reserved, snapshot,
          litter, crashes>>
permits == <<slots, userSlots>>
reservations == <<reserved, snapshot>>
disk == <<size, litter>>

Phases == {"idle", "global", "admitted", "created", "measured", "writing",
           "staged", "leaving", "ended"}
Guards == {"global", "user", "bytes", "file"}

StagingInit ==
  /\ pc = [u \in Uploads |-> "idle"]
  /\ held = [u \in Uploads |-> {}]
  /\ size = [u \in Uploads |-> 0]
  /\ measured = [u \in Uploads |-> Unknown]
  /\ slots = GlobalLimit
  /\ userSlots = [x \in Users |-> PerUserLimit]
  /\ reserved = 0 /\ snapshot = Unknown
  /\ litter = 0 /\ crashes = 0

Holders(g) == {u \in Uploads : g \in held[u]}
Bytes(f, S) == MapThenSumSet(LAMBDA u : f[u], S)
Free == Capacity - litter - Bytes(size, Uploads)

Enter(u, phase) == pc' = [pc EXCEPT ![u] = phase]
Own(u, g) == held' = [held EXCEPT ![u] = @ \cup {g}]
Disown(u, g) == held' = [held EXCEPT ![u] = @ \ {g}]

----------------------------------------------------------------------------
(* Admission.  The two semaphores are taken one after the other; an upload *)
(* that finds one empty is answered 503 and gives back what it has.        *)

TakeGlobal(u) ==
  /\ pc[u] = "idle" /\ slots > 0
  /\ slots' = slots - 1 /\ Own(u, "global") /\ Enter(u, "global")
  /\ UNCHANGED <<measured, userSlots, reservations, disk, crashes>>

TakeUser(u) ==
  /\ pc[u] = "global" /\ userSlots[UserOf[u]] > 0
  /\ userSlots' = [userSlots EXCEPT ![UserOf[u]] = @ - 1]
  /\ Own(u, "user") /\ Enter(u, "admitted")
  /\ UNCHANGED <<measured, slots, reservations, disk, crashes>>

Refuse(u) ==
  /\ \/ pc[u] = "idle" /\ slots = 0
     \/ pc[u] = "global" /\ userSlots[UserOf[u]] = 0
  /\ Enter(u, "leaving")
  /\ UNCHANGED <<held, measured, permits, reservations, disk, crashes>>

----------------------------------------------------------------------------
(* Reservation.                                                            *)

CreateFile(u) ==
  /\ pc[u] = "admitted" /\ Own(u, "file") /\ Enter(u, "created")
  /\ UNCHANGED <<measured, permits, reservations, disk, crashes>>

(* The free space is measured before the books are locked: when it is used *)
(* others have reserved, written and left.                                 *)
Measure(u) ==
  /\ pc[u] = "created" /\ Enter(u, "measured")
  /\ measured' = [measured EXCEPT ![u] = Free]
  /\ UNCHANGED <<held, permits, reservations, disk, crashes>>

(* The snapshot the declared sizes are added up against.                   *)
Frozen(u) == IF snapshot = Unknown THEN measured[u] ELSE snapshot

LiveCheck(u) == measured[u] >= Declared[u] + MinFree
AggregateTight(u) ==         \* mutant: the sum leaves the headroom out
  Frozen(u) >= reserved + Declared[u]

AggregateCheck(u) == Frozen(u) >= reserved + Declared[u] + MinFree

Reserve(u) ==
  /\ pc[u] = "measured" /\ LiveCheck(u) /\ AggregateCheck(u)
  /\ snapshot' = Frozen(u) /\ reserved' = reserved + Declared[u]
  /\ Own(u, "bytes") /\ Enter(u, "writing")
  /\ UNCHANGED <<measured, permits, disk, crashes>>

(* The second check freezes the snapshot even when it refuses.             *)
NoSpace(u) ==
  /\ pc[u] = "measured" /\ ~(LiveCheck(u) /\ AggregateCheck(u))
  /\ snapshot' = IF LiveCheck(u) THEN Frozen(u) ELSE snapshot
  /\ Enter(u, "leaving")
  /\ UNCHANGED <<held, measured, permits, reserved, disk, crashes>>

----------------------------------------------------------------------------
(* The body.                                                               *)

(* A chunk is checked against the upload limit and not against the         *)
(* declared size; the volume may be full.                                  *)
Write(u) ==
  /\ pc[u] = "writing" /\ size[u] < MaxUpload /\ Free > 0
  /\ size' = [size EXCEPT ![u] = @ + 1]
  /\ UNCHANGED <<pc, held, measured, permits, reservations, litter, crashes>>

(* Size and hash are compared when the body ends.                          *)
Staged(u) ==
  /\ pc[u] = "writing" /\ size[u] = Declared[u] /\ Enter(u, "staged")
  /\ UNCHANGED <<held, measured, permits, reservations, disk, crashes>>

(* The transfer ends, the body is bad, too long, late or does not fit, or  *)
(* the client is gone: the future owns no more than its guards.            *)
Depart(u) ==
  /\ pc[u] \in {"admitted", "created", "measured", "writing", "staged"}
  /\ Enter(u, "leaving")
  /\ UNCHANGED <<held, measured, permits, reservations, disk, crashes>>

----------------------------------------------------------------------------
(* The guards are dropped in the order of their declaration: the permits   *)
(* and the reservation of the lease, then the temporary file.              *)

DropGlobal(u) ==
  /\ pc[u] = "leaving" /\ "global" \in held[u]
  /\ slots' = slots + 1 /\ Disown(u, "global")
  /\ UNCHANGED <<pc, measured, userSlots, reservations, disk, crashes>>

DropUser(u) ==
  /\ pc[u] = "leaving" /\ "global" \notin held[u] /\ "user" \in held[u]
  /\ userSlots' = [userSlots EXCEPT ![UserOf[u]] = @ + 1]
  /\ Disown(u, "user")
  /\ UNCHANGED <<pc, measured, slots, reservations, disk, crashes>>

DropBytes(u) ==
  /\ pc[u] = "leaving" /\ "bytes" \in held[u]
  /\ held[u] \subseteq {"bytes", "file"}
  /\ reserved' = reserved - Declared[u]
  /\ snapshot' = IF reserved' = 0 THEN Unknown ELSE snapshot
  /\ Disown(u, "bytes")
  /\ UNCHANGED <<pc, measured, permits, disk, crashes>>

DropFile(u) ==
  /\ pc[u] = "leaving" /\ held[u] = {"file"}
  /\ Disown(u, "file") /\ size' = [size EXCEPT ![u] = 0]
  /\ UNCHANGED <<pc, measured, permits, reservations, litter, crashes>>

Ended(u) ==
  /\ pc[u] = "leaving" /\ held[u] = {} /\ Enter(u, "ended")
  /\ UNCHANGED <<held, measured, permits, reservations, disk, crashes>>

(* A dead process runs no destructor: its temporary files stay, and the    *)
(* next process starts with empty books.                                   *)
Crash ==
  /\ crashes < MaxCrashes /\ crashes' = crashes + 1
  /\ litter' = litter + Bytes(size, Uploads)
  /\ size' = [u \in Uploads |-> 0]
  /\ held' = [u \in Uploads |-> {}]
  /\ pc' = [u \in Uploads |-> IF pc[u] = "idle" THEN "idle" ELSE "ended"]
  /\ measured' = [u \in Uploads |-> Unknown]
  /\ slots' = GlobalLimit
  /\ userSlots' = [x \in Users |-> PerUserLimit]
  /\ reserved' = 0 /\ snapshot' = Unknown

StagingNext ==
  \/ \E u \in Uploads :
       \/ TakeGlobal(u) \/ TakeUser(u) \/ Refuse(u)
       \/ CreateFile(u) \/ Measure(u) \/ Reserve(u) \/ NoSpace(u)
       \/ Write(u) \/ Staged(u) \/ Depart(u)
       \/ DropGlobal(u) \/ DropUser(u) \/ DropBytes(u) \/ DropFile(u)
       \/ Ended(u)
  \/ Crash

StagingSpec == StagingInit /\ [][StagingNext]_stagingVars

----------------------------------------------------------------------------
(* The state has the shape the code gives it: no counter is negative       *)
(* (the code would panic or wrap) and none exceeds its limit.              *)
TypeOK ==
  /\ pc \in [Uploads -> Phases]
  /\ held \in [Uploads -> SUBSET Guards]
  /\ size \in [Uploads -> 0..MaxUpload]
  /\ measured \in [Uploads -> (0..Capacity) \cup {Unknown}]
  /\ slots \in 0..GlobalLimit
  /\ userSlots \in [Users -> 0..PerUserLimit]
  /\ reserved \in 0..Capacity
  /\ snapshot \in (0..Capacity) \cup {Unknown}
  /\ litter \in 0..Capacity /\ crashes \in 0..MaxCrashes

(* However uploads interleave, are refused, fail or are dropped, every     *)
(* slot, every reserved byte and the frozen snapshot are returned exactly  *)
(* once (try_acquire and the Drop implementations of the lease).           *)
BooksBalance ==
  /\ slots = GlobalLimit - Cardinality(Holders("global"))
  /\ \A x \in Users :
       userSlots[x] = PerUserLimit
                        - Cardinality({u \in Holders("user") : UserOf[u] = x})
  /\ reserved = Bytes(Declared, Holders("bytes"))
  /\ Holders("bytes") = {} => snapshot = Unknown

(* The bytes promised to all admitted uploads together fit on the volume   *)
(* and leave the headroom, although each upload reads the free space       *)
(* before it enters the mutex that guards the books.                       *)
AggregateFits ==
  Holders("bytes") # {} => reserved + MinFree <= Capacity - litter

(* The volume is shared as the books say, and the books add up.            *)
VolumeShared == BooksBalance /\ AggregateFits
=============================================================================
