----------------------- MODULE UploadTransferProofs -----------------------
(* Theorems about UploadTransfer for every set of requests, processes and  *)
(* objects and every value of the bounds.                                  *)
EXTENDS UploadTransfer, FiniteSetTheorems, TLAPS

(* Phases only an upload can be in.                                        *)
UploadPhases == {"waitProc", "askStripe", "waitStripe", "orphanAsk",
                 "orphanWait", "waitRecord", "record", "stage", "waitUpload",
                 "search2", "create"}

(* Phases in which an upload holds the durable lock.                       *)
InsidePhases == LookupPhases \cup {"waitLookup", "waitRecord", "record",
                  "stage", "waitUpload", "search2", "create"}

(* Phases before a handler has found or made a file.                       *)
SeekingPhases == {"idle", "waitProc", "askStripe", "waitStripe", "waitLookup",
                  "readMeta", "byId", "search", "stale", "stage",
                  "waitUpload", "search2", "create"}

(* Phases after it has.                                                    *)
HoldingPhases == {"repair", "waitRecord", "record", "open", "stream",
                  "finishOk", "orphanRecord", "orphanFinishOk"}

(* What the phases say of a handler's local variables.                     *)
HandlerInv ==
  \A c \in Clients :
    /\ pc[c] \in UploadPhases => c \in Uploads
    /\ pc[c] \in {"open", "stream"} => c \in Downloads
    /\ pc[c] = "missing" => c \in Batches
    /\ pc[c] \in SeekingPhases => got[c] = NoId
    /\ pc[c] \in HoldingPhases => got[c] \in FileId
    /\ pc[c] \in {"byId", "stale", "orphanStale"} => seen[c] \in ObjectRow

TypeInv == TypeOK /\ HandlerInv

(* A search with a result picks one of the files it found.                 *)
LEMMA SmallestIsMember ==
  ASSUME NEW S \in SUBSET FileId, S # {}
  PROVE  Smallest(S) \in S
<1>1. S \subseteq Nat
  BY NullAssumption
<1>2. PICK i \in S : \A j \in S : <<j, i>> \notin OpToRel(<, Nat)
  BY <1>1, NatLessThanWellFounded, WFMin
<1>3. \A j \in Nat : j < i => <<j, i>> \in OpToRel(<, Nat)
  BY <1>1 DEF OpToRel
<1>4. \A j \in S : ~ (j < i) /\ j \in Nat /\ i \in Nat
  BY <1>1, <1>2, <1>3
<1>5. \A j \in S : i <= j
  BY <1>4
<1> QED
  BY <1>5 DEF Smallest

LEMMA TypeInit == Init => TypeInv
  BY PlaceAssumption, NullAssumption, BoundAssumption
  DEF Init, TypeInv, TypeOK, HandlerInv, Phases, UploadPhases, Clients,
      SeekingPhases, HoldingPhases

LEMMA TypeStep == TypeInv /\ [Next]_vars => TypeInv'
<1> SUFFICES ASSUME TypeInv, [Next]_vars PROVE TypeInv'
  OBVIOUS
<1> USE PlaceAssumption, KindAssumption DEF TypeInv, TypeOK, HandlerInv, Phases, ActivePhases,
      OrphanPhases, FinalPhases, CallPhases, LookupPhases, Queueing,
      Finishing, UploadPhases, SeekingPhases, HoldingPhases, ObjectRow, Clients, Goto, locks, store
<1>0. ASSUME NEW c \in Clients, NEW i \in FileId, pc[c] \in {"byId", "search"},
             FoundFile(c, i),
             UNCHANGED <<seen, row, locks, meta, store, faults>>
      PROVE  TypeInv'
  <2>1. CASE NeedsRepair(c, i)
    <3>1. got' = [got EXCEPT ![c] = i] /\ Goto(c, "repair") /\ UNCHANGED permits
      BY <1>0, <2>1, Zenon DEF FoundFile
    <3> QED
      BY <1>0, <3>1
  <2>2. CASE ~ NeedsRepair(c, i)
    <3>1. got' = [got EXCEPT ![c] = i] /\ Found(c)
      BY <1>0, <2>2 DEF FoundFile
    <3>2. /\ permits' \in SUBSET Clients
          /\ pc' = [pc EXCEPT ![c] = IF c \in Uploads THEN "waitRecord"
                                     ELSE IF c \in Downloads THEN "open"
                                     ELSE "ok"]
      BY <3>1 DEF Found, ReleasePermit
    <3> QED
      BY <1>0, <3>1, <3>2
  <2> QED
    BY <2>1, <2>2
<1>1. ASSUME NEW c \in Clients, Start(c) PROVE TypeInv'
  BY <1>1 DEF Start
<1>2. ASSUME NEW c \in Clients, StartFails(c) PROVE TypeInv'
  BY <1>2 DEF StartFails
<1>3. ASSUME NEW c \in Clients, StartBatch(c) PROVE TypeInv'
  BY <1>3 DEF StartBatch
<1>4. ASSUME NEW c \in Clients, LockInProcess(c) PROVE TypeInv'
  BY <1>4 DEF LockInProcess
<1>5. ASSUME NEW c \in Clients, WaitDurable(c) PROVE TypeInv'
  BY <1>5 DEF WaitDurable
<1>6. ASSUME NEW c \in Clients, LockDurable(c) PROVE TypeInv'
  BY <1>6 DEF LockDurable, Stripe
<1>7. ASSUME NEW c \in Clients, LockDurableFails(c) PROVE TypeInv'
  BY <1>7 DEF LockDurableFails
<1>8. ASSUME NEW c \in Clients, OrphanLock(c) PROVE TypeInv'
  BY <1>8 DEF OrphanLock
<1>9. ASSUME NEW c \in Clients, BeginLookup(c) PROVE TypeInv'
  BY <1>9 DEF BeginLookup, AcquirePermit
<1>10. ASSUME NEW c \in Clients, ReadMeta(c) PROVE TypeInv'
  BY <1>10 DEF ReadMeta
<1>11. ASSUME NEW c \in Clients, LookupById(c) PROVE TypeInv'
  <2>1. seen[c].id \in FileId
    BY <1>11 DEF LookupById
  <2>2. CASE seen[c].id \in files[ObjectOf[c]]
    BY <1>0, <1>11, <2>1, <2>2 DEF LookupById
  <2>3. CASE seen[c].id \notin files[ObjectOf[c]]
    BY <1>11, <2>3 DEF LookupById
  <2> QED
    BY <2>2, <2>3
<1>12. ASSUME NEW c \in Clients, SearchFinds(c) PROVE TypeInv'
  <2>1. Smallest(files[ObjectOf[c]]) \in FileId
    BY SmallestIsMember, <1>12 DEF SearchFinds
  <2> QED
    BY <1>0, <1>12, <2>1 DEF SearchFinds
<1>13. ASSUME NEW c \in Clients, SearchFindsNothing(c) PROVE TypeInv'
  <2>1. PICK next \in {"stage", "finishFail", "missing", "stale"} :
          /\ Goto(c, next)
          /\ next = "stage" => c \in Uploads
          /\ next = "missing" => c \in Batches
          /\ next = "stale" => seen[c] # NoRow
    BY <1>13 DEF SearchFindsNothing, NotFound
  <2>2. permits' \in SUBSET Clients
    BY <1>13 DEF SearchFindsNothing, NotFound, ReleasePermit
  <2> QED
    BY <1>13, <2>1, <2>2 DEF SearchFindsNothing
<1>14. ASSUME NEW c \in Clients, Repair(c) PROVE TypeInv'
  BY <1>14 DEF Repair, RecordVerified, Found, ReleasePermit
<1>15. ASSUME NEW c \in Clients, StaleRepair(c) PROVE TypeInv'
  BY <1>15 DEF StaleRepair, MarkStale, NotFound, ReleasePermit
<1>16. ASSUME NEW c \in Clients, CallFails(c) PROVE TypeInv'
  BY <1>16 DEF CallFails, ReleasePermit
<1>17. ASSUME NEW c \in Clients, BeginRecord(c) PROVE TypeInv'
  BY <1>17 DEF BeginRecord, AcquirePermit
<1>18. ASSUME NEW c \in Clients, Record(c) PROVE TypeInv'
  BY <1>18 DEF Record, RecordVerified, ReleasePermit
<1>19. ASSUME NEW c \in Clients, Stage(c) PROVE TypeInv'
  BY <1>19 DEF Stage
<1>20. ASSUME NEW c \in Clients, StageFails(c) PROVE TypeInv'
  BY <1>20 DEF StageFails
<1>21. ASSUME NEW c \in Clients, BeginUpload(c) PROVE TypeInv'
  BY <1>21 DEF BeginUpload, AcquirePermit
<1>22. ASSUME NEW c \in Clients, SearchAgain(c) PROVE TypeInv'
  <2>1. CASE files[ObjectOf[c]] # {}
    <3>1. Smallest(files[ObjectOf[c]]) \in FileId
      BY SmallestIsMember, <2>1
    <3>2. /\ got' = [got EXCEPT ![c] = Smallest(files[ObjectOf[c]])]
          /\ pc[c] = "search2" /\ Goto(c, "record")
          /\ UNCHANGED <<seen, row, locks, permits, meta, store, faults>>
      BY <1>22, <2>1 DEF SearchAgain
    <3> QED
      BY <3>1, <3>2
  <2>2. CASE files[ObjectOf[c]] = {}
    <3>1. /\ pc[c] = "search2" /\ Goto(c, "create")
          /\ UNCHANGED <<seen, got, row, locks, permits, meta, store, faults>>
      BY <1>22, <2>2, Zenon DEF SearchAgain
    <3> QED
      BY <3>1
  <2> QED
    BY <2>1, <2>2
<1>23. ASSUME NEW c \in Clients, Create(c) PROVE TypeInv'
  BY <1>23 DEF Create
<1>24. ASSUME NEW c \in Clients, OpenDownload(c) PROVE TypeInv'
  BY <1>24 DEF OpenDownload, ReleasePermit
<1>25. ASSUME NEW c \in Clients, FinishSucceeded(c) PROVE TypeInv'
  BY <1>25 DEF FinishSucceeded, ReleaseLocks, Stripe
<1>26. ASSUME NEW c \in Clients, FinishFailed(c) PROVE TypeInv'
  BY <1>26 DEF FinishFailed, ReleaseLocks, Stripe
<1>27. ASSUME NEW c \in Clients, FinishBreaks(c) PROVE TypeInv'
  BY <1>27 DEF FinishBreaks, ReleaseLocks, Stripe
<1>28. ASSUME NEW c \in Clients, OrphanRecord(c) PROVE TypeInv'
  BY <1>28 DEF OrphanRecord, RecordVerified
<1>29. ASSUME NEW c \in Clients, OrphanStale(c) PROVE TypeInv'
  BY <1>29 DEF OrphanStale, MarkStale
<1>30. ASSUME NEW c \in Clients, OrphanFinish(c) PROVE TypeInv'
  BY <1>30 DEF OrphanFinish
<1>31. ASSUME NEW c \in Clients, Disconnect(c) PROVE TypeInv'
  BY BoundAssumption, <1>31 DEF Disconnect, Abandoned, ReleaseLocks, Stripe, ReleasePermit
<1>32. ASSUME NEW c \in Clients, LateCreate(c) PROVE TypeInv'
  BY <1>32 DEF LateCreate
<1>33. ASSUME NEW c \in Clients, Stream(c) PROVE TypeInv'
  BY <1>33 DEF Stream
<1>34. ASSUME NEW p \in Processes, Crash(p) PROVE TypeInv'
  <2>1. \A c \in Clients : pc'[c] \in {pc[c], "cut", "gone"}
    BY <1>34, Zenon DEF Crash
  <2>2. pc' = [c \in Clients |-> pc'[c]]
    BY <1>34 DEF Crash
  <2>3. /\ procLock' \in [Processes -> [Objects -> Uploads \cup {Nobody}]]
        /\ stripeLock' \in [Stripes -> Uploads \cup {Nobody}]
        /\ permits' \in SUBSET Clients
    BY <1>34 DEF Crash
  <2>4. inFlight' \in SUBSET Uploads
    BY <1>34 DEF Crash, Dying
  <2>5. faults' \in 0 .. MaxFaults
    BY <1>34, BoundAssumption DEF Crash
  <2>6. UNCHANGED <<seen, got, row, meta, files, deleted, late>>
    BY <1>34 DEF Crash
  <2>7. TypeOK'
    BY <2>1, <2>2, <2>3, <2>4, <2>5, <2>6
  <2>8. HandlerInv'
    <3> SUFFICES ASSUME NEW c \in Clients
                 PROVE  /\ pc'[c] \in UploadPhases => c \in Uploads
                        /\ pc'[c] \in {"open", "stream"} => c \in Downloads
                        /\ pc'[c] = "missing" => c \in Batches
                        /\ pc'[c] \in SeekingPhases => got[c] = NoId
                        /\ pc'[c] \in HoldingPhases => got[c] \in FileId
                        /\ pc'[c] \in {"byId", "stale", "orphanStale"} =>
                             seen[c] \in ObjectRow
      BY <2>6, Zenon DEF HandlerInv
    <3>1. CASE pc'[c] = pc[c]
      BY <3>1, Zenon DEF HandlerInv
    <3>2. CASE pc'[c] \in {"cut", "gone"}
      BY <3>2
    <3> QED
      BY <2>1, <3>1, <3>2
  <2> QED
    BY <2>7, <2>8
<1>35. ASSUME NEW o \in Objects, NEW i \in FileId, ExternalDelete(o, i) PROVE TypeInv'
  BY BoundAssumption, <1>35 DEF ExternalDelete
<1>36. CASE UNCHANGED vars
  BY <1>36 DEF vars
<1> QED
  BY <1>1, <1>2, <1>3, <1>4, <1>5, <1>6, <1>7, <1>8, <1>9, <1>10, <1>11, <1>12,
     <1>13, <1>14, <1>15, <1>16, <1>17, <1>18, <1>19, <1>20, <1>21, <1>22, <1>23, <1>24,
     <1>25, <1>26, <1>27, <1>28, <1>29, <1>30, <1>31, <1>32, <1>33, <1>34, <1>35, <1>36
  DEF Next, Begin, Step, Environment

----------------------------------------------------------------------------
(* THEOREM: every variable keeps its type, an object row always names a    *)
(* Drive id and no handler records a backend id it does not hold.          *)
THEOREM Typed == Spec => []TypeOK
<1>1. TypeInv => TypeOK
  BY DEF TypeInv
<1> QED
  BY TypeInit, TypeStep, <1>1, PTL DEF Spec

----------------------------------------------------------------------------
(* From its last lookup to its last write an upload owns the durable lock  *)
(* of its object: no other step takes it away.                             *)
StripeHeld ==
  \A u \in Uploads : pc[u] \in InsidePhases => stripeLock[Stripe(u)] = u

LEMMA StripeStep ==
  TypeInv /\ StripeHeld /\ [Next]_vars => StripeHeld'
<1> SUFFICES ASSUME TypeInv, StripeHeld, [Next]_vars PROVE StripeHeld'
  OBVIOUS
<1> USE PlaceAssumption, NullAssumption, KindAssumption
    DEF TypeInv, TypeOK, StripeHeld, InsidePhases, LookupPhases, Clients,
        Stripe, Goto, locks, store
<1>1. ASSUME NEW c \in Clients, Start(c) PROVE StripeHeld'
  BY <1>1 DEF Start
<1>2. ASSUME NEW c \in Clients, StartFails(c) PROVE StripeHeld'
  BY <1>2 DEF StartFails
<1>3. ASSUME NEW c \in Clients, StartBatch(c) PROVE StripeHeld'
  BY <1>3 DEF StartBatch
<1>4. ASSUME NEW c \in Clients, LockInProcess(c) PROVE StripeHeld'
  BY <1>4 DEF LockInProcess
<1>5. ASSUME NEW c \in Clients, WaitDurable(c) PROVE StripeHeld'
  BY <1>5 DEF WaitDurable
<1>6. ASSUME NEW c \in Clients, LockDurable(c) PROVE StripeHeld'
  BY <1>6 DEF LockDurable
<1>7. ASSUME NEW c \in Clients, LockDurableFails(c) PROVE StripeHeld'
  BY <1>7 DEF LockDurableFails
<1>8. ASSUME NEW c \in Clients, OrphanLock(c) PROVE StripeHeld'
  BY <1>8 DEF OrphanLock
<1>9. ASSUME NEW c \in Clients, BeginLookup(c) PROVE StripeHeld'
  BY <1>9 DEF BeginLookup
<1>10. ASSUME NEW c \in Clients, ReadMeta(c) PROVE StripeHeld'
  BY <1>10 DEF ReadMeta
<1>11. ASSUME NEW c \in Clients, LookupById(c) PROVE StripeHeld'
  BY <1>11 DEF LookupById, FoundFile, Found
<1>12. ASSUME NEW c \in Clients, SearchFinds(c) PROVE StripeHeld'
  BY <1>12 DEF SearchFinds, FoundFile, Found
<1>13. ASSUME NEW c \in Clients, SearchFindsNothing(c) PROVE StripeHeld'
  BY <1>13 DEF SearchFindsNothing, NotFound
<1>14. ASSUME NEW c \in Clients, Repair(c) PROVE StripeHeld'
  BY <1>14 DEF Repair, Found
<1>15. ASSUME NEW c \in Clients, StaleRepair(c) PROVE StripeHeld'
  BY <1>15 DEF StaleRepair, NotFound
<1>16. ASSUME NEW c \in Clients, CallFails(c) PROVE StripeHeld'
  BY <1>16 DEF CallFails, CallPhases
<1>17. ASSUME NEW c \in Clients, BeginRecord(c) PROVE StripeHeld'
  BY <1>17 DEF BeginRecord
<1>18. ASSUME NEW c \in Clients, Record(c) PROVE StripeHeld'
  BY <1>18 DEF Record
<1>19. ASSUME NEW c \in Clients, Stage(c) PROVE StripeHeld'
  BY <1>19 DEF Stage
<1>20. ASSUME NEW c \in Clients, StageFails(c) PROVE StripeHeld'
  BY <1>20 DEF StageFails
<1>21. ASSUME NEW c \in Clients, BeginUpload(c) PROVE StripeHeld'
  BY <1>21 DEF BeginUpload
<1>22. ASSUME NEW c \in Clients, SearchAgain(c) PROVE StripeHeld'
  BY <1>22 DEF SearchAgain
<1>23. ASSUME NEW c \in Clients, Create(c) PROVE StripeHeld'
  BY <1>23 DEF Create
<1>24. ASSUME NEW c \in Clients, OpenDownload(c) PROVE StripeHeld'
  BY <1>24 DEF OpenDownload
<1>25. ASSUME NEW c \in Clients, FinishSucceeded(c) PROVE StripeHeld'
  BY <1>25 DEF FinishSucceeded, ReleaseLocks
<1>26. ASSUME NEW c \in Clients, FinishFailed(c) PROVE StripeHeld'
  BY <1>26 DEF FinishFailed, ReleaseLocks
<1>27. ASSUME NEW c \in Clients, FinishBreaks(c) PROVE StripeHeld'
  BY <1>27 DEF FinishBreaks, ReleaseLocks
<1>28. ASSUME NEW c \in Clients, OrphanRecord(c) PROVE StripeHeld'
  BY <1>28 DEF OrphanRecord
<1>29. ASSUME NEW c \in Clients, OrphanStale(c) PROVE StripeHeld'
  BY <1>29 DEF OrphanStale
<1>30. ASSUME NEW c \in Clients, OrphanFinish(c) PROVE StripeHeld'
  BY <1>30 DEF OrphanFinish
<1>31. ASSUME NEW c \in Clients, Disconnect(c) PROVE StripeHeld'
  BY <1>31 DEF Disconnect, Abandoned, ReleaseLocks, ActivePhases
<1>32. ASSUME NEW c \in Clients, LateCreate(c) PROVE StripeHeld'
  BY <1>32 DEF LateCreate
<1>33. ASSUME NEW c \in Clients, Stream(c) PROVE StripeHeld'
  BY <1>33 DEF Stream
<1>34. ASSUME NEW p \in Processes, Crash(p) PROVE StripeHeld'
  BY <1>34 DEF Crash, Dying
<1>35. ASSUME NEW o \in Objects, NEW i \in FileId, ExternalDelete(o, i)
       PROVE  StripeHeld'
  BY <1>35 DEF ExternalDelete
<1>36. CASE UNCHANGED vars
  BY <1>36 DEF vars
<1> QED
  BY <1>1, <1>2, <1>3, <1>4, <1>5, <1>6, <1>7, <1>8, <1>9, <1>10, <1>11, <1>12,
     <1>13, <1>14, <1>15, <1>16, <1>17, <1>18, <1>19, <1>20, <1>21, <1>22, <1>23, <1>24,
     <1>25, <1>26, <1>27, <1>28, <1>29, <1>30, <1>31, <1>32, <1>33, <1>34, <1>35, <1>36
  DEF Next, Begin, Step, Environment

----------------------------------------------------------------------------
(* While an upload is about to create a file nobody else has stored one:   *)
(* what it saw in its second search still holds.  This needs StripeHeld.   *)
CreatorAlone ==
  \A u \in Uploads : pc[u] = "create" => files[ObjectOf[u]] \ late = {}

(* Ids are never used twice.                                               *)
LateUsed == late \subseteq UsedIds

FilesInv == CreatorAlone /\ LateUsed /\ NoDuplicateFiles

IInv == TypeInv /\ StripeHeld /\ FilesInv

(* A step that leaves the storage root alone and starts no creation.       *)
LEMMA FilesUntouched ==
  ASSUME FilesInv, UNCHANGED <<files, deleted, late>>,
         \A u \in Uploads : pc'[u] = "create" => pc[u] = "create"
  PROVE  FilesInv'
  BY DEF FilesInv, CreatorAlone, LateUsed, NoDuplicateFiles, UsedIds

(* Where the outcomes of a lookup lead.                                    *)
LEMMA LookupLeads ==
  ASSUME NEW c \in Clients
  PROVE  /\ Found(c) => \E phase \in {"waitRecord", "open", "ok"} : Goto(c, phase)
         /\ NotFound(c) =>
              \E phase \in {"stage", "finishFail", "missing"} : Goto(c, phase)
<1>1. c \in Uploads \/ c \in Downloads \/ c \in Batches
  BY DEF Clients
<1>2. CASE c \in Uploads
  BY <1>2, KindAssumption DEF Found, NotFound
<1>3. CASE c \in Downloads
  BY <1>3, KindAssumption DEF Found, NotFound
<1>4. CASE c \in Batches
  BY <1>4, KindAssumption DEF Found, NotFound
<1> QED
  BY <1>1, <1>2, <1>3, <1>4

(* Only the second search leads to a creation, and only if it was empty.   *)
LEMMA FilesStep ==
  IInv /\ StripeHeld' /\ [Next]_vars => FilesInv'
<1> SUFFICES ASSUME IInv, StripeHeld', [Next]_vars PROVE FilesInv'
  OBVIOUS
<1> USE DEF IInv
<1>a. ASSUME NEW c \in Clients, NEW phase, phase # "create", Goto(c, phase),
             UNCHANGED <<files, deleted, late>>
      PROVE  FilesInv'
  <2>1. \A u \in Uploads : pc'[u] = "create" => pc[u] = "create"
    BY <1>a DEF Goto, TypeInv, TypeOK
  <2> QED
    BY <1>a, <2>1, FilesUntouched
<1>1. ASSUME NEW c \in Clients, Start(c) PROVE FilesInv'
  BY <1>a, <1>1 DEF Start, store
<1>2. ASSUME NEW c \in Clients, StartFails(c) PROVE FilesInv'
  BY <1>a, <1>2 DEF StartFails, store
<1>3. ASSUME NEW c \in Clients, StartBatch(c) PROVE FilesInv'
  BY <1>a, <1>3 DEF StartBatch, store
<1>4. ASSUME NEW c \in Clients, LockInProcess(c) PROVE FilesInv'
  BY <1>a, <1>4 DEF LockInProcess, store
<1>5. ASSUME NEW c \in Clients, WaitDurable(c) PROVE FilesInv'
  BY <1>a, <1>5 DEF WaitDurable, store
<1>6. ASSUME NEW c \in Clients, LockDurable(c) PROVE FilesInv'
  BY <1>a, <1>6 DEF LockDurable, store
<1>7. ASSUME NEW c \in Clients, LockDurableFails(c) PROVE FilesInv'
  BY <1>a, <1>7 DEF LockDurableFails, store
<1>8. ASSUME NEW c \in Clients, OrphanLock(c) PROVE FilesInv'
  BY <1>a, <1>8 DEF OrphanLock, store
<1>9. ASSUME NEW c \in Clients, BeginLookup(c) PROVE FilesInv'
  BY <1>a, <1>9 DEF BeginLookup, store
<1>10. ASSUME NEW c \in Clients, ReadMeta(c) PROVE FilesInv'
  BY <1>a, <1>10 DEF ReadMeta, store
<1>11. ASSUME NEW c \in Clients, LookupById(c) PROVE FilesInv'
  BY <1>a, <1>11, LookupLeads DEF LookupById, FoundFile, store
<1>12. ASSUME NEW c \in Clients, SearchFinds(c) PROVE FilesInv'
  BY <1>a, <1>12, LookupLeads DEF SearchFinds, FoundFile, store
<1>13. ASSUME NEW c \in Clients, SearchFindsNothing(c) PROVE FilesInv'
  BY <1>a, <1>13, LookupLeads DEF SearchFindsNothing, store
<1>14. ASSUME NEW c \in Clients, Repair(c) PROVE FilesInv'
  BY <1>a, <1>14, LookupLeads DEF Repair, store
<1>15. ASSUME NEW c \in Clients, StaleRepair(c) PROVE FilesInv'
  BY <1>a, <1>15, LookupLeads DEF StaleRepair, store
<1>16. ASSUME NEW c \in Clients, CallFails(c) PROVE FilesInv'
  BY <1>a, <1>16 DEF CallFails, store
<1>17. ASSUME NEW c \in Clients, BeginRecord(c) PROVE FilesInv'
  BY <1>a, <1>17 DEF BeginRecord, store
<1>18. ASSUME NEW c \in Clients, Record(c) PROVE FilesInv'
  BY <1>a, <1>18 DEF Record, store
<1>19. ASSUME NEW c \in Clients, Stage(c) PROVE FilesInv'
  BY <1>a, <1>19 DEF Stage, store
<1>20. ASSUME NEW c \in Clients, StageFails(c) PROVE FilesInv'
  BY <1>a, <1>20 DEF StageFails, store
<1>21. ASSUME NEW c \in Clients, BeginUpload(c) PROVE FilesInv'
  BY <1>a, <1>21 DEF BeginUpload, store
<1>22. ASSUME NEW c \in Clients, OpenDownload(c) PROVE FilesInv'
  BY <1>a, <1>22 DEF OpenDownload, store
<1>23. ASSUME NEW c \in Clients, FinishSucceeded(c) PROVE FilesInv'
  BY <1>a, <1>23 DEF FinishSucceeded, store
<1>24. ASSUME NEW c \in Clients, FinishFailed(c) PROVE FilesInv'
  BY <1>a, <1>24 DEF FinishFailed, store
<1>25. ASSUME NEW c \in Clients, FinishBreaks(c) PROVE FilesInv'
  BY <1>a, <1>25 DEF FinishBreaks, store
<1>26. ASSUME NEW c \in Clients, OrphanRecord(c) PROVE FilesInv'
  BY <1>a, <1>26 DEF OrphanRecord, store
<1>27. ASSUME NEW c \in Clients, OrphanStale(c) PROVE FilesInv'
  BY <1>a, <1>27 DEF OrphanStale, store
<1>28. ASSUME NEW c \in Clients, OrphanFinish(c) PROVE FilesInv'
  BY <1>a, <1>28 DEF OrphanFinish, store
<1>29. ASSUME NEW c \in Clients, Disconnect(c) PROVE FilesInv'
  <2>1. Abandoned(c) # "create"
    BY DEF Abandoned
  <2> QED
    BY <1>a, <1>29, <2>1 DEF Disconnect
<1>30. ASSUME NEW c \in Clients, Stream(c) PROVE FilesInv'
  BY <1>a, <1>30 DEF Stream, store
<1>31. ASSUME NEW c \in Clients, SearchAgain(c) PROVE FilesInv'
  <2>1. UNCHANGED <<files, deleted, late>>
    BY <1>31 DEF SearchAgain, store
  <2>2. CASE files[ObjectOf[c]] # {}
    BY <1>a, <1>31, <2>1, <2>2 DEF SearchAgain
  <2>3. CASE files[ObjectOf[c]] = {}
    <3>1. \A u \in Uploads : pc'[u] = "create" => u = c \/ pc[u] = "create"
      BY <1>31, <2>3 DEF SearchAgain, Goto, TypeInv, TypeOK, Clients
    <3>2. CreatorAlone'
      BY <2>1, <2>3, <3>1 DEF FilesInv, CreatorAlone
    <3> QED
      BY <2>1, <3>2 DEF FilesInv, LateUsed, NoDuplicateFiles, UsedIds
  <2> QED
    BY <2>2, <2>3
<1>32. ASSUME NEW c \in Clients, Create(c) PROVE FilesInv'
  <2> DEFINE o == ObjectOf[c]
  <2>1. PICK i \in FileId \ UsedIds : files' = [files EXCEPT ![o] = @ \cup {i}]
    BY <1>32 DEF Create
  <2>2. c \in Uploads /\ o \in Objects /\ files[o] \ late = {}
    BY <1>32, PlaceAssumption
    DEF Create, TypeInv, HandlerInv, UploadPhases, FilesInv, CreatorAlone,
        Clients
  <2>3. i \notin late /\ late' = late /\ deleted' = deleted
    BY <1>32 DEF Create, FilesInv, LateUsed
  <2>4. files' \in [Objects -> SUBSET FileId] /\ files'[o] = files[o] \cup {i}
        /\ \A x \in Objects \ {o} : files'[x] = files[x]
    BY <2>1, <2>2 DEF TypeInv, TypeOK
  <2>5. NoDuplicateFiles'
    BY <2>2, <2>3, <2>4 DEF FilesInv, NoDuplicateFiles
  <2>6. LateUsed'
    BY <2>3, <2>4 DEF FilesInv, LateUsed, UsedIds
  <2>7. ASSUME NEW u \in Uploads, pc'[u] = "create"
        PROVE  files'[ObjectOf[u]] \ late' = {}
    <3>1. u # c /\ pc[u] = "create"
      BY <1>32, <2>7 DEF Create, Goto, TypeInv, TypeOK, Clients
    <3>2. stripeLock[Stripe(u)] = u /\ stripeLock[Stripe(c)] = c
      BY <1>32, <2>2, <3>1 DEF StripeHeld, InsidePhases, Create
    <3>3. ObjectOf[u] \in Objects \ {o}
      BY <3>1, <3>2, PlaceAssumption DEF Stripe, Clients
    <3> QED
      BY <2>3, <2>4, <3>1, <3>3 DEF FilesInv, CreatorAlone
  <2> QED
    BY <2>5, <2>6, <2>7 DEF FilesInv, CreatorAlone
<1>33. ASSUME NEW c \in Clients, LateCreate(c) PROVE FilesInv'
  <2> DEFINE o == ObjectOf[c]
  <2>1. PICK i \in FileId \ UsedIds :
          files' = [files EXCEPT ![o] = @ \cup {i}] /\ late' = late \cup {i}
    BY <1>33 DEF LateCreate
  <2>2. o \in Objects /\ pc' = pc /\ deleted' = deleted
    BY <1>33, PlaceAssumption DEF LateCreate, TypeInv, TypeOK, Clients
  <2>3. files'[o] = files[o] \cup {i}
        /\ \A x \in Objects \ {o} : files'[x] = files[x]
    BY <2>1, <2>2 DEF TypeInv, TypeOK
  <2>4. \A x \in Objects : files'[x] \ late' = files[x] \ (late \cup {i})
    BY <2>1, <2>2, <2>3
  <2> QED
    BY <2>1, <2>2, <2>3, <2>4, PlaceAssumption
    DEF FilesInv, CreatorAlone, LateUsed, NoDuplicateFiles, UsedIds, Clients
<1>34. ASSUME NEW p \in Processes, Crash(p) PROVE FilesInv'
  <2>1. \A u \in Uploads : pc'[u] = "create" => pc[u] = "create"
    BY <1>34 DEF Crash, Clients
  <2> QED
    BY <1>34, <2>1, FilesUntouched DEF Crash
<1>35. ASSUME NEW o \in Objects, NEW i \in FileId, ExternalDelete(o, i)
       PROVE  FilesInv'
  <2>1. files'[o] = files[o] \ {i}
        /\ \A x \in Objects \ {o} : files'[x] = files[x]
    BY <1>35 DEF ExternalDelete, TypeInv, TypeOK
  <2>2. deleted'[o] = deleted[o] \cup {i}
        /\ \A x \in Objects \ {o} : deleted'[x] = deleted[x]
    BY <1>35 DEF ExternalDelete, TypeInv, TypeOK
  <2>3. late' = late /\ pc' = pc
    BY <1>35 DEF ExternalDelete
  <2>4. LateUsed'
    BY <2>1, <2>2, <2>3 DEF FilesInv, LateUsed, UsedIds
  <2>5. NoDuplicateFiles' /\ CreatorAlone'
    BY <2>1, <2>3, PlaceAssumption
    DEF FilesInv, NoDuplicateFiles, CreatorAlone, Clients
  <2> QED
    BY <2>4, <2>5 DEF FilesInv
<1>36. CASE UNCHANGED vars
  BY <1>36, FilesUntouched DEF vars
<1> QED
  BY <1>1, <1>2, <1>3, <1>4, <1>5, <1>6, <1>7, <1>8, <1>9, <1>10, <1>11, <1>12,
     <1>13, <1>14, <1>15, <1>16, <1>17, <1>18, <1>19, <1>20, <1>21, <1>22, <1>23, <1>24,
     <1>25, <1>26, <1>27, <1>28, <1>29, <1>30, <1>31, <1>32, <1>33, <1>34, <1>35, <1>36
  DEF Next, Begin, Step, Environment

(* THEOREM: an object is stored at most once, whatever requests, processes *)
(* and stripes there are, however requests are interleaved, dropped or     *)
(* killed, except for uploads Drive completes after their request is over. *)
THEOREM StoredOnce == Spec => []NoDuplicateFiles
<1>1. Init => IInv
  <2>1. Init => StripeHeld /\ FilesInv
    BY DEF Init, StripeHeld, InsidePhases, LookupPhases, FilesInv,
           CreatorAlone, LateUsed, NoDuplicateFiles, Clients
  <2> QED
    BY <2>1, TypeInit DEF IInv
<1>2. IInv /\ [Next]_vars => IInv'
  BY TypeStep, StripeStep, FilesStep DEF IInv
<1>3. IInv => NoDuplicateFiles
  BY DEF IInv, FilesInv
<1> QED
  BY <1>1, <1>2, <1>3, PTL DEF Spec

----------------------------------------------------------------------------
(* Ids are only ever forgotten by Drive, not by this record of it: what    *)
(* was once a file of an object is one or was deleted.                     *)
Known(o) == files[o] \cup deleted[o]

(* What handlers remember is true of the object they work on, however old  *)
(* it is; a row that is about to be called stale names a deleted file.     *)
MemoryInv ==
  \A c \in Clients :
    /\ got[c] # NoId => got[c] \in Known(ObjectOf[c])
    /\ seen[c] # NoRow => seen[c].id \in Known(ObjectOf[c])
    /\ seen[c] # NoRow /\ pc[c] \in {"search", "stale", "orphanStale"} =>
         seen[c].id \in deleted[ObjectOf[c]]

MappingInv == MemoryInv /\ MappingTruthful

(* What was known stays known, and what is deleted stays deleted.          *)
LEMMA KnownGrows ==
  ASSUME TypeInv, [Next]_vars, NEW o \in Objects
  PROVE  Known(o) \subseteq Known(o)' /\ deleted[o] \subseteq deleted'[o]
<1> USE PlaceAssumption DEF TypeInv, TypeOK, Known, Clients
<1>1. CASE UNCHANGED <<files, deleted>>
  BY <1>1
<1>2. ASSUME NEW c \in Clients, Create(c)
      PROVE  Known(o) \subseteq Known(o)' /\ deleted[o] \subseteq deleted'[o]
  BY <1>2 DEF Create
<1>3. ASSUME NEW c \in Clients, LateCreate(c)
      PROVE  Known(o) \subseteq Known(o)' /\ deleted[o] \subseteq deleted'[o]
  BY <1>3 DEF LateCreate
<1>4. ASSUME NEW x \in Objects, NEW i \in FileId, ExternalDelete(x, i)
      PROVE  Known(o) \subseteq Known(o)' /\ deleted[o] \subseteq deleted'[o]
  BY <1>4 DEF ExternalDelete
<1>5. ASSUME NEW c \in Clients, Begin(c) \/ Step(c)
      PROVE  UNCHANGED <<files, deleted>> \/ Create(c)
  BY <1>5
  DEF Begin, Step, store, Start, StartFails, StartBatch, LockInProcess, WaitDurable,
      LockDurable, LockDurableFails, OrphanLock, BeginLookup, ReadMeta, LookupById,
      SearchFinds, SearchFindsNothing, Repair, StaleRepair, CallFails, BeginRecord,
      Record, Stage, StageFails, BeginUpload, SearchAgain, OpenDownload,
      FinishSucceeded, FinishFailed, FinishBreaks, OrphanRecord, OrphanStale,
      OrphanFinish
<1>6. /\ \A c \in Clients : Disconnect(c) \/ Stream(c) => UNCHANGED <<files, deleted>>
      /\ \A p \in Processes : Crash(p) => UNCHANGED <<files, deleted>>
  BY DEF Disconnect, Stream, Crash, store
<1>7. UNCHANGED vars => UNCHANGED <<files, deleted>>
  BY DEF vars, store
<1> QED
  BY <1>1, <1>2, <1>3, <1>4, <1>5, <1>6, <1>7 DEF Next, Environment

(* A step that leaves the rows alone, and what requests read of them.      *)
LEMMA MemoryKept ==
  ASSUME TypeInv, MappingInv, [Next]_vars, UNCHANGED <<seen, got, meta>>,
         \A c \in Clients : pc'[c] \in {"search", "stale", "orphanStale"} =>
           pc[c] \in {"search", "stale", "orphanStale"}
  PROVE  MappingInv'
<1>1. \A o \in Objects :
        Known(o) \subseteq Known(o)' /\ deleted[o] \subseteq deleted'[o]
  BY KnownGrows
<1>2. \A c \in Clients : ObjectOf[c] \in Objects
  BY PlaceAssumption
<1>3. MemoryInv'
  BY <1>1, <1>2 DEF MappingInv, MemoryInv
<1>4. MappingTruthful'
  BY <1>1 DEF MappingInv, MappingTruthful, Known
<1> QED
  BY <1>3, <1>4 DEF MappingInv

(* A lookup that found file i.                                             *)
LEMMA FoundKept ==
  ASSUME TypeInv, MappingInv, NEW c \in Clients, NEW i \in files[ObjectOf[c]],
         FoundFile(c, i), UNCHANGED <<seen, meta, files, deleted>>
  PROVE  MappingInv'
<1>1. ObjectOf[c] \in Objects /\ i \in FileId
  BY PlaceAssumption DEF TypeInv, TypeOK
<1>2. got' = [got EXCEPT ![c] = i]
  BY DEF FoundFile
<1>3. \E phase \in {"repair", "waitRecord", "open", "ok"} : Goto(c, phase)
  BY LookupLeads DEF FoundFile
<1>4. MemoryInv'
  BY <1>1, <1>2, <1>3
  DEF MappingInv, MemoryInv, Known, Goto, TypeInv, TypeOK
<1> QED
  BY <1>4 DEF MappingInv, MappingTruthful

(* A handler that has a file records it.                                   *)
LEMMA RecordKept ==
  ASSUME TypeInv, MappingInv, NEW c \in Clients, got[c] \in FileId,
         RecordVerified(ObjectOf[c], got[c]),
         UNCHANGED <<seen, got, files, deleted>>,
         NEW phase, phase \notin {"search", "stale", "orphanStale"},
         Goto(c, phase)
  PROVE  MappingInv'
<1>1. ObjectOf[c] \in Objects /\ got[c] \in Known(ObjectOf[c])
  BY PlaceAssumption, NullAssumption DEF MappingInv, MemoryInv
<1>2. meta' = [meta EXCEPT ![ObjectOf[c]] = [id |-> got[c], status |-> "verified"]]
  BY DEF RecordVerified
<1>3. MappingTruthful'
  BY <1>1, <1>2 DEF MappingInv, MappingTruthful, Known, TypeInv, TypeOK
<1>4. MemoryInv'
  BY DEF MappingInv, MemoryInv, Known, Goto, TypeInv, TypeOK
<1> QED
  BY <1>3, <1>4 DEF MappingInv

(* A handler condemns a row it has found to name a deleted file.           *)
LEMMA MarkKept ==
  ASSUME TypeInv, MappingInv, NEW c \in Clients,
         pc[c] \in {"stale", "orphanStale"},
         MarkStale(ObjectOf[c], seen[c].id),
         UNCHANGED <<seen, got, files, deleted>>,
         NEW phase, phase \notin {"search", "stale", "orphanStale"},
         Goto(c, phase)
  PROVE  MappingInv'
<1> DEFINE o == ObjectOf[c]
<1>1. o \in Objects
  BY PlaceAssumption
<1>2. seen[c] \in ObjectRow
  BY DEF TypeInv, HandlerInv
<1>3. seen[c].id \in deleted[o]
  BY <1>2, NullAssumption DEF MappingInv, MemoryInv, ObjectRow
<1>4. ASSUME meta[o] # NoRow, meta[o].id = seen[c].id PROVE MappingTruthful'
  <2>1. meta[o] \in ObjectRow
    BY <1>1, <1>4 DEF TypeInv, TypeOK
  <2>2. meta' = [meta EXCEPT ![o] = [@ EXCEPT !.status = "stale"]]
    BY <1>4 DEF MarkStale
  <2>3. meta'[o].id = meta[o].id /\ \A x \in Objects \ {o} : meta'[x] = meta[x]
    BY <1>1, <2>1, <2>2 DEF TypeInv, TypeOK, ObjectRow
  <2> QED
    BY <1>1, <1>3, <1>4, <2>3 DEF MappingInv, MappingTruthful
<1>5. ASSUME ~(meta[o] # NoRow /\ meta[o].id = seen[c].id)
      PROVE  MappingTruthful'
  BY <1>5 DEF MarkStale, MappingInv, MappingTruthful
<1>6. MappingTruthful'
  BY <1>4, <1>5
<1>7. MemoryInv'
  BY DEF MappingInv, MemoryInv, Known, Goto, TypeInv, TypeOK
<1> QED
  BY <1>6, <1>7 DEF MappingInv

LEMMA MappingStep == TypeInv /\ MappingInv /\ [Next]_vars => MappingInv'
<1> SUFFICES ASSUME TypeInv, MappingInv, [Next]_vars PROVE MappingInv'
  OBVIOUS
<1>a. ASSUME NEW c \in Clients, NEW phase,
             phase \notin {"search", "stale", "orphanStale"}, Goto(c, phase),
             UNCHANGED <<seen, got, meta>>
      PROVE  MappingInv'
  <2>1. \A d \in Clients : pc'[d] \in {"search", "stale", "orphanStale"} =>
          pc[d] \in {"search", "stale", "orphanStale"}
    BY <1>a DEF Goto, TypeInv, TypeOK
  <2> QED
    BY <1>a, <2>1, MemoryKept
<1>1. ASSUME NEW c \in Clients, Start(c) PROVE MappingInv'
  BY <1>a, <1>1 DEF Start, store
<1>2. ASSUME NEW c \in Clients, StartFails(c) PROVE MappingInv'
  BY <1>a, <1>2 DEF StartFails, store
<1>3. ASSUME NEW c \in Clients, StartBatch(c) PROVE MappingInv'
  BY <1>a, <1>3 DEF StartBatch, store
<1>4. ASSUME NEW c \in Clients, LockInProcess(c) PROVE MappingInv'
  BY <1>a, <1>4 DEF LockInProcess, store
<1>5. ASSUME NEW c \in Clients, WaitDurable(c) PROVE MappingInv'
  BY <1>a, <1>5 DEF WaitDurable, store
<1>6. ASSUME NEW c \in Clients, LockDurable(c) PROVE MappingInv'
  BY <1>a, <1>6 DEF LockDurable, store
<1>7. ASSUME NEW c \in Clients, LockDurableFails(c) PROVE MappingInv'
  BY <1>a, <1>7 DEF LockDurableFails, store
<1>8. ASSUME NEW c \in Clients, OrphanLock(c) PROVE MappingInv'
  BY <1>a, <1>8 DEF OrphanLock, store
<1>9. ASSUME NEW c \in Clients, BeginLookup(c) PROVE MappingInv'
  BY <1>a, <1>9 DEF BeginLookup, store
<1>10. ASSUME NEW c \in Clients, ReadMeta(c) PROVE MappingInv'
  <2> DEFINE o == ObjectOf[c]
  <2>1. o \in Objects
    BY PlaceAssumption
  <2>2. seen' = [seen EXCEPT ![c] = meta[o]] /\ UNCHANGED <<got, meta, files, deleted>>
    BY <1>10 DEF ReadMeta, store
  <2>3. pc'[c] = "search" => meta[o] = NoRow
    BY <1>10 DEF ReadMeta, Goto, TypeInv, TypeOK
  <2>4. pc'[c] \in {"search", "byId"} /\ \A d \in Clients \ {c} : pc'[d] = pc[d]
    BY <1>10 DEF ReadMeta, Goto, TypeInv, TypeOK
  <2>5. seen'[c] = meta[o] /\ \A d \in Clients \ {c} : seen'[d] = seen[d]
    BY <2>2 DEF TypeInv, TypeOK
  <2>6. MemoryInv'
    BY <2>1, <2>2, <2>3, <2>4, <2>5
    DEF MappingInv, MappingTruthful, MemoryInv, Known
  <2> QED
    BY <2>2, <2>6 DEF MappingInv, MappingTruthful
<1>11. ASSUME NEW c \in Clients, LookupById(c) PROVE MappingInv'
  <2> DEFINE o == ObjectOf[c]
  <2>1. CASE seen[c].id \in files[o]
    BY <1>11, <2>1, FoundKept DEF LookupById, store
  <2>2. CASE seen[c].id \notin files[o]
    <3>1. seen[c] \in ObjectRow
      BY <1>11 DEF LookupById, TypeInv, HandlerInv
    <3>2. seen[c].id \in deleted[o]
      BY <2>2, <3>1, NullAssumption DEF MappingInv, MemoryInv, Known, ObjectRow
    <3>3. Goto(c, "search") /\ UNCHANGED <<seen, got, meta, files, deleted>>
      BY <1>11, <2>2 DEF LookupById, store
    <3> QED
      BY <3>2, <3>3
      DEF MappingInv, MemoryInv, MappingTruthful, Known, Goto, TypeInv, TypeOK
  <2> QED
    BY <2>1, <2>2
<1>12. ASSUME NEW c \in Clients, SearchFinds(c) PROVE MappingInv'
  <2>1. ObjectOf[c] \in Objects
    BY PlaceAssumption
  <2>2. Smallest(files[ObjectOf[c]]) \in files[ObjectOf[c]]
    BY <1>12, <2>1, SmallestIsMember DEF SearchFinds, TypeInv, TypeOK
  <2> QED
    BY <1>12, <2>2, FoundKept DEF SearchFinds, store
<1>13. ASSUME NEW c \in Clients, SearchFindsNothing(c) PROVE MappingInv'
  <2>1. CASE seen[c] = NoRow
    BY <1>a, <1>13, <2>1, LookupLeads DEF SearchFindsNothing, store
  <2>2. CASE seen[c] # NoRow
    <3>1. Goto(c, "stale") /\ pc[c] = "search" /\ UNCHANGED <<seen, got, meta>>
      BY <1>13, <2>2 DEF SearchFindsNothing, store
    <3>2. \A d \in Clients : pc'[d] \in {"search", "stale", "orphanStale"} =>
            pc[d] \in {"search", "stale", "orphanStale"}
      BY <3>1 DEF Goto, TypeInv, TypeOK
    <3> QED
      BY <3>1, <3>2, MemoryKept
  <2> QED
    BY <2>1, <2>2
<1>14. ASSUME NEW c \in Clients, Repair(c) PROVE MappingInv'
  BY <1>14, LookupLeads, RecordKept
  DEF Repair, store, TypeInv, HandlerInv, HoldingPhases
<1>15. ASSUME NEW c \in Clients, StaleRepair(c) PROVE MappingInv'
  BY <1>15, LookupLeads, MarkKept DEF StaleRepair, store
<1>16. ASSUME NEW c \in Clients, Record(c) PROVE MappingInv'
  BY <1>16, RecordKept DEF Record, store, TypeInv, HandlerInv, HoldingPhases
<1>17. ASSUME NEW c \in Clients, OrphanRecord(c) PROVE MappingInv'
  BY <1>17, RecordKept DEF OrphanRecord, store, TypeInv, HandlerInv, HoldingPhases
<1>18. ASSUME NEW c \in Clients, OrphanStale(c) PROVE MappingInv'
  BY <1>18, MarkKept DEF OrphanStale, store
<1>19. ASSUME NEW c \in Clients, SearchAgain(c) PROVE MappingInv'
  <2> DEFINE o == ObjectOf[c]
  <2>1. CASE files[o] # {}
    <3>1. o \in Objects /\ Smallest(files[o]) \in files[o]
      BY <2>1, PlaceAssumption, SmallestIsMember DEF TypeInv, TypeOK
    <3>2. /\ got' = [got EXCEPT ![c] = Smallest(files[o])] /\ Goto(c, "record")
          /\ UNCHANGED <<seen, meta, files, deleted>>
      BY <1>19, <2>1 DEF SearchAgain, store
    <3> QED
      BY <3>1, <3>2
      DEF MappingInv, MemoryInv, MappingTruthful, Known, Goto, TypeInv, TypeOK
  <2>2. CASE files[o] = {}
    BY <1>a, <1>19, <2>2 DEF SearchAgain, store
  <2> QED
    BY <2>1, <2>2
<1>20. ASSUME NEW c \in Clients, Create(c) PROVE MappingInv'
  <2> DEFINE o == ObjectOf[c]
  <2>1. PICK i \in FileId \ UsedIds : /\ files' = [files EXCEPT ![o] = @ \cup {i}]
                                      /\ got' = [got EXCEPT ![c] = i]
    BY <1>20 DEF Create
  <2>2. Goto(c, "record") /\ UNCHANGED <<seen, meta, deleted>>
    BY <1>20 DEF Create
  <2>3. o \in Objects /\ \A x \in Objects : Known(x) \subseteq Known(x)'
    BY PlaceAssumption, KnownGrows
  <2>4. \A d \in Clients : ObjectOf[d] \in Objects
    BY PlaceAssumption
  <2>5. i \in Known(o)' /\ got'[c] = i /\ \A d \in Clients \ {c} : got'[d] = got[d]
    BY <2>1, <2>3 DEF Known, TypeInv, TypeOK
  <2>6. MemoryInv'
    BY <2>2, <2>3, <2>4, <2>5 DEF MappingInv, MemoryInv, Goto, TypeInv, TypeOK
  <2>7. MappingTruthful'
    BY <2>2, <2>3 DEF MappingInv, MappingTruthful, Known
  <2> QED
    BY <2>6, <2>7 DEF MappingInv
<1>21. ASSUME NEW c \in Clients, CallFails(c) PROVE MappingInv'
  BY <1>a, <1>21 DEF CallFails, store
<1>22. ASSUME NEW c \in Clients, BeginRecord(c) PROVE MappingInv'
  BY <1>a, <1>22 DEF BeginRecord, store
<1>23. ASSUME NEW c \in Clients, Stage(c) PROVE MappingInv'
  BY <1>a, <1>23 DEF Stage, store
<1>24. ASSUME NEW c \in Clients, StageFails(c) PROVE MappingInv'
  BY <1>a, <1>24 DEF StageFails, store
<1>25. ASSUME NEW c \in Clients, BeginUpload(c) PROVE MappingInv'
  BY <1>a, <1>25 DEF BeginUpload, store
<1>26. ASSUME NEW c \in Clients, OpenDownload(c) PROVE MappingInv'
  BY <1>a, <1>26 DEF OpenDownload, store
<1>27. ASSUME NEW c \in Clients, FinishSucceeded(c) PROVE MappingInv'
  BY <1>a, <1>27 DEF FinishSucceeded, store
<1>28. ASSUME NEW c \in Clients, FinishFailed(c) PROVE MappingInv'
  BY <1>a, <1>28 DEF FinishFailed, store
<1>29. ASSUME NEW c \in Clients, FinishBreaks(c) PROVE MappingInv'
  BY <1>a, <1>29 DEF FinishBreaks, store
<1>30. ASSUME NEW c \in Clients, OrphanFinish(c) PROVE MappingInv'
  BY <1>a, <1>30 DEF OrphanFinish, store
<1>31. ASSUME NEW c \in Clients, Stream(c) PROVE MappingInv'
  BY <1>a, <1>31 DEF Stream, store
<1>32. ASSUME NEW c \in Clients, Disconnect(c) PROVE MappingInv'
  <2>1. \A d \in Clients : pc'[d] \in {"search", "stale", "orphanStale"} =>
          pc[d] \in {"search", "stale", "orphanStale"}
    BY <1>32 DEF Disconnect, Abandoned, Goto, TypeInv, TypeOK
  <2> QED
    BY <1>32, <2>1, MemoryKept DEF Disconnect
<1>33. ASSUME NEW c \in Clients, LateCreate(c) PROVE MappingInv'
  BY <1>33, MemoryKept DEF LateCreate
<1>34. ASSUME NEW p \in Processes, Crash(p) PROVE MappingInv'
  BY <1>34, MemoryKept DEF Crash
<1>35. ASSUME NEW o \in Objects, NEW i \in FileId, ExternalDelete(o, i)
       PROVE  MappingInv'
  BY <1>35, MemoryKept DEF ExternalDelete
<1>36. CASE UNCHANGED vars
  BY <1>36, MemoryKept DEF vars
<1> QED
  BY <1>1, <1>2, <1>3, <1>4, <1>5, <1>6, <1>7, <1>8, <1>9, <1>10, <1>11, <1>12,
     <1>13, <1>14, <1>15, <1>16, <1>17, <1>18, <1>19, <1>20, <1>21, <1>22, <1>23, <1>24,
     <1>25, <1>26, <1>27, <1>28, <1>29, <1>30, <1>31, <1>32, <1>33, <1>34, <1>35, <1>36
  DEF Next, Begin, Step, Environment

(* THEOREM: an object row names a file that was stored for the object, and *)
(* calls it stale only when that file was deleted, although lookups repair *)
(* rows without a lock and from snapshots of any age.                      *)
THEOREM RowsTruthful == Spec => []MappingTruthful
<1>1. Init => MappingInv
  BY DEF Init, MappingInv, MemoryInv, MappingTruthful
<1>2. MappingInv => MappingTruthful
  BY DEF MappingInv
<1> QED
  BY <1>1, <1>2, TypeInit, TypeStep, MappingStep, PTL DEF Spec

----------------------------------------------------------------------------
(* An upload whose attempt is, or is about to be, recorded as succeeded    *)
(* holds a file, and the row of its object has been written.               *)
SuccessInv ==
  \A u \in Uploads :
    /\ pc[u] = "ok" => row[u] = "succeeded"
    /\ row[u] = "succeeded" \/ pc[u] \in {"finishOk", "orphanFinishOk"} =>
         got[u] # NoId /\ meta[ObjectOf[u]] # NoRow

(* Rows are written and never removed.                                     *)
LEMMA RowsStay ==
  ASSUME TypeInv, [Next]_vars, NEW o \in Objects, meta[o] # NoRow
  PROVE  meta'[o] # NoRow
<1> USE PlaceAssumption, NullAssumption DEF TypeInv, TypeOK, ObjectRow
<1>1. CASE UNCHANGED meta
  BY <1>1
<1>2. ASSUME NEW c \in Clients, NEW i \in FileId, RecordVerified(ObjectOf[c], i)
      PROVE  meta'[o] # NoRow
  BY <1>2 DEF RecordVerified
<1>3. ASSUME NEW c \in Clients, NEW i, MarkStale(ObjectOf[c], i)
      PROVE  meta'[o] # NoRow
  <2>1. CASE meta' = meta
    BY <2>1
  <2>2. CASE ObjectOf[c] = o /\ meta' = [meta EXCEPT ![o] = [@ EXCEPT !.status = "stale"]]
    <3>1. meta[o] \in [id : FileId, status : {"verified", "stale"}]
      BY DEF TypeInv, TypeOK
    <3> QED
      BY <2>2, <3>1
  <2>3. CASE ObjectOf[c] # o /\ meta'[o] = meta[o]
    BY <2>3
  <2> QED
    BY <1>3, <2>1, <2>2, <2>3 DEF MarkStale
<1>4. \A c \in Clients :
        pc[c] \in HoldingPhases => got[c] \in FileId
  BY DEF HandlerInv
<1>5. ASSUME NEW c \in Clients, Begin(c) \/ Step(c)
      PROVE  \/ UNCHANGED meta
             \/ RecordVerified(ObjectOf[c], got[c]) /\ pc[c] \in HoldingPhases
             \/ \E i : MarkStale(ObjectOf[c], i)
  BY <1>5
  DEF Begin, Step, store, Start, StartFails, StartBatch, LockInProcess, WaitDurable,
      LockDurable, LockDurableFails, OrphanLock, BeginLookup, ReadMeta, LookupById,
      SearchFinds, SearchFindsNothing, Repair, StaleRepair, CallFails, BeginRecord,
      Record, Stage, StageFails, BeginUpload, SearchAgain, Create, OpenDownload,
      FinishSucceeded, FinishFailed, FinishBreaks, OrphanRecord, OrphanStale,
      OrphanFinish, HoldingPhases
<1>6. Environment \/ UNCHANGED vars => UNCHANGED meta
  BY DEF Environment, Disconnect, Stream, Crash, LateCreate, ExternalDelete, vars
<1> QED
  BY <1>1, <1>2, <1>3, <1>4, <1>5, <1>6 DEF Next

LEMMA SuccessStep == TypeInv /\ SuccessInv /\ [Next]_vars => SuccessInv'
<1> SUFFICES ASSUME TypeInv, SuccessInv, [Next]_vars PROVE SuccessInv'
  OBVIOUS
<1>a. \A u \in Uploads :
        ObjectOf[u] \in Objects
        /\ (meta[ObjectOf[u]] # NoRow => meta'[ObjectOf[u]] # NoRow)
  BY RowsStay, PlaceAssumption DEF Clients
<1> USE <1>a, KindAssumption, NullAssumption
    DEF SuccessInv, TypeInv, TypeOK, HandlerInv, HoldingPhases, UploadPhases,
        Clients, Goto
<1>1. ASSUME NEW c \in Clients, Start(c) PROVE SuccessInv'
  BY <1>1 DEF Start
<1>2. ASSUME NEW c \in Clients, StartFails(c) PROVE SuccessInv'
  BY <1>2 DEF StartFails
<1>3. ASSUME NEW c \in Clients, StartBatch(c) PROVE SuccessInv'
  BY <1>3 DEF StartBatch
<1>4. ASSUME NEW c \in Clients, LockInProcess(c) PROVE SuccessInv'
  BY <1>4 DEF LockInProcess
<1>5. ASSUME NEW c \in Clients, WaitDurable(c) PROVE SuccessInv'
  BY <1>5 DEF WaitDurable
<1>6. ASSUME NEW c \in Clients, LockDurable(c) PROVE SuccessInv'
  BY <1>6 DEF LockDurable
<1>7. ASSUME NEW c \in Clients, LockDurableFails(c) PROVE SuccessInv'
  BY <1>7 DEF LockDurableFails
<1>8. ASSUME NEW c \in Clients, OrphanLock(c) PROVE SuccessInv'
  BY <1>8 DEF OrphanLock
<1>9. ASSUME NEW c \in Clients, BeginLookup(c) PROVE SuccessInv'
  BY <1>9 DEF BeginLookup
<1>10. ASSUME NEW c \in Clients, ReadMeta(c) PROVE SuccessInv'
  BY <1>10 DEF ReadMeta
<1>11. ASSUME NEW c \in Clients, LookupById(c) PROVE SuccessInv'
  <2>1. seen[c].id \in FileId
    BY <1>11 DEF LookupById, ObjectRow
  <2> QED
    BY <1>11, <2>1 DEF LookupById, FoundFile, Found
<1>12. ASSUME NEW c \in Clients, SearchFinds(c) PROVE SuccessInv'
  <2>1. Smallest(files[ObjectOf[c]]) \in FileId
    BY <1>12, PlaceAssumption, SmallestIsMember DEF SearchFinds
  <2> QED
    BY <1>12, <2>1 DEF SearchFinds, FoundFile, Found
<1>13. ASSUME NEW c \in Clients, SearchFindsNothing(c) PROVE SuccessInv'
  BY <1>13 DEF SearchFindsNothing, NotFound
<1>14. ASSUME NEW c \in Clients, Repair(c) PROVE SuccessInv'
  BY <1>14 DEF Repair, Found
<1>15. ASSUME NEW c \in Clients, StaleRepair(c) PROVE SuccessInv'
  BY <1>15 DEF StaleRepair, NotFound
<1>16. ASSUME NEW c \in Clients, CallFails(c) PROVE SuccessInv'
  BY <1>16 DEF CallFails, CallPhases
<1>17. ASSUME NEW c \in Clients, BeginRecord(c) PROVE SuccessInv'
  BY <1>17 DEF BeginRecord
<1>18. ASSUME NEW c \in Clients, Record(c) PROVE SuccessInv'
  <2>1. ObjectOf[c] \in Objects /\ got[c] \in FileId
    BY <1>18, PlaceAssumption DEF Record
  <2>2. meta'[ObjectOf[c]] # NoRow
    BY <1>18, <2>1 DEF Record, RecordVerified
  <2> QED
    BY <1>18, <2>1, <2>2 DEF Record
<1>19. ASSUME NEW c \in Clients, Stage(c) PROVE SuccessInv'
  BY <1>19 DEF Stage
<1>20. ASSUME NEW c \in Clients, StageFails(c) PROVE SuccessInv'
  BY <1>20 DEF StageFails
<1>21. ASSUME NEW c \in Clients, BeginUpload(c) PROVE SuccessInv'
  BY <1>21 DEF BeginUpload
<1>22. ASSUME NEW c \in Clients, SearchAgain(c) PROVE SuccessInv'
  <2>1. files[ObjectOf[c]] # {} => Smallest(files[ObjectOf[c]]) \in FileId
    BY PlaceAssumption, SmallestIsMember
  <2> QED
    BY <1>22, <2>1 DEF SearchAgain
<1>23. ASSUME NEW c \in Clients, Create(c) PROVE SuccessInv'
  BY <1>23 DEF Create
<1>24. ASSUME NEW c \in Clients, OpenDownload(c) PROVE SuccessInv'
  BY <1>24 DEF OpenDownload
<1>25. ASSUME NEW c \in Clients, FinishSucceeded(c) PROVE SuccessInv'
  BY <1>25 DEF FinishSucceeded
<1>26. ASSUME NEW c \in Clients, FinishFailed(c) PROVE SuccessInv'
  BY <1>26 DEF FinishFailed
<1>27. ASSUME NEW c \in Clients, FinishBreaks(c) PROVE SuccessInv'
  BY <1>27 DEF FinishBreaks, Finishing
<1>28. ASSUME NEW c \in Clients, OrphanRecord(c) PROVE SuccessInv'
  BY <1>28 DEF OrphanRecord
<1>29. ASSUME NEW c \in Clients, OrphanStale(c) PROVE SuccessInv'
  BY <1>29 DEF OrphanStale
<1>30. ASSUME NEW c \in Clients, OrphanFinish(c) PROVE SuccessInv'
  BY <1>30 DEF OrphanFinish
<1>31. ASSUME NEW c \in Clients, Disconnect(c) PROVE SuccessInv'
  BY <1>31 DEF Disconnect, Abandoned
<1>32. ASSUME NEW c \in Clients, LateCreate(c) PROVE SuccessInv'
  BY <1>32 DEF LateCreate
<1>33. ASSUME NEW c \in Clients, Stream(c) PROVE SuccessInv'
  BY <1>33 DEF Stream
<1>34. ASSUME NEW p \in Processes, Crash(p) PROVE SuccessInv'
  BY <1>34 DEF Crash, Dying
<1>35. ASSUME NEW o \in Objects, NEW i \in FileId, ExternalDelete(o, i)
       PROVE  SuccessInv'
  BY <1>35 DEF ExternalDelete
<1>36. CASE UNCHANGED vars
  BY <1>36 DEF vars
<1> QED
  BY <1>1, <1>2, <1>3, <1>4, <1>5, <1>6, <1>7, <1>8, <1>9, <1>10, <1>11, <1>12,
     <1>13, <1>14, <1>15, <1>16, <1>17, <1>18, <1>19, <1>20, <1>21, <1>22, <1>23, <1>24,
     <1>25, <1>26, <1>27, <1>28, <1>29, <1>30, <1>31, <1>32, <1>33, <1>34, <1>35, <1>36
  DEF Next, Begin, Step, Environment

(* THEOREM: a client is told of a success, and the attempt's row says so,  *)
(* only of an object that is stored and recorded: unless files of it were  *)
(* deleted, its row names a live file and calls it verified.               *)
THEOREM SuccessesDurable == Spec => []AcknowledgedIsDurable
<1>1. Init => MappingInv /\ SuccessInv
  BY DEF Init, MappingInv, MemoryInv, MappingTruthful, SuccessInv, Clients
<1>2. ASSUME TypeInv, MappingInv, SuccessInv PROVE AcknowledgedIsDurable
  <2> SUFFICES ASSUME NEW u \in Uploads, row[u] = "succeeded"
               PROVE  /\ meta[ObjectOf[u]] # NoRow
                      /\ got[u] \in Known(ObjectOf[u])
                      /\ deleted[ObjectOf[u]] = {} =>
                           /\ meta[ObjectOf[u]].status = "verified"
                           /\ meta[ObjectOf[u]].id \in files[ObjectOf[u]]
    BY <1>2 DEF AcknowledgedIsDurable, SuccessInv, Known
  <2>1. meta[ObjectOf[u]] # NoRow /\ got[u] \in Known(ObjectOf[u])
    BY <1>2 DEF SuccessInv, MappingInv, MemoryInv, Clients
  <2>2. ObjectOf[u] \in Objects /\ meta[ObjectOf[u]] \in ObjectRow
    BY <1>2, <2>1, PlaceAssumption DEF TypeInv, TypeOK, Clients
  <2> QED
    BY <1>2, <2>1, <2>2 DEF MappingInv, MappingTruthful, ObjectRow
<1> QED
  BY <1>1, <1>2, TypeInit, TypeStep, MappingStep, SuccessStep, PTL DEF Spec

----------------------------------------------------------------------------
(* A lock is held at its own place only, so its holder gives it back.      *)
PlaceInv ==
  /\ \A p \in Processes, o \in Objects : procLock[p][o] # Nobody =>
       ProcessOf[procLock[p][o]] = p /\ ObjectOf[procLock[p][o]] = o
  /\ \A s \in Stripes : stripeLock[s] # Nobody => Stripe(stripeLock[s]) = s

LeakInv == PlaceInv /\ NothingLeaks

(* What a step has to say of the locks and permits, one by one.            *)
LEMMA LeakHolds ==
  ASSUME permits' = {c \in Clients : pc'[c] \in CallPhases},
         \A p \in Processes, o \in Objects : procLock'[p][o] # Nobody =>
           /\ pc'[procLock'[p][o]] \in ActivePhases \ {"waitProc", "open", "stream"}
           /\ ProcessOf[procLock'[p][o]] = p /\ ObjectOf[procLock'[p][o]] = o,
         \A s \in Stripes : stripeLock'[s] # Nobody =>
           /\ pc'[stripeLock'[s]] \in ActivePhases \ {"waitProc", "askStripe",
                                             "waitStripe", "open", "stream"}
           /\ Stripe(stripeLock'[s]) = s
  PROVE  LeakInv'
<1>1. PlaceInv'
  BY DEF PlaceInv, Stripe
<1>2. NothingLeaks'
  BY DEF NothingLeaks
<1> QED
  BY <1>1, <1>2 DEF LeakInv

(* A handler goes on that holds no lock: nothing of the locks changes.     *)
LEMMA LeakElsewhere ==
  ASSUME TypeInv, LeakInv, NEW c \in Clients, NEW phase, Goto(c, phase),
         UNCHANGED locks, phase \notin CallPhases,
         pc[c] \notin ActivePhases \ {"waitProc", "open", "stream"},
         permits' = permits \ {c} \/ (UNCHANGED permits /\ pc[c] # "open")
  PROVE  LeakInv'
<1> USE DEF LeakInv, TypeInv, TypeOK, Clients
<1>1. pc'[c] = phase /\ \A d \in Clients \ {c} : pc'[d] = pc[d]
  BY DEF Goto
<1>2. permits' = {d \in Clients : pc'[d] \in CallPhases}
  <2>1. pc[c] # "open" => c \notin permits
    BY DEF NothingLeaks, ActivePhases, CallPhases, LookupPhases
  <2> QED
    BY <1>1, <2>1 DEF NothingLeaks
<1>3. ASSUME NEW p \in Processes, NEW o \in Objects, procLock[p][o] # Nobody
      PROVE  /\ pc'[procLock[p][o]] \in ActivePhases \ {"waitProc", "open", "stream"}
             /\ ProcessOf[procLock[p][o]] = p /\ ObjectOf[procLock[p][o]] = o
  <2>1. procLock[p][o] \in Uploads
    BY <1>3
  <2>2. pc[procLock[p][o]] \in ActivePhases \ {"waitProc", "open", "stream"}
    BY <1>3 DEF NothingLeaks
  <2>3. pc'[procLock[p][o]] = pc[procLock[p][o]]
    BY <1>1, <2>1, <2>2
  <2> QED
    BY <1>3, <2>2, <2>3 DEF PlaceInv
<1>4. ASSUME NEW s \in Stripes, stripeLock[s] # Nobody
      PROVE  /\ pc'[stripeLock[s]] \in ActivePhases \ {"waitProc", "askStripe",
                                              "waitStripe", "open", "stream"}
             /\ Stripe(stripeLock[s]) = s
  <2>1. stripeLock[s] \in Uploads
    BY <1>4
  <2>2. pc[stripeLock[s]] \in ActivePhases \ {"waitProc", "askStripe", "waitStripe",
                                              "open", "stream"}
    BY <1>4 DEF NothingLeaks
  <2>3. pc'[stripeLock[s]] = pc[stripeLock[s]]
    BY <1>1, <2>1, <2>2
  <2> QED
    BY <1>4, <2>2, <2>3 DEF PlaceInv
<1> QED
  BY <1>2, <1>3, <1>4, LeakHolds DEF locks

(* A handler goes on under its locks: an upload stays where it may hold    *)
(* them, and the permit goes with the phase.                               *)
LEMMA LeakKept ==
  ASSUME TypeInv, LeakInv, NEW c \in Clients, NEW phase, Goto(c, phase),
         UNCHANGED locks,
         c \in Uploads => phase \in ActivePhases \ {"waitProc", "askStripe",
                                      "waitStripe", "open", "stream"},
         permits' = IF phase \in CallPhases THEN permits \cup {c} ELSE permits \ {c}
  PROVE  LeakInv'
<1> USE DEF LeakInv, TypeInv, TypeOK, Clients
<1>1. pc'[c] = phase /\ \A d \in Clients \ {c} : pc'[d] = pc[d]
  BY DEF Goto
<1>2. permits' = {d \in Clients : pc'[d] \in CallPhases}
  BY <1>1 DEF NothingLeaks
<1>3. ASSUME NEW p \in Processes, NEW o \in Objects, procLock[p][o] # Nobody
      PROVE  pc'[procLock[p][o]] \in ActivePhases \ {"waitProc", "open", "stream"}
  <2>1. procLock[p][o] \in Uploads
    BY <1>3
  <2> QED
    BY <1>1, <1>3, <2>1 DEF NothingLeaks
<1>4. ASSUME NEW s \in Stripes, stripeLock[s] # Nobody
      PROVE  pc'[stripeLock[s]] \in ActivePhases \ {"waitProc", "askStripe",
                                      "waitStripe", "open", "stream"}
  <2>1. stripeLock[s] \in Uploads
    BY <1>4
  <2> QED
    BY <1>1, <1>4, <2>1 DEF NothingLeaks
<1> QED
  BY <1>2, <1>3, <1>4 DEF NothingLeaks, PlaceInv, Stripe, locks

(* A handler returns, or is dropped: its guards go out of scope.           *)
LEMMA LeakReleased ==
  ASSUME TypeInv, LeakInv, NEW c \in Clients, NEW phase, Goto(c, phase),
         phase \notin CallPhases, ReleaseLocks(c), permits' = permits \ {c}
  PROVE  LeakInv'
<1> USE PlaceAssumption, NullAssumption DEF LeakInv, TypeInv, TypeOK, Clients
<1>1. pc'[c] = phase /\ \A d \in Clients \ {c} : pc'[d] = pc[d]
  BY DEF Goto
<1>2. permits' = {d \in Clients : pc'[d] \in CallPhases}
  BY <1>1 DEF NothingLeaks
<1>3. ASSUME NEW p \in Processes, NEW o \in Objects
      PROVE  procLock'[p][o] = IF procLock[p][o] = c THEN Nobody ELSE procLock[p][o]
  <2>1. CASE p = ProcessOf[c] /\ o = ObjectOf[c]
    BY <2>1 DEF ReleaseLocks
  <2>2. CASE ~(p = ProcessOf[c] /\ o = ObjectOf[c])
    <3>1. procLock[p][o] # c
      BY <2>2 DEF PlaceInv
    <3>2. procLock'[p][o] = procLock[p][o]
      BY <2>2 DEF ReleaseLocks
    <3> QED
      BY <3>1, <3>2
  <2> QED
    BY <2>1, <2>2
<1>4. ASSUME NEW s \in Stripes
      PROVE  stripeLock'[s] = IF stripeLock[s] = c THEN Nobody ELSE stripeLock[s]
  BY DEF ReleaseLocks, PlaceInv, Stripe
<1>5. PlaceInv'
  BY <1>3, <1>4 DEF PlaceInv, Stripe
<1>6. \A p \in Processes, o \in Objects : procLock'[p][o] # Nobody =>
        pc'[procLock'[p][o]] \in ActivePhases \ {"waitProc", "open", "stream"}
  BY <1>1, <1>3 DEF NothingLeaks
<1>7. \A s \in Stripes : stripeLock'[s] # Nobody =>
        /\ pc'[stripeLock'[s]] \in ActivePhases
        /\ pc'[stripeLock'[s]] \notin {"waitProc", "askStripe", "waitStripe",
                                       "open", "stream"}
  BY <1>1, <1>4 DEF NothingLeaks
<1> QED
  BY <1>2, <1>5, <1>6, <1>7 DEF NothingLeaks

(* Where the outcomes of a lookup lead, the permit going with them.        *)
LEMMA LookupPermits ==
  ASSUME NEW c \in Clients, permits \in SUBSET Clients, c \in permits
  PROVE  /\ Found(c) => \E phase \in {"waitRecord", "open", "ok"} :
              /\ Goto(c, phase) /\ (c \in Uploads => phase = "waitRecord")
              /\ permits' = IF phase \in CallPhases THEN permits \cup {c}
                            ELSE permits \ {c}
         /\ NotFound(c) => \E phase \in {"stage", "finishFail", "missing"} :
              /\ Goto(c, phase) /\ (c \in Uploads => phase = "stage")
              /\ permits' = permits \ {c}
<1> USE KindAssumption DEF Found, NotFound, ReleasePermit, CallPhases, LookupPhases
<1>1. c \in Uploads \/ c \in Downloads \/ c \in Batches
  BY DEF Clients
<1>2. CASE c \in Uploads
  BY <1>2
<1>3. CASE c \in Downloads
  <2>1. permits = permits \cup {c}
    OBVIOUS
  <2> QED
    BY <1>3, <2>1
<1>4. CASE c \in Batches
  BY <1>4
<1> QED
  BY <1>1, <1>2, <1>3, <1>4

LEMMA LeakStep == TypeInv /\ LeakInv /\ [Next]_vars => LeakInv'
<1> SUFFICES ASSUME TypeInv, LeakInv, [Next]_vars PROVE LeakInv'
  OBVIOUS
<1>a. \A c \in Clients : c \in permits <=> pc[c] \in CallPhases
  BY DEF LeakInv, NothingLeaks
<1>b. \A c \in Clients :
        /\ pc[c] \in UploadPhases => c \in Uploads
        /\ pc[c] \in {"open", "stream"} => c \in Downloads
  BY DEF TypeInv, HandlerInv
<1>c. permits \in SUBSET Clients
  BY DEF TypeInv, TypeOK
<1>d. ASSUME NEW c \in Clients, c \in permits, UNCHANGED locks, Found(c) \/ NotFound(c)
      PROVE  LeakInv'
  <2>1. CASE Found(c)
    <3>1. PICK phase \in {"waitRecord", "open", "ok"} :
            /\ Goto(c, phase) /\ (c \in Uploads => phase = "waitRecord")
            /\ permits' = IF phase \in CallPhases THEN permits \cup {c}
                          ELSE permits \ {c}
      BY <1>c, <1>d, <2>1, LookupPermits
    <3> QED
      BY <1>d, <3>1, LeakKept DEF ActivePhases, Queueing
  <2>2. CASE NotFound(c)
    <3>1. PICK phase \in {"stage", "finishFail", "missing"} :
            /\ Goto(c, phase) /\ (c \in Uploads => phase = "stage")
            /\ permits' = permits \ {c}
      BY <1>c, <1>d, <2>2, LookupPermits
    <3> QED
      BY <1>d, <3>1, LeakKept DEF ActivePhases, CallPhases, LookupPhases
  <2> QED
    BY <1>d, <2>1, <2>2
<1>e. ASSUME NEW c \in Clients, c \in permits, UNCHANGED locks, UNCHANGED permits,
             NEW phase \in LookupPhases \cup {"record", "create"}, Goto(c, phase)
      PROVE  LeakInv'
  <2>1. permits' = permits \cup {c}
    BY <1>e
  <2> QED
    BY <1>e, <2>1, LeakKept DEF ActivePhases, CallPhases, LookupPhases
<1>f. ASSUME NEW c \in Clients, NEW i, c \in permits, UNCHANGED locks, FoundFile(c, i)
      PROVE  LeakInv'
  BY <1>d, <1>e, <1>f DEF FoundFile, LookupPhases
<1>g. ASSUME NEW c \in Clients, UNCHANGED permits, ReleaseLocks(c), NEW phase,
             Goto(c, phase), phase \notin CallPhases, pc[c] \in Finishing
      PROVE  LeakInv'
  <2>1. permits' = permits \ {c}
    BY <1>a, <1>c, <1>g DEF Finishing, CallPhases, LookupPhases
  <2> QED
    BY <1>g, <2>1, LeakReleased
<1>1. ASSUME NEW c \in Clients, Start(c) PROVE LeakInv'
  BY <1>1, LeakElsewhere
  DEF Start, ActivePhases, CallPhases, LookupPhases, Queueing, Finishing
<1>2. ASSUME NEW c \in Clients, StartFails(c) PROVE LeakInv'
  BY <1>2, LeakElsewhere
  DEF StartFails, ActivePhases, CallPhases, LookupPhases, Queueing, Finishing
<1>3. ASSUME NEW c \in Clients, StartBatch(c) PROVE LeakInv'
  BY <1>3, LeakElsewhere
  DEF StartBatch, ActivePhases, CallPhases, LookupPhases, Queueing, Finishing
<1>4. ASSUME NEW c \in Clients, LockInProcess(c) PROVE LeakInv'
  <2> USE PlaceAssumption, NullAssumption DEF TypeInv, TypeOK, Clients
  <2>1. /\ pc[c] = "waitProc" /\ pc' = [pc EXCEPT ![c] = "askStripe"]
        /\ procLock' = [procLock EXCEPT ![ProcessOf[c]][ObjectOf[c]] = c]
        /\ UNCHANGED <<stripeLock, permits>>
    BY <1>4 DEF LockInProcess, Goto, locks
  <2>2. \A p \in Processes, o \in Objects :
          procLock'[p][o] = IF p = ProcessOf[c] /\ o = ObjectOf[c] THEN c
                            ELSE procLock[p][o]
    BY <2>1
  <2>3. pc'[c] = "askStripe" /\ \A d \in Clients \ {c} : pc'[d] = pc[d]
    BY <2>1
  <2>4. permits' = {d \in Clients : pc'[d] \in CallPhases}
    BY <2>1, <2>3 DEF LeakInv, NothingLeaks, CallPhases, LookupPhases
  <2>5. \A p \in Processes, o \in Objects : procLock'[p][o] # Nobody =>
          /\ pc'[procLock'[p][o]] \in ActivePhases \ {"waitProc", "open", "stream"}
          /\ ProcessOf[procLock'[p][o]] = p /\ ObjectOf[procLock'[p][o]] = o
    BY <2>1, <2>2, <2>3 DEF LeakInv, PlaceInv, NothingLeaks, ActivePhases, Queueing
  <2>6. ASSUME NEW s \in Stripes, stripeLock[s] # Nobody
        PROVE  /\ pc'[stripeLock[s]] \in ActivePhases \ {"waitProc", "askStripe",
                                                "waitStripe", "open", "stream"}
               /\ Stripe(stripeLock[s]) = s
    <3>1. stripeLock[s] \in Clients \ {c}
      BY <2>1, <2>6 DEF LeakInv, NothingLeaks
    <3>2. pc'[stripeLock[s]] = pc[stripeLock[s]]
      BY <2>3, <3>1
    <3> QED
      BY <2>6, <3>2 DEF LeakInv, PlaceInv, NothingLeaks
  <2> QED
    BY <2>1, <2>4, <2>5, <2>6, LeakHolds
<1>5. ASSUME NEW c \in Clients, WaitDurable(c) PROVE LeakInv'
  BY <1>5, PlaceAssumption, NullAssumption, KindAssumption
  DEF LeakInv, PlaceInv, NothingLeaks, TypeInv, TypeOK, HandlerInv, UploadPhases,
      CallPhases, LookupPhases, ActivePhases, Queueing, Finishing, Clients, Goto,
      Stripe, locks, store, WaitDurable
<1>6. ASSUME NEW c \in Clients, LockDurable(c) PROVE LeakInv'
  <2> USE PlaceAssumption, NullAssumption DEF TypeInv, TypeOK, Clients
  <2>1. /\ pc[c] = "waitStripe" /\ pc' = [pc EXCEPT ![c] = "waitLookup"]
        /\ stripeLock' = [stripeLock EXCEPT ![Stripe(c)] = c]
        /\ UNCHANGED <<procLock, permits>>
    BY <1>6 DEF LockDurable, Goto
  <2>2. \A s \in Stripes : stripeLock'[s] = IF s = Stripe(c) THEN c ELSE stripeLock[s]
    BY <2>1
  <2>3. pc'[c] = "waitLookup" /\ \A d \in Clients \ {c} : pc'[d] = pc[d]
    BY <2>1
  <2>4. permits' = {d \in Clients : pc'[d] \in CallPhases}
    BY <2>1, <2>3 DEF LeakInv, NothingLeaks, CallPhases, LookupPhases
  <2>5. \A s \in Stripes : stripeLock'[s] # Nobody =>
          /\ pc'[stripeLock'[s]] \in ActivePhases \ {"waitProc", "askStripe",
                                           "waitStripe", "open", "stream"}
          /\ Stripe(stripeLock'[s]) = s
    BY <2>1, <2>2, <2>3 DEF LeakInv, PlaceInv, NothingLeaks, ActivePhases, Queueing
  <2>6. ASSUME NEW p \in Processes, NEW o \in Objects, procLock[p][o] # Nobody
        PROVE  /\ pc'[procLock[p][o]] \in ActivePhases \ {"waitProc", "open", "stream"}
               /\ ProcessOf[procLock[p][o]] = p /\ ObjectOf[procLock[p][o]] = o
    <3>1. procLock[p][o] \in Uploads
      BY <2>6
    <3>2. /\ pc[procLock[p][o]] \in ActivePhases \ {"waitProc", "open", "stream"}
          /\ ProcessOf[procLock[p][o]] = p /\ ObjectOf[procLock[p][o]] = o
      BY <2>6 DEF LeakInv, PlaceInv, NothingLeaks
    <3>3. pc'[procLock[p][o]] \in {pc[procLock[p][o]], "waitLookup"}
      BY <2>3, <3>1
    <3> QED
      BY <3>2, <3>3 DEF ActivePhases, Queueing
  <2> QED
    BY <2>1, <2>4, <2>5, <2>6, LeakHolds
<1>7. ASSUME NEW c \in Clients, LockDurableFails(c) PROVE LeakInv'
  BY <1>7, PlaceAssumption, NullAssumption, KindAssumption
  DEF LeakInv, PlaceInv, NothingLeaks, TypeInv, TypeOK, HandlerInv, UploadPhases,
      CallPhases, LookupPhases, ActivePhases, Queueing, Finishing, Clients, Goto,
      Stripe, locks, store, LockDurableFails
<1>8. ASSUME NEW c \in Clients, OrphanLock(c) PROVE LeakInv'
  BY <1>8, PlaceAssumption, NullAssumption, KindAssumption
  DEF LeakInv, PlaceInv, NothingLeaks, TypeInv, TypeOK, HandlerInv, UploadPhases,
      CallPhases, LookupPhases, ActivePhases, Queueing, Finishing, Clients, Goto,
      Stripe, locks, store, OrphanLock
<1>9. ASSUME NEW c \in Clients, BeginLookup(c) PROVE LeakInv'
  BY <1>a, <1>b, <1>c, <1>9, LeakKept, KindAssumption
  DEF BeginLookup, AcquirePermit, ActivePhases, CallPhases, LookupPhases, Queueing,
      Finishing, UploadPhases, Clients, store
<1>10. ASSUME NEW c \in Clients, ReadMeta(c) PROVE LeakInv'
  BY <1>a, <1>e, <1>10 DEF ReadMeta, CallPhases, LookupPhases
<1>11. ASSUME NEW c \in Clients, LookupById(c) PROVE LeakInv'
  BY <1>a, <1>e, <1>f, <1>11 DEF LookupById, CallPhases, LookupPhases
<1>12. ASSUME NEW c \in Clients, SearchFinds(c) PROVE LeakInv'
  BY <1>a, <1>f, <1>12 DEF SearchFinds, CallPhases, LookupPhases
<1>13. ASSUME NEW c \in Clients, SearchFindsNothing(c) PROVE LeakInv'
  BY <1>a, <1>d, <1>e, <1>13 DEF SearchFindsNothing, CallPhases, LookupPhases
<1>14. ASSUME NEW c \in Clients, Repair(c) PROVE LeakInv'
  BY <1>a, <1>d, <1>14 DEF Repair, CallPhases, LookupPhases
<1>15. ASSUME NEW c \in Clients, StaleRepair(c) PROVE LeakInv'
  BY <1>a, <1>d, <1>15 DEF StaleRepair, CallPhases, LookupPhases
<1>16. ASSUME NEW c \in Clients, CallFails(c) PROVE LeakInv'
  BY <1>a, <1>b, <1>c, <1>16, LeakKept, KindAssumption
  DEF CallFails, ReleasePermit, ActivePhases, CallPhases, LookupPhases, Queueing,
      Finishing, UploadPhases, Clients, store
<1>17. ASSUME NEW c \in Clients, BeginRecord(c) PROVE LeakInv'
  BY <1>a, <1>b, <1>c, <1>17, LeakKept, KindAssumption
  DEF BeginRecord, AcquirePermit, ActivePhases, CallPhases, LookupPhases, Queueing,
      Finishing, UploadPhases, Clients, store
<1>18. ASSUME NEW c \in Clients, Record(c) PROVE LeakInv'
  BY <1>a, <1>b, <1>c, <1>18, LeakKept, KindAssumption
  DEF Record, ReleasePermit, ActivePhases, CallPhases, LookupPhases, Queueing,
      Finishing, UploadPhases, Clients, store
<1>19. ASSUME NEW c \in Clients, Stage(c) PROVE LeakInv'
  BY <1>a, <1>b, <1>c, <1>19, LeakKept, KindAssumption
  DEF Stage, ActivePhases, CallPhases, LookupPhases, Queueing,
      Finishing, UploadPhases, Clients, store
<1>20. ASSUME NEW c \in Clients, StageFails(c) PROVE LeakInv'
  BY <1>a, <1>b, <1>c, <1>20, LeakKept, KindAssumption
  DEF StageFails, ActivePhases, CallPhases, LookupPhases, Queueing,
      Finishing, UploadPhases, Clients, store
<1>21. ASSUME NEW c \in Clients, BeginUpload(c) PROVE LeakInv'
  BY <1>a, <1>b, <1>c, <1>21, LeakKept, KindAssumption
  DEF BeginUpload, AcquirePermit, ActivePhases, CallPhases, LookupPhases, Queueing,
      Finishing, UploadPhases, Clients, store
<1>22. ASSUME NEW c \in Clients, SearchAgain(c) PROVE LeakInv'
  BY <1>a, <1>e, <1>22 DEF SearchAgain, CallPhases, LookupPhases
<1>23. ASSUME NEW c \in Clients, Create(c) PROVE LeakInv'
  BY <1>a, <1>e, <1>23 DEF Create, CallPhases, LookupPhases
<1>24. ASSUME NEW c \in Clients, OpenDownload(c) PROVE LeakInv'
  BY <1>24, LeakElsewhere
  DEF OpenDownload, ReleasePermit, ActivePhases, CallPhases, LookupPhases, Queueing, Finishing
<1>25. ASSUME NEW c \in Clients, FinishSucceeded(c) PROVE LeakInv'
  BY <1>g, <1>25 DEF FinishSucceeded, Finishing, CallPhases, LookupPhases
<1>26. ASSUME NEW c \in Clients, FinishFailed(c) PROVE LeakInv'
  BY <1>g, <1>26 DEF FinishFailed, Finishing, CallPhases, LookupPhases
<1>27. ASSUME NEW c \in Clients, FinishBreaks(c) PROVE LeakInv'
  BY <1>g, <1>27 DEF FinishBreaks, Finishing, CallPhases, LookupPhases
<1>28. ASSUME NEW c \in Clients, OrphanRecord(c) PROVE LeakInv'
  BY <1>28, LeakElsewhere
  DEF OrphanRecord, ActivePhases, CallPhases, LookupPhases, Queueing, Finishing
<1>29. ASSUME NEW c \in Clients, OrphanStale(c) PROVE LeakInv'
  BY <1>29, LeakElsewhere
  DEF OrphanStale, ActivePhases, CallPhases, LookupPhases, Queueing, Finishing
<1>30. ASSUME NEW c \in Clients, OrphanFinish(c) PROVE LeakInv'
  BY <1>30, LeakElsewhere
  DEF OrphanFinish, ActivePhases, CallPhases, LookupPhases, Queueing, Finishing
<1>31. ASSUME NEW c \in Clients, Disconnect(c) PROVE LeakInv'
  <2>1. Abandoned(c) \notin CallPhases
    BY DEF Abandoned, CallPhases, LookupPhases
  <2> QED
    BY <1>31, <2>1, LeakReleased DEF Disconnect, ReleasePermit
<1>32. ASSUME NEW c \in Clients, LateCreate(c) PROVE LeakInv'
  <2>1. UNCHANGED <<pc, procLock, stripeLock, permits>>
    BY <1>32 DEF LateCreate, locks
  <2> QED
    BY <2>1 DEF LeakInv, PlaceInv, NothingLeaks, Stripe
<1>33. ASSUME NEW c \in Clients, Stream(c) PROVE LeakInv'
  BY <1>33, LeakElsewhere
  DEF Stream, ActivePhases, CallPhases, LookupPhases, Queueing, Finishing
<1>34. ASSUME NEW p \in Processes, Crash(p) PROVE LeakInv'
  <2> USE DEF LeakInv, TypeInv, TypeOK, Clients
  <2>1. \A c \in Clients : IF c \in Dying(p) THEN pc'[c] \in {"cut", "gone"}
                                             ELSE pc'[c] = pc[c]
    BY <1>34 DEF Crash
  <2>2. \A c \in Clients : c \notin Dying(p) /\ pc[c] \in ActivePhases =>
          ProcessOf[c] # p
    BY DEF Dying
  <2>3. permits' = {c \in Clients : pc'[c] \in CallPhases}
    BY <1>34, <2>1 DEF Crash, NothingLeaks, CallPhases, LookupPhases
  <2>4. ASSUME NEW q \in Processes, NEW o \in Objects, procLock'[q][o] # Nobody
        PROVE  /\ procLock'[q][o] = procLock[q][o]
               /\ pc'[procLock[q][o]] \in ActivePhases \ {"waitProc", "open", "stream"}
    <3>1. q # p /\ procLock'[q][o] = procLock[q][o]
      BY <1>34, <2>4 DEF Crash
    <3>2. procLock[q][o] \in Clients /\ procLock[q][o] \notin Dying(p)
      BY <2>4, <3>1 DEF PlaceInv, Dying
    <3> QED
      BY <2>1, <2>4, <3>1, <3>2 DEF NothingLeaks
  <2>5. ASSUME NEW s \in Stripes, stripeLock'[s] # Nobody
        PROVE  /\ stripeLock'[s] = stripeLock[s]
               /\ pc'[stripeLock[s]] \in ActivePhases \ {"waitProc", "askStripe",
                                           "waitStripe", "open", "stream"}
    <3>1. stripeLock'[s] = stripeLock[s] /\ stripeLock[s] \notin Dying(p)
      BY <1>34, <2>5 DEF Crash
    <3>2. stripeLock[s] \in Clients
      BY <2>5, <3>1
    <3> QED
      BY <2>1, <2>5, <3>1, <3>2 DEF NothingLeaks
  <2> QED
    BY <2>3, <2>4, <2>5 DEF NothingLeaks, PlaceInv, Stripe
<1>35. ASSUME NEW o \in Objects, NEW i \in FileId, ExternalDelete(o, i)
       PROVE  LeakInv'
  BY <1>35 DEF ExternalDelete, LeakInv, PlaceInv, NothingLeaks, Stripe, locks
<1>36. CASE UNCHANGED vars
  BY <1>36 DEF vars, LeakInv, PlaceInv, NothingLeaks, Stripe
<1> QED
  BY <1>1, <1>2, <1>3, <1>4, <1>5, <1>6, <1>7, <1>8, <1>9, <1>10, <1>11, <1>12,
     <1>13, <1>14, <1>15, <1>16, <1>17, <1>18, <1>19, <1>20, <1>21, <1>22, <1>23, <1>24,
     <1>25, <1>26, <1>27, <1>28, <1>29, <1>30, <1>31, <1>32, <1>33, <1>34, <1>35, <1>36
  DEF Next, Begin, Step, Environment

(* THEOREM: whatever path a request takes out of its handler, it leaves no *)
(* permit and no lock behind, and none waits for a lock with a permit.     *)
THEOREM NothingLeft == Spec => []NothingLeaks
<1>1. Init => LeakInv
  BY DEF Init, LeakInv, PlaceInv, NothingLeaks, CallPhases, LookupPhases, Clients
<1>2. LeakInv => NothingLeaks
  BY DEF LeakInv
<1> QED
  BY <1>1, <1>2, TypeInit, TypeStep, LeakStep, PTL DEF Spec

----------------------------------------------------------------------------
(* UploadTransfer implements ObjectService, for every set of requests,     *)
(* processes and objects: its initial states are initial states of the     *)
(* service and each of its steps is a step of the service or leaves what   *)
(* the service promises alone.                                             *)

(* What the service has answered to a request in a phase of its handler.   *)
ReplyOf(phase) ==
  CASE phase \in {"ok", "stream", "cut"} -> "ok"
    [] phase = "missing" -> "missing"
    [] phase = "failed" -> "failed"
    [] phase \in OrphanPhases \cup {"gone"} -> "gone"
    [] OTHER -> "pending"

Replies == [c \in Clients |-> Reply(c)]

Served == Service!Next \/ UNCHANGED Service!vars

LEMMA RepliesByPhase == Replies = [c \in Clients |-> ReplyOf(pc[c])]
  BY DEF Replies, Reply, ReplyOf

LEMMA RepliesByPhaseNext == Replies' = [c \in Clients |-> ReplyOf(pc'[c])]
  BY DEF Replies, Reply, ReplyOf

(* One handler moves, one reply moves.                                     *)
LEMMA ReplyMoves ==
  ASSUME TypeInv, NEW c \in Clients, NEW phase, Goto(c, phase)
  PROVE  Replies' = [Replies EXCEPT ![c] = ReplyOf(phase)]
  BY RepliesByPhase, RepliesByPhaseNext DEF Goto, TypeInv, TypeOK

(* A handler works on without an answer, or after it.                      *)
LEMMA Silent ==
  ASSUME TypeInv, NEW c \in Clients, NEW phase, Goto(c, phase),
         ReplyOf(phase) = ReplyOf(pc[c]), UNCHANGED <<files, got>>
  PROVE  Served
<1>1. Replies' = [Replies EXCEPT ![c] = ReplyOf(pc[c])]
  BY ReplyMoves
<1>2. Replies' = Replies
  BY <1>1, RepliesByPhase
<1> QED
  BY <1>2 DEF Served, Service!vars, Replies

(* A lookup finds a file: the service witnesses it, with its reply or not. *)
LEMMA Witnessed ==
  ASSUME TypeInv, NEW c \in Clients, NEW i \in files[ObjectOf[c]], NEW phase,
         pc[c] \in SeekingPhases, Goto(c, phase),
         ReplyOf(phase) \in {"pending", "ok"},
         got' = [got EXCEPT ![c] = i], UNCHANGED files
  PROVE  Served
<1>1. Replies' = [Replies EXCEPT ![c] = ReplyOf(phase)]
  BY ReplyMoves
<1>2. Replies[c] = "pending" /\ got[c] = NoId
  BY RepliesByPhase DEF TypeInv, HandlerInv, SeekingPhases, ReplyOf, OrphanPhases
<1>3. Replies' \in {Replies, [Replies EXCEPT ![c] = "ok"]}
  BY <1>1, <1>2, RepliesByPhase
<1>4. i \in FileId
  BY PlaceAssumption DEF TypeInv, TypeOK
<1>5. Service!Witness(c, i)
  BY <1>2, <1>3 DEF Service!Witness, Replies
<1> QED
  BY <1>4, <1>5 DEF Served, Service!Next

(* A lookup that found a file leads on or answers.                         *)
LEMMA LookupWitnesses ==
  ASSUME TypeInv, NEW c \in Clients, NEW i \in files[ObjectOf[c]],
         pc[c] \in SeekingPhases, FoundFile(c, i), UNCHANGED files
  PROVE  Served
<1>1. CASE NeedsRepair(c, i)
  BY <1>1, Witnessed DEF FoundFile, ReplyOf, OrphanPhases
<1>2. CASE ~ NeedsRepair(c, i)
  <2>1. Found(c) /\ got' = [got EXCEPT ![c] = i]
    BY <1>2 DEF FoundFile
  <2>2. PICK phase \in {"waitRecord", "open", "ok"} : Goto(c, phase)
    BY <2>1, LookupLeads
  <2> QED
    BY <2>1, <2>2, Witnessed DEF ReplyOf, OrphanPhases
<1> QED
  BY <1>1, <1>2

(* The outcomes of a request that holds no file, and of one that does.     *)
LEMMA Answered ==
  ASSUME TypeInv, NEW c \in Clients, NEW phase, Goto(c, phase),
         ReplyOf(pc[c]) = "pending", UNCHANGED <<files, got>>,
         \/ ReplyOf(phase) = "ok" /\ pc[c] \in HoldingPhases
         \/ ReplyOf(phase) = "missing" /\ pc[c] \in SeekingPhases
         \/ ReplyOf(phase) = "failed"
  PROVE  Served
<1>1. Replies' = [Replies EXCEPT ![c] = ReplyOf(phase)] /\ Replies[c] = "pending"
  BY ReplyMoves, RepliesByPhase
<1>2. CASE ReplyOf(phase) = "ok" /\ pc[c] \in HoldingPhases
  <2>1. got[c] # NoId
    BY <1>2, NullAssumption DEF TypeInv, HandlerInv
  <2>2. Service!Acknowledge(c)
    BY <1>1, <1>2, <2>1 DEF Service!Acknowledge, Replies
  <2> QED
    BY <2>2 DEF Served, Service!Next
<1>3. CASE ReplyOf(phase) = "missing" /\ pc[c] \in SeekingPhases
  <2>1. got[c] = NoId
    BY <1>3 DEF TypeInv, HandlerInv
  <2>2. Service!ReportMissing(c)
    BY <1>1, <1>3, <2>1 DEF Service!ReportMissing, Replies
  <2> QED
    BY <2>2 DEF Served, Service!Next
<1>4. CASE ReplyOf(phase) = "failed"
  <2>1. Service!Fail(c)
    BY <1>1, <1>4 DEF Service!Fail, Replies
  <2> QED
    BY <2>1 DEF Served, Service!Next
<1> QED
  BY <1>2, <1>3, <1>4

(* A lookup that found nothing stages, fails or answers "missing".         *)
LEMMA NothingFound ==
  ASSUME TypeInv, NEW c \in Clients, pc[c] \in SeekingPhases, NotFound(c),
         UNCHANGED <<files, got>>
  PROVE  Served
<1>1. PICK phase \in {"stage", "finishFail", "missing"} : Goto(c, phase)
  BY LookupLeads
<1>2. ReplyOf(pc[c]) = "pending"
  BY DEF SeekingPhases, ReplyOf, OrphanPhases
<1> QED
  BY <1>1, <1>2, Silent, Answered DEF ReplyOf, OrphanPhases

(* Some of the waiting requests are dropped.                               *)
LEMMA Dropped ==
  ASSUME UNCHANGED <<files, got>>, NEW S \in SUBSET Clients,
         \A c \in S : Replies[c] = "pending",
         Replies' = [c \in Clients |-> IF c \in S THEN "gone" ELSE Replies[c]]
  PROVE  Served
<1>1. Service!Leave
  BY DEF Service!Leave, Replies
<1> QED
  BY <1>1 DEF Served, Service!Next

LEMMA ServiceStep == TypeInv /\ [Next]_vars => Served
<1> SUFFICES ASSUME TypeInv, [Next]_vars PROVE Served
  OBVIOUS
<1> USE DEF ReplyOf, OrphanPhases, store
<1>1. ASSUME NEW c \in Clients, Start(c) PROVE Served
  BY <1>1, Silent DEF Start
<1>2. ASSUME NEW c \in Clients, StartFails(c) PROVE Served
  BY <1>2, Answered DEF StartFails
<1>3. ASSUME NEW c \in Clients, StartBatch(c) PROVE Served
  BY <1>3, Silent DEF StartBatch
<1>4. ASSUME NEW c \in Clients, LockInProcess(c) PROVE Served
  BY <1>4, Silent DEF LockInProcess
<1>5. ASSUME NEW c \in Clients, WaitDurable(c) PROVE Served
  BY <1>5, Silent DEF WaitDurable
<1>6. ASSUME NEW c \in Clients, LockDurable(c) PROVE Served
  BY <1>6, Silent DEF LockDurable
<1>7. ASSUME NEW c \in Clients, LockDurableFails(c) PROVE Served
  BY <1>7, Silent DEF LockDurableFails
<1>8. ASSUME NEW c \in Clients, OrphanLock(c) PROVE Served
  BY <1>8, Silent DEF OrphanLock
<1>9. ASSUME NEW c \in Clients, BeginLookup(c) PROVE Served
  BY <1>9, Silent DEF BeginLookup
<1>10. ASSUME NEW c \in Clients, ReadMeta(c) PROVE Served
  BY <1>10, Silent DEF ReadMeta
<1>11. ASSUME NEW c \in Clients, LookupById(c) PROVE Served
  <2>1. CASE seen[c].id \in files[ObjectOf[c]]
    BY <1>11, <2>1, LookupWitnesses DEF LookupById, SeekingPhases
  <2>2. CASE seen[c].id \notin files[ObjectOf[c]]
    BY <1>11, <2>2, Silent DEF LookupById
  <2> QED
    BY <2>1, <2>2
<1>12. ASSUME NEW c \in Clients, SearchFinds(c) PROVE Served
  <2>1. Smallest(files[ObjectOf[c]]) \in files[ObjectOf[c]]
    BY <1>12, SmallestIsMember, PlaceAssumption DEF SearchFinds, TypeInv, TypeOK
  <2> QED
    BY <1>12, <2>1, LookupWitnesses DEF SearchFinds, SeekingPhases
<1>13. ASSUME NEW c \in Clients, SearchFindsNothing(c) PROVE Served
  <2>1. CASE seen[c] = NoRow
    BY <1>13, <2>1, NothingFound DEF SearchFindsNothing, SeekingPhases
  <2>2. CASE seen[c] # NoRow
    BY <1>13, <2>2, Silent DEF SearchFindsNothing
  <2> QED
    BY <2>1, <2>2
<1>14. ASSUME NEW c \in Clients, Repair(c) PROVE Served
  <2>1. PICK phase \in {"waitRecord", "open", "ok"} : Goto(c, phase)
    BY <1>14, LookupLeads DEF Repair
  <2> QED
    BY <1>14, <2>1, Silent, Answered DEF Repair, HoldingPhases
<1>15. ASSUME NEW c \in Clients, StaleRepair(c) PROVE Served
  BY <1>15, NothingFound DEF StaleRepair, SeekingPhases
<1>16. ASSUME NEW c \in Clients, CallFails(c) PROVE Served
  BY <1>16, Silent, Answered DEF CallFails, CallPhases, LookupPhases
<1>17. ASSUME NEW c \in Clients, BeginRecord(c) PROVE Served
  BY <1>17, Silent DEF BeginRecord
<1>18. ASSUME NEW c \in Clients, Record(c) PROVE Served
  BY <1>18, Silent DEF Record
<1>19. ASSUME NEW c \in Clients, Stage(c) PROVE Served
  BY <1>19, Silent DEF Stage
<1>20. ASSUME NEW c \in Clients, StageFails(c) PROVE Served
  BY <1>20, Silent DEF StageFails
<1>21. ASSUME NEW c \in Clients, BeginUpload(c) PROVE Served
  BY <1>21, Silent DEF BeginUpload
<1>22. ASSUME NEW c \in Clients, SearchAgain(c) PROVE Served
  <2>1. CASE files[ObjectOf[c]] # {}
    <3>1. Smallest(files[ObjectOf[c]]) \in files[ObjectOf[c]]
      BY <2>1, SmallestIsMember, PlaceAssumption DEF TypeInv, TypeOK
    <3> QED
      BY <1>22, <2>1, <3>1, Witnessed DEF SearchAgain, SeekingPhases
  <2>2. CASE files[ObjectOf[c]] = {}
    BY <1>22, <2>2, Silent DEF SearchAgain
  <2> QED
    BY <2>1, <2>2
<1>23. ASSUME NEW c \in Clients, Create(c) PROVE Served
  <2>1. PICK i \in FileId \ UsedIds :
          /\ files' = [files EXCEPT ![ObjectOf[c]] = @ \cup {i}]
          /\ got' = [got EXCEPT ![c] = i]
    BY <1>23, PlaceAssumption DEF Create
  <2>2. \A o \in Objects : i \notin files[o]
    BY <2>1 DEF UsedIds
  <2>3. Replies' = Replies
    BY <1>23, ReplyMoves, RepliesByPhase DEF Create
  <2>4. Replies[c] = "pending" /\ got[c] = NoId
    BY <1>23, RepliesByPhase DEF Create, TypeInv, HandlerInv, SeekingPhases
  <2>5. Service!Store(c, i)
    BY <2>1, <2>2, <2>3, <2>4 DEF Service!Store, Replies
  <2> QED
    BY <2>1, <2>5 DEF Served, Service!Next
<1>24. ASSUME NEW c \in Clients, OpenDownload(c) PROVE Served
  BY <1>24, Silent DEF OpenDownload
<1>25. ASSUME NEW c \in Clients, FinishSucceeded(c) PROVE Served
  <2>1. pc[c] \in HoldingPhases
    BY <1>25 DEF FinishSucceeded, HoldingPhases
  <2> QED
    BY <1>25, <2>1, Answered DEF FinishSucceeded
<1>26. ASSUME NEW c \in Clients, FinishFailed(c) PROVE Served
  BY <1>26, Answered DEF FinishFailed
<1>27. ASSUME NEW c \in Clients, FinishBreaks(c) PROVE Served
  BY <1>27, Answered DEF FinishBreaks, Finishing
<1>28. ASSUME NEW c \in Clients, OrphanRecord(c) PROVE Served
  BY <1>28, Silent DEF OrphanRecord
<1>29. ASSUME NEW c \in Clients, OrphanStale(c) PROVE Served
  BY <1>29, Silent DEF OrphanStale
<1>30. ASSUME NEW c \in Clients, OrphanFinish(c) PROVE Served
  BY <1>30, Silent DEF OrphanFinish
<1>31. ASSUME NEW c \in Clients, Disconnect(c) PROVE Served
  <2>1. Goto(c, Abandoned(c)) /\ UNCHANGED <<files, got>>
    BY <1>31 DEF Disconnect
  <2>2. CASE pc[c] = "stream"
    BY <2>1, <2>2, Silent DEF Abandoned
  <2>3. CASE pc[c] # "stream"
    <3>1. ReplyOf(Abandoned(c)) = "gone"
      BY <2>3 DEF Abandoned
    <3>2. Replies[c] = "pending"
      BY <1>31, <2>3, RepliesByPhase
      DEF Disconnect, ActivePhases, CallPhases, LookupPhases, Queueing, Finishing
    <3>3. Replies' = [d \in Clients |-> IF d \in {c} THEN "gone" ELSE Replies[d]]
      BY <2>1, <3>1, ReplyMoves, RepliesByPhase
    <3>4. {c} \in SUBSET Clients /\ \A d \in {c} : Replies[d] = "pending"
      BY <3>2
    <3> QED
      BY <2>1, <3>3, <3>4, Dropped
  <2> QED
    BY <2>2, <2>3
<1>32. ASSUME NEW c \in Clients, LateCreate(c) PROVE Served
  <2>1. PICK i \in FileId \ UsedIds :
          /\ files' = [files EXCEPT ![ObjectOf[c]] = @ \cup {i}]
          /\ got' = got
    BY <1>32, PlaceAssumption DEF LateCreate
  <2>2. \A o \in Objects : i \notin files[o]
    BY <2>1 DEF UsedIds
  <2>3. Replies' = Replies
    BY <1>32, RepliesByPhase, RepliesByPhaseNext DEF LateCreate
  <2>4. Service!Store(c, i)
    BY <2>1, <2>2, <2>3 DEF Service!Store, Replies
  <2> QED
    BY <2>1, <2>4 DEF Served, Service!Next
<1>33. ASSUME NEW c \in Clients, Stream(c) PROVE Served
  BY <1>33, Silent DEF Stream
<1>34. ASSUME NEW p \in Processes, Crash(p) PROVE Served
  <2> DEFINE S == {c \in Dying(p) : Replies[c] = "pending"}
  <2>1. \A c \in Clients : Replies'[c] = IF c \in S THEN "gone" ELSE Replies[c]
    <3> SUFFICES ASSUME NEW c \in Clients
                 PROVE  Replies'[c] = IF c \in S THEN "gone" ELSE Replies[c]
      OBVIOUS
    <3>1. Replies[c] = ReplyOf(pc[c]) /\ Replies'[c] = ReplyOf(pc'[c])
      BY RepliesByPhase, RepliesByPhaseNext
    <3>2. CASE c \notin Dying(p)
      <4>1. pc'[c] = pc[c]
        BY <1>34, <3>2 DEF Crash
      <4> QED
        BY <3>1, <3>2, <4>1
    <3>3. CASE c \in Dying(p)
      <4>1. pc'[c] = IF pc[c] = "stream" THEN "cut" ELSE "gone"
        BY <1>34, <3>3 DEF Crash
      <4>2. pc[c] \in ActivePhases \cup OrphanPhases
        BY <3>3 DEF Dying
      <4>3. ReplyOf(pc[c]) = IF pc[c] = "stream" THEN "ok"
                             ELSE IF pc[c] \in OrphanPhases THEN "gone" ELSE "pending"
        BY <4>2 DEF ActivePhases, CallPhases, LookupPhases, Queueing, Finishing
      <4> QED
        BY <3>1, <3>3, <4>1, <4>3
    <3> QED
      BY <3>2, <3>3
  <2>2. Replies' = [c \in Clients |-> IF c \in S THEN "gone" ELSE Replies[c]]
    BY <2>1, RepliesByPhaseNext
  <2>3. S \in SUBSET Clients /\ \A c \in S : Replies[c] = "pending"
    BY DEF Dying
  <2> QED
    BY <1>34, <2>2, <2>3, Dropped DEF Crash
<1>35. ASSUME NEW o \in Objects, NEW i \in FileId, ExternalDelete(o, i)
       PROVE  Served
  <2>1. Replies' = Replies
    BY <1>35, RepliesByPhase, RepliesByPhaseNext DEF ExternalDelete
  <2>2. Service!ExternalDelete(o, i)
    BY <1>35, <2>1 DEF ExternalDelete, Service!ExternalDelete, Replies
  <2> QED
    BY <2>2 DEF Served, Service!Next
<1>36. CASE UNCHANGED vars
  <2>1. Replies' = Replies
    BY <1>36, RepliesByPhase, RepliesByPhaseNext DEF vars
  <2> QED
    BY <1>36, <2>1 DEF vars, Served, Service!vars, Replies
<1> QED
  BY <1>1, <1>2, <1>3, <1>4, <1>5, <1>6, <1>7, <1>8, <1>9, <1>10, <1>11, <1>12,
     <1>13, <1>14, <1>15, <1>16, <1>17, <1>18, <1>19, <1>20, <1>21, <1>22, <1>23, <1>24,
     <1>25, <1>26, <1>27, <1>28, <1>29, <1>30, <1>31, <1>32, <1>33, <1>34, <1>35, <1>36
  DEF Next, Begin, Step, Environment

(* THEOREM: the transfers implement the promise of ObjectService.  Files   *)
(* are only added under fresh ids, a success names a file that was live    *)
(* during that very request, "missing" is only said by a request that      *)
(* found nothing, and no reply is taken back.                              *)
THEOREM ServiceImplemented == Spec => ImplementsObjectService
<1>1. Init => Service!Init
  BY DEF Init, Service!Init, Reply, OrphanPhases
<1>2. TypeInv /\ [Next]_vars => [Service!Next]_(Service!vars)
  BY ServiceStep DEF Served
<1> QED
  BY <1>1, <1>2, TypeInit, TypeStep, PTL
  DEF Spec, ImplementsObjectService, Service!Spec
=============================================================================
