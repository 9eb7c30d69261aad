----------------------------- MODULE LocalCache -----------------------------
(***************************************************************************)
(* The object cache that the worktrees of one machine share.  Processes of *)
(* the command line run `pull`, `hydrate`, `dehydrate` and `gc` over it at *)
(* the same time; their user saves and deletes files of the worktrees      *)
(* whenever he likes, processes are killed, reads and writes fail, the     *)
(* power goes.  Three file locks order the processes: the cache operation  *)
(* lock (shared by everything but collection), a striped lock per worktree *)
(* path and the registry lock.                                             *)
(*                                                                         *)
(* A blob is the content of a file; the LFS object it is the content of    *)
(* has its SHA-256 and size, so the blob itself stands for the object.     *)
(***************************************************************************)
EXTENDS Integers, FiniteSets

CONSTANTS
  Procs, Worktrees, Paths, Blobs, Stripes,
  Objects,        \* the blobs that are LFS objects
  Pointer,        \* Pointer[o]: the blob of the pointer file of object o
  WorktreeOf,     \* the worktree a path lies in
  Index,          \* Index[p]: the object that the index names for path p
  StripeOf,       \* the lock of a path, or of a worktree's Git LFS store
  UserBlobs,      \* what the user saves
  None,           \* null value
  MaxCommands, MaxEdits, MaxFaults, MaxMoves  \* bounds

ASSUME LocalCacheAssumption ==
  /\ Objects \subseteq Blobs /\ UserBlobs \subseteq Blobs /\ None \notin Blobs
  /\ Pointer \in [Objects -> Blobs]
  /\ \A o1, o2 \in Objects : Pointer[o1] = Pointer[o2] => o1 = o2
  /\ WorktreeOf \in [Paths -> Worktrees] /\ Index \in [Paths -> Objects]
  /\ StripeOf \in [Paths \cup Worktrees -> Stripes]
  /\ None \notin Procs \cup Paths \cup Worktrees
  /\ {MaxCommands, MaxEdits, MaxFaults, MaxMoves} \subseteq Nat

VARIABLES
  file,      \* file[p]: the blob at path p, or None
  cache,     \* cache[o]: the state of the cached copy of object o
  store,     \* store[w][o]: the same, of the Git LFS store of worktree w
  recovery,  \* <<p, b>>: blob b, once at p, is in a file left beside it
  registry,  \* the registered worktrees
  there,     \* the worktrees whose root directory exists
  staged,    \* the paths with filter=lfs by the attributes in the index
  pc, job,   \* where each process is, and what it works on
  shared, exclusive,  \* the holders of the cache operation lock
  pathLock,           \* the holder of each stripe, or None
  registryLock,       \* the holder of the registry lock, or None
  held,      \* held[p]: the object whose bytes left p for the cache and that the
             \* code can be asked to keep there (see DehydratedKept), or None
  saved,     \* saved[p]: what the user last saved at p, or None
  exposed,   \* the paths last saved while an exchange there was undecided
  abandoned, \* the worktrees that were pruned
  commands, edits, faults, moves

disk == <<file, cache, store, recovery>>
roots == <<registry, there, staged>>
locks == <<shared, exclusive, pathLock, registryLock>>
history == <<held, saved, exposed, abandoned>>
bounds == <<commands, edits, faults, moves>>
vars == <<disk, roots, pc, job, locks, history, bounds>>

(* A copy is written, synced with the directory it lies in, on disk with   *)
(* all the directories above it, or torn by a power loss.                  *)
Copies == {"none", "volatile", "synced", "durable", "torn"}
Safe == {"synced", "durable"}
Exists(copy) == copy # "none"      \* regular_file_exists
Intact(copy) == copy # "torn"      \* its hash and its size are the object's
Verified(copy) == Exists(copy) /\ Intact(copy)

(* LfsPointer::parse: the object that a blob names when read as a pointer  *)
Parse(b) == IF \E o \in Objects : Pointer[o] = b
            THEN CHOOSE o \in Objects : Pointer[o] = b ELSE None

(* The empty file is its own pointer.                                      *)
IsEmpty(o) == o \in Objects /\ Pointer[o] = o

(* What is read at a path that may hold a pointer: the object it names     *)
PointerAt(p) ==
  IF Parse(file[p]) # None /\ ~IsEmpty(Parse(file[p])) THEN Parse(file[p]) ELSE None

(* The file at a path can be opened as one: it is not a directory, a link, *)
(* or nothing.                                                             *)
Readable(p) == file[p] # None

(* The file that a command line names lies in a worktree.                  *)
contained_worktree_file_path(p) == WorktreeOf[p] \in there /\ Readable(p)

(* indexed_lfs_object_for_dehydration: the index is not changed meanwhile  *)
IndexedObject(p) == Index[p]

(* The registry file is replaced by a rename, and synced.                  *)
SaveRegistry(ws) == registry' = ws

upsert(w) == registry \cup ({w} \ {None})

(* The registered worktrees whose root is a directory                      *)
Present == registry \cap there

Cached == {o \in Objects : Exists(cache[o])}

Commands == {"pull", "hydrate", "dehydrate", "gc", "gcDry", "gcPrune"}
Labels == {"idle", "fetch", "register", "scanPointers", "next", "ingestLock",
           "ingest", "ingestPersist", "lockShared", "lockPath", "inspect",
           "copy", "persist", "sync", "verify", "recheck", "swap", "displaced",
           "rollback", "reread", "publishCheck", "publishLock", "publishPath",
           "publish", "publishPersist", "lockExclusive", "lockRegistry",
           "scan", "collect"}

NoJob == [cmd |-> None, wt |-> None, path |-> None, obj |-> None,
          temp |-> None, todo |-> {}]

Init ==
  /\ file \in [Paths -> Blobs]
  /\ \A p \in Paths : file[p] \in {Index[p], Pointer[Index[p]]}
  /\ cache = [o \in Objects |-> "none"]
  /\ store = [w \in Worktrees |-> [o \in Objects |-> "none"]]
  /\ recovery = {} /\ registry = {} /\ there = Worktrees /\ staged = Paths
  /\ pc = [c \in Procs |-> "idle"] /\ job = [c \in Procs |-> NoJob]
  /\ shared = {} /\ exclusive = None /\ registryLock = None
  /\ pathLock = [s \in Stripes |-> None]
  /\ held = [p \in Paths |-> None] /\ saved = [p \in Paths |-> None]
  /\ exposed = {} /\ abandoned = {}
  /\ commands = 0 /\ edits = 0 /\ faults = 0 /\ moves = 0

-----------------------------------------------------------------------------
(* Control flow of a process.                                              *)
At(c, label) == pc[c] = label
Goto(c, label) == pc' = [pc EXCEPT ![c] = label]
Set(c, field, value) == job' = [job EXCEPT ![c][field] = value]

(* The guards of an operation are dropped where it returns.                *)
Release(c) ==
  /\ shared' = shared \ {c}
  /\ exclusive' = IF exclusive = c THEN None ELSE exclusive
  /\ pathLock' = [s \in Stripes |-> IF pathLock[s] = c THEN None ELSE pathLock[s]]
  /\ registryLock' = IF registryLock = c THEN None ELSE registryLock

Exit(c) == Goto(c, "idle") /\ job' = [job EXCEPT ![c] = NoJob] /\ Release(c)

(* An operation returns an error: `pull` counts it and goes on with its    *)
(* next pointer, the other commands end.                                   *)
Fail(c) ==
  IF job[c].cmd = "pull" /\ pc[c] \notin {"fetch", "register", "scanPointers"}
  THEN Goto(c, "next") /\ Set(c, "temp", None) /\ Release(c)
  ELSE Exit(c)

-----------------------------------------------------------------------------
(* The commands.                                                           *)
Start(c, cmd, w, todo) ==
  /\ At(c, "idle") /\ commands < MaxCommands /\ w \in there
  /\ commands' = commands + 1
  /\ job' = [job EXCEPT ![c] = [NoJob EXCEPT !.cmd = cmd, !.wt = w, !.todo = todo]]
  /\ Goto(c, IF cmd = "pull" THEN "fetch" ELSE "register")
  /\ UNCHANGED <<disk, roots, locks, history, edits, faults, moves>>

RunPull(c) == \E w \in there : Start(c, "pull", w, {})

RunHydrate(c) ==
  \E p \in Paths :
    /\ contained_worktree_file_path(p)
    /\ Start(c, "hydrate", WorktreeOf[p], {<<p, None>>})

RunDehydrate(c) ==
  \E p \in Paths :
    /\ contained_worktree_file_path(p)
    /\ Start(c, "dehydrate", WorktreeOf[p], {<<p, IndexedObject(p)>>})

(* Collection may be started outside any worktree.                         *)
RunGc(c) ==
  \E w \in there \cup {None}, cmd \in {"gc", "gcDry", "gcPrune"} :
    Start(c, cmd, w, {})

(* `git lfs fetch` leaves the objects of the checked-out commit in the     *)
(* store of the worktree.                                                  *)
Fetch(c) ==
  /\ At(c, "fetch")
  /\ LET fetched == {Index[p] : p \in {q \in Paths : WorktreeOf[q] = job[c].wt}}
     IN store' = [store EXCEPT ![job[c].wt] =
          [o \in Objects |-> IF o \in fetched /\ @[o] = "none" THEN "volatile"
                             ELSE @[o]]]
  /\ Goto(c, "register")
  /\ UNCHANGED <<file, cache, recovery, roots, job, locks, history, bounds>>

RegisterHolding(c) ==  \* mutant: the registry lock outlives the registration
  /\ At(c, "register") /\ registryLock = None
  /\ SaveRegistry(upsert(job[c].wt))
  /\ registryLock' = IF job[c].cmd = "dehydrate" THEN c ELSE None
  /\ Goto(c, CASE job[c].cmd = "pull" -> "scanPointers"
               [] job[c].cmd \in {"hydrate", "dehydrate"} -> "next"
               [] OTHER -> "lockExclusive")
  /\ UNCHANGED <<disk, there, staged, job, shared, exclusive, pathLock, history, bounds>>

(* register_worktree: one step, since it holds the registry lock and       *)
(* replaces the registry file by a rename.                                 *)
Register(c) ==
  /\ At(c, "register") /\ registryLock = None
  /\ SaveRegistry(upsert(job[c].wt))
  /\ Goto(c, CASE job[c].cmd = "pull" -> "scanPointers"
               [] job[c].cmd \in {"hydrate", "dehydrate"} -> "next"
               [] OTHER -> "lockExclusive")
  /\ UNCHANGED <<disk, there, staged, job, locks, history, bounds>>

(* current_checkout_lfs_pointer_scan: each pointer with the object it names *)
ScanPointers(c) ==
  /\ At(c, "scanPointers")
  /\ LET pointers == {p \in Paths : WorktreeOf[p] = job[c].wt /\ PointerAt(p) # None}
     IN Set(c, "todo", {<<p, PointerAt(p)>> : p \in pointers})
  /\ Goto(c, "next")
  /\ UNCHANGED <<disk, roots, locks, history, bounds>>

NextPath(c) ==
  /\ At(c, "next")
  /\ IF job[c].todo = {} THEN Exit(c)
     ELSE \E t \in job[c].todo :
       /\ job' = [job EXCEPT ![c].path = t[1], ![c].obj = t[2], ![c].todo = @ \ {t}]
       /\ Goto(c, IF job[c].cmd = "pull" THEN "ingestLock" ELSE "lockShared")
       /\ UNCHANGED locks
  /\ UNCHANGED <<disk, roots, history, bounds>>

-----------------------------------------------------------------------------
(* The locks.                                                              *)
LockShared(c) ==
  /\ \E from \in {"ingestLock", "lockShared", "publishLock"} :
       /\ At(c, from)
       /\ Goto(c, CASE from = "ingestLock" -> "ingest"
                    [] from = "lockShared" -> "lockPath"
                    [] OTHER -> "publishPath")
  /\ exclusive = None
  /\ shared' = shared \cup {c}
  /\ UNCHANGED <<disk, roots, job, exclusive, pathLock, registryLock, history, bounds>>

LockNoPath(c) ==  \* mutant: commands on one path do not exclude each other
  /\ pc[c] \in {"lockPath", "publishPath"}
  /\ Goto(c, IF At(c, "lockPath") THEN "inspect" ELSE "publish")
  /\ UNCHANGED <<disk, roots, job, locks, history, bounds>>

LockPath(c) ==
  /\ pc[c] \in {"lockPath", "publishPath"}
  /\ LET s == StripeOf[IF At(c, "lockPath") THEN job[c].path ELSE job[c].wt]
     IN pathLock[s] = None /\ pathLock' = [pathLock EXCEPT ![s] = c]
  /\ Goto(c, IF At(c, "lockPath") THEN "inspect" ELSE "publish")
  /\ UNCHANGED <<disk, roots, job, shared, exclusive, registryLock, history, bounds>>

LockExclusive(c) ==
  /\ At(c, "lockExclusive") /\ shared = {} /\ exclusive = None
  /\ exclusive' = c
  /\ Goto(c, "lockRegistry")
  /\ UNCHANGED <<disk, roots, job, shared, pathLock, registryLock, history, bounds>>

LockRegistry(c) ==
  /\ At(c, "lockRegistry") /\ registryLock = None
  /\ registryLock' = c
  /\ Goto(c, "scan")
  /\ UNCHANGED <<disk, roots, job, shared, exclusive, pathLock, history, bounds>>

-----------------------------------------------------------------------------
(* ingest_git_lfs_object: from a worktree's Git LFS store into the cache.   *)
Ingest(c) ==
  /\ At(c, "ingest")
  /\ LET o == job[c].obj IN
       CASE Verified(cache[o]) -> Goto(c, "lockShared") /\ UNCHANGED job /\ Release(c)
         [] ~Exists(cache[o]) /\ Verified(store[job[c].wt][o]) ->
              Goto(c, "ingestPersist") /\ UNCHANGED <<job, locks>>
         [] OTHER -> Fail(c)
  /\ UNCHANGED <<disk, roots, history, bounds>>

(* Publication does not replace a copy another process published first.    *)
(* (That copy is verified, and is whole: it appeared since the check.)     *)
IngestPersist(c) ==
  /\ At(c, "ingestPersist")
  /\ cache' = [cache EXCEPT ![job[c].obj] = IF @ = "none" THEN "volatile" ELSE @]
  /\ Goto(c, "lockShared")
  /\ Release(c)
  /\ UNCHANGED <<file, store, recovery, roots, job, history, bounds>>

-----------------------------------------------------------------------------
(* hydrate_pointer_file: a pointer is replaced by its object's bytes.       *)
ReadPointer(c) ==
  /\ At(c, "inspect") /\ job[c].cmd # "dehydrate"
  /\ LET o == Parse(file[job[c].path]) IN
       CASE o = None -> Fail(c)
         [] o # None /\ IsEmpty(o) -> Goto(c, "next") /\ UNCHANGED job /\ Release(c)
         [] OTHER -> Goto(c, "verify") /\ Set(c, "obj", o) /\ UNCHANGED locks
  /\ UNCHANGED <<disk, roots, history, bounds>>

Destination(here, o) ==
  IF here = None THEN "Missing" ELSE IF here = o THEN "AlreadyMaterialized"
  ELSE "Different"

(* A copy of the verified object, beside the file it is to replace         *)
materialize_to_temporary_file(c) == Set(c, "temp", job[c].obj)

(* materialize_verified_object, up to the temporary copy of the object     *)
Materialize(c) ==
  /\ At(c, "verify")
  /\ LET o == job[c].obj
         here == file[job[c].path]
         status == Destination(here, o) IN
       IF ~Verified(cache[o]) \/ (status = "Different" /\ Parse(here) # o)
       THEN Fail(c)
       ELSE IF status = "AlreadyMaterialized"
       THEN Goto(c, "next") /\ UNCHANGED job /\ Release(c)
       ELSE Goto(c, "recheck") /\ materialize_to_temporary_file(c) /\ UNCHANGED locks
  /\ UNCHANGED <<disk, roots, history, bounds>>

Recheck(c) ==
  /\ At(c, "recheck")
  /\ IF Readable(job[c].path) /\ Parse(file[job[c].path]) = job[c].obj
     THEN Goto(c, "swap") /\ UNCHANGED <<job, locks>>
     ELSE Fail(c)
  /\ UNCHANGED <<disk, roots, history, bounds>>

-----------------------------------------------------------------------------
(* dehydrate_file: bytes are replaced by their pointer, once the cache has  *)
(* a durable copy.                                                         *)
Inspect(c) ==
  /\ At(c, "inspect") /\ job[c].cmd = "dehydrate"
  /\ LET o == job[c].obj
         here == file[job[c].path] IN
       CASE ~Readable(job[c].path) -> Fail(c)
         [] Readable(job[c].path) /\ Parse(here) = o ->
              Goto(c, "publishCheck") /\ UNCHANGED job /\ Release(c)
         [] Parse(here) \notin {None, o} /\ here # o -> Fail(c)
         [] OTHER -> /\ Goto(c, IF ~Exists(cache[o]) THEN "copy" ELSE "sync")
                     /\ UNCHANGED <<job, locks>>
  /\ UNCHANGED <<disk, roots, history, bounds>>

CopyToCache(c) ==
  /\ At(c, "copy")
  /\ IF file[job[c].path] = job[c].obj
     THEN Goto(c, "persist") /\ UNCHANGED <<job, locks>> ELSE Fail(c)
  /\ UNCHANGED <<disk, roots, history, bounds>>

Persist(c) ==
  /\ At(c, "persist")
  /\ cache' = [cache EXCEPT ![job[c].obj] = IF @ = "none" THEN "volatile" ELSE @]
  /\ Goto(c, "sync")
  /\ UNCHANGED <<file, store, recovery, roots, job, locks, history, bounds>>

(* The file and the directory it lies in are synced, and not the entries   *)
(* of that directory and of its parents, which may be new.                 *)
SyncSkipped(c) == cache[job[c].obj]  \* mutant: published and not synced

Synced(c) == IF cache[job[c].obj] = "durable" THEN "durable" ELSE "synced"

(* The cached copy is verified and synced, the pointer file prepared.      *)
Sync(c) ==
  /\ At(c, "sync")
  /\ LET o == job[c].obj IN
       /\ cache' = IF Verified(cache[o]) THEN [cache EXCEPT ![o] = Synced(c)]
                   ELSE cache
       /\ IF Verified(cache[o]) /\ Readable(job[c].path)
          THEN Goto(c, "swap") /\ Set(c, "temp", Pointer[o]) /\ UNCHANGED locks
          ELSE Fail(c)
  /\ UNCHANGED <<file, store, recovery, roots, history, bounds>>

-----------------------------------------------------------------------------
(* replace_retaining_displaced: the new file and the one at the path trade  *)
(* names; what was displaced is verified, and put back if it is not what   *)
(* was to be replaced.                                                     *)
Exchange(c) ==
  /\ At(c, "swap")
  /\ LET p == job[c].path IN
       IF file[p] = None THEN Fail(c) /\ UNCHANGED <<file, held>>
       ELSE /\ file' = [file EXCEPT ![p] = job[c].temp]
            /\ Set(c, "temp", file[p])
            /\ held' = [held EXCEPT ![p] = None]
            /\ Goto(c, "displaced") /\ UNCHANGED locks
  /\ UNCHANGED <<cache, store, recovery, roots, saved, exposed, abandoned, bounds>>

Replaceable(c) == IF job[c].cmd = "dehydrate" THEN job[c].temp = job[c].obj
                  ELSE Parse(job[c].temp) = job[c].obj

VerifyDisplaced(c) ==
  /\ At(c, "displaced")
  /\ LET p == job[c].path
         o == job[c].obj IN
       IF Replaceable(c)
       THEN /\ Set(c, "temp", None) /\ Goto(c, "reread")
            /\ held' = IF job[c].cmd = "dehydrate" /\ file[p] = Pointer[o]
                          /\ ~IsEmpty(o) /\ p \in staged
                       THEN [held EXCEPT ![p] = o] ELSE held
       ELSE Goto(c, "rollback") /\ UNCHANGED <<job, held>>
  /\ UNCHANGED <<disk, roots, locks, saved, exposed, abandoned, bounds>>

(* Where there is nothing to trade names with, the displaced file stays.   *)
Rollback(c) ==
  /\ At(c, "rollback")
  /\ LET p == job[c].path IN
       IF file[p] # None
       THEN file' = [file EXCEPT ![p] = job[c].temp] /\ UNCHANGED recovery
       ELSE recovery' = recovery \cup {<<p, job[c].temp>>} /\ UNCHANGED file
  /\ Fail(c)
  /\ UNCHANGED <<cache, store, roots, history, bounds>>

Reread(c) ==
  /\ At(c, "reread")
  /\ LET here == file[job[c].path]
         o == job[c].obj IN
       CASE job[c].cmd = "dehydrate" /\ here # None /\ Parse(here) = o ->
              Goto(c, "publishLock") /\ UNCHANGED job /\ Release(c)
         [] job[c].cmd # "dehydrate" /\ here = o ->
              Goto(c, "next") /\ UNCHANGED job /\ Release(c)
         [] OTHER -> Fail(c)
  /\ UNCHANGED <<disk, roots, history, bounds>>

-----------------------------------------------------------------------------
(* publish_dehydrated_object_to_git_lfs: the object is materialized in the  *)
(* worktree's Git LFS store, unless the file was a pointer already and the *)
(* cache lacks its object.                                                 *)
PublishCheck(c) ==
  /\ At(c, "publishCheck")
  /\ Goto(c, IF ~Exists(cache[job[c].obj]) THEN "next" ELSE "publishLock")
  /\ UNCHANGED <<disk, roots, job, locks, history, bounds>>

Publish(c) ==
  /\ At(c, "publish")
  /\ LET o == job[c].obj
         stored == store[job[c].wt][o] IN
       CASE Verified(cache[o]) /\ Verified(stored) ->
              Goto(c, "next") /\ UNCHANGED job /\ Release(c)
         [] Verified(cache[o]) /\ ~Exists(stored) ->
              Goto(c, "publishPersist") /\ UNCHANGED <<job, locks>>
         [] OTHER -> Fail(c)
  /\ UNCHANGED <<disk, roots, history, bounds>>

PublishPersist(c) ==
  /\ At(c, "publishPersist")
  /\ store' = [store EXCEPT ![job[c].wt][job[c].obj] =
                  IF @ = "none" THEN "volatile" ELSE @]
  /\ Goto(c, "next") /\ Release(c)
  /\ UNCHANGED <<file, cache, recovery, roots, job, history, bounds>>

-----------------------------------------------------------------------------
(* garbage_collect                                                         *)

(* The objects that the pointers of worktrees ws name, at the paths whose  *)
(* attributes in the index say filter=lfs                                  *)
Referenced(ws) ==
  {PointerAt(p) : p \in {q \in staged : WorktreeOf[q] \in ws}} \ {None}

(* What is not referenced goes, unless a worktree that is not there might  *)
(* refer to it and is not to be pruned.                                    *)
Garbage(c) ==
  IF registry = Present \/ job[c].cmd = "gcPrune"
  THEN Cached \ Referenced(Present) ELSE {}

(* Pruning saves the registry before anything is deleted.  A dry run only  *)
(* reports.                                                                *)
Scan(c) ==
  /\ At(c, "scan")
  /\ IF job[c].cmd = "gcDry" THEN Exit(c)
     ELSE Goto(c, "collect") /\ Set(c, "todo", Garbage(c)) /\ UNCHANGED locks
  /\ IF job[c].cmd = "gcPrune"
     THEN SaveRegistry(Present) /\ abandoned' = abandoned \cup (registry \ Present)
     ELSE UNCHANGED <<registry, abandoned>>
  /\ UNCHANGED <<disk, there, staged, held, saved, exposed, bounds>>

Collect(c) ==
  /\ At(c, "collect")
  /\ IF job[c].todo = {} THEN Exit(c) /\ UNCHANGED cache
     ELSE \E o \in job[c].todo :
       /\ cache' = [cache EXCEPT ![o] = "none"]
       /\ Set(c, "todo", job[c].todo \ {o})
       /\ UNCHANGED <<pc, locks>>
  /\ UNCHANGED <<file, store, recovery, roots, history, bounds>>

-----------------------------------------------------------------------------
(* What may fail.                                                          *)
Kept(c) == IF job[c].temp = None THEN {} ELSE {<<job[c].path, job[c].temp>>}

(* A system call of the process fails.                                     *)
IoError(c) ==
  /\ pc[c] \notin {"idle", "next"} /\ faults < MaxFaults
  /\ faults' = faults + 1
  /\ IF At(c, "displaced") THEN Goto(c, "rollback") /\ UNCHANGED <<job, locks>>
     ELSE Fail(c)
  /\ recovery' = IF At(c, "rollback") THEN recovery \cup Kept(c) ELSE recovery
  /\ UNCHANGED <<file, cache, store, roots, history, commands, edits, moves>>

(* A killed process leaves its temporary file; its locks go with it.       *)
Kill(c) ==
  /\ pc[c] # "idle" /\ faults < MaxFaults
  /\ faults' = faults + 1
  /\ recovery' = recovery \cup Kept(c)
  /\ Exit(c)
  /\ UNCHANGED <<file, cache, store, roots, history, commands, edits, moves>>

(* A power loss keeps, loses or tears each copy that was not synced, and   *)
(* may lose a synced one with its directory; a path whose bytes it took is *)
(* no longer one the code can answer for.  What the worktrees hold is      *)
(* taken to reach the disk as it is written.                               *)
PowerLoss ==
  /\ faults < MaxFaults /\ faults' = faults + 1
  /\ LET copy(x) == (IF x[1] = None THEN cache ELSE store[x[1]])[x[2]]
         atRisk == {x \in (Worktrees \cup {None}) \X Objects :
                         copy(x) \in {"volatile", "synced"}}
     IN \E fate \in [atRisk -> {"none", "durable", "torn"}] :
          /\ \A x \in atRisk : copy(x) = "synced" => fate[x] # "torn"
          /\ cache' = [o \in Objects |-> IF <<None, o>> \in atRisk
                                         THEN fate[<<None, o>>] ELSE cache[o]]
          /\ store' = [w \in Worktrees |-> [o \in Objects |->
               IF <<w, o>> \in atRisk THEN fate[<<w, o>>] ELSE store[w][o]]]
  /\ held' = [p \in Paths |-> IF held[p] # None /\ cache[held[p]] = "synced"
                                 /\ cache'[held[p]] = "none" THEN None ELSE held[p]]
  /\ recovery' = recovery \cup UNION {Kept(c) : c \in Procs}
  /\ pc' = [c \in Procs |-> "idle"] /\ job' = [c \in Procs |-> NoJob]
  /\ shared' = {} /\ exclusive' = None /\ registryLock' = None
  /\ pathLock' = [s \in Stripes |-> None]
  /\ UNCHANGED <<file, roots, saved, exposed, abandoned, commands, edits, moves>>

(* The user saves a file (or checks one out), or deletes one.              *)
Undecided(p) == \E c \in Procs : job[c].path = p /\ pc[c] \in {"displaced", "rollback"}

UserWrites(p, b) ==
  /\ edits < MaxEdits /\ WorktreeOf[p] \in there /\ file[p] # b
  /\ edits' = edits + 1
  /\ file' = [file EXCEPT ![p] = b]
  /\ saved' = [saved EXCEPT ![p] = b]
  /\ held' = [held EXCEPT ![p] = None]
  /\ exposed' = IF Undecided(p) THEN exposed \cup {p} ELSE exposed \ {p}
  /\ UNCHANGED <<cache, store, recovery, roots, pc, job, locks, abandoned,
                 commands, faults, moves>>

Save(p) == \E b \in UserBlobs : UserWrites(p, b)
Delete(p) == UserWrites(p, None)

(* The user takes a path's attribute out of the index, or puts it there;   *)
(* the .gitattributes of the worktree has it all the time.                 *)
Unstage(p) ==
  /\ edits < MaxEdits /\ edits' = edits + 1
  /\ p \in staged /\ staged' = staged \ {p}
  /\ held' = [held EXCEPT ![p] = None]
  /\ UNCHANGED <<disk, registry, there, pc, job, locks, saved, exposed, abandoned,
                 commands, faults, moves>>

Stage(p) ==
  /\ edits < MaxEdits /\ edits' = edits + 1
  /\ p \notin staged /\ staged' = staged \cup {p}
  /\ UNCHANGED <<disk, registry, there, pc, job, locks, history, commands, faults,
                 moves>>

(* A worktree in which nothing runs is moved away, or comes back.          *)
Move(w) ==
  /\ moves < MaxMoves /\ moves' = moves + 1
  /\ \A c \in Procs : job[c].wt # w
  /\ there' = IF w \in there THEN there \ {w} ELSE there \cup {w}
  /\ UNCHANGED <<disk, registry, staged, pc, job, locks, history, commands, edits, faults>>

-----------------------------------------------------------------------------
Step(c) ==
  \/ Fetch(c) \/ Register(c) \/ ScanPointers(c) \/ NextPath(c)
  \/ LockShared(c) \/ LockPath(c) \/ LockExclusive(c) \/ LockRegistry(c)
  \/ Ingest(c) \/ IngestPersist(c)
  \/ ReadPointer(c) \/ Materialize(c) \/ Recheck(c)
  \/ Inspect(c) \/ CopyToCache(c) \/ Persist(c) \/ Sync(c)
  \/ Exchange(c) \/ VerifyDisplaced(c) \/ Rollback(c) \/ Reread(c)
  \/ PublishCheck(c) \/ Publish(c) \/ PublishPersist(c)
  \/ Scan(c) \/ Collect(c)

Next ==
  \/ \E c \in Procs : \/ RunPull(c) \/ RunHydrate(c) \/ RunDehydrate(c) \/ RunGc(c)
                      \/ Step(c) \/ IoError(c) \/ Kill(c)
  \/ \E p \in Paths : Save(p) \/ Delete(p) \/ Unstage(p) \/ Stage(p)
  \/ \E w \in Worktrees : Move(w)
  \/ PowerLoss

Spec == Init /\ [][Next]_vars

-----------------------------------------------------------------------------
(* Each variable has its type; the holder of a lock is a running process.  *)
TypeOK ==
  /\ file \in [Paths -> Blobs \cup {None}]
  /\ cache \in [Objects -> Copies] /\ store \in [Worktrees -> [Objects -> Copies]]
  /\ recovery \subseteq Paths \X Blobs
  /\ registry \subseteq Worktrees /\ there \subseteq Worktrees /\ staged \subseteq Paths
  /\ pc \in [Procs -> Labels]
  /\ \A c \in Procs :
       /\ job[c].cmd \in Commands \cup {None} /\ job[c].wt \in Worktrees \cup {None}
       /\ job[c].path \in Paths \cup {None} /\ job[c].obj \in Objects \cup {None}
       /\ job[c].temp \in Blobs \cup {None}
       /\ job[c].todo \subseteq CASE job[c].cmd = "pull" -> Paths \X Objects
                                  [] job[c].cmd = "hydrate" -> Paths \X {None}
                                  [] job[c].cmd = "dehydrate" -> Paths \X Objects
                                  [] OTHER -> Objects
  /\ shared \subseteq Procs /\ {exclusive, registryLock} \subseteq Procs \cup {None}
  /\ pathLock \in [Stripes -> Procs \cup {None}]
  /\ held \in [Paths -> Objects \cup {None}] /\ saved \in [Paths -> Blobs \cup {None}]
  /\ exposed \subseteq Paths /\ abandoned \subseteq Worktrees

(* The bytes that `dehydrate` took out of a file are in the cache, synced, *)
(* for as long as their pointer is where it was left: no collection that   *)
(* runs meanwhile, no failure and no power loss takes them.  Two provisos  *)
(* are in `held`.  The attributes in the index say filter=lfs of the path  *)
(* all the while, since collection reads those and dehydration reads the   *)
(* worktree's .gitattributes.  And no power loss took the copy together    *)
(* with a new directory, since only the innermost one is synced.  The      *)
(* third is that the user did not prune the worktree while it was away.    *)
(* (The empty file is its own pointer: nothing leaves it.)                 *)
DehydratedKept ==
  \A p \in Paths : held[p] # None /\ WorktreeOf[p] \notin abandoned
    => cache[held[p]] \in Safe

(* What the user typed into a file survives every command that runs on the *)
(* file: it is at its path, or in a file beside it.  The exception is what *)
(* was saved between an exchange and the decision to undo it, which the    *)
(* undoing drops.                                                          *)
SavesSurvive ==
  \A p \in Paths :
    saved[p] \notin Objects \cup {Pointer[o] : o \in Objects} \cup {None}
      /\ p \notin exposed
    => \/ file[p] = saved[p] \/ <<p, saved[p]>> \in recovery
       \/ \E c \in Procs : job[c].path = p /\ job[c].temp = saved[p]

(* The three locks never leave everyone waiting: while a command runs,     *)
(* some process can take its next step.                                    *)
NobodyStuck ==
  (\E c \in Procs : pc[c] # "idle") => \E c \in Procs : ENABLED Step(c)
=============================================================================
