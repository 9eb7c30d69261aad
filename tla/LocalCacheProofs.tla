-------------------------- MODULE LocalCacheProofs --------------------------
(* Theorems about LocalCache for any number of processes, worktrees, paths *)
(* and objects, and any run of commands, edits and faults: nothing that    *)
(* was dehydrated or saved is lost.                                        *)
EXTENDS LocalCache, TLAPS

(* What a file that only commands wrote may hold.                          *)
Harmless == Objects \cup {Pointer[o] : o \in Objects} \cup {None}

(* Where a process holds the cache operation lock, and a path lock.        *)
UnderPath == {"inspect", "copy", "persist", "sync", "verify", "recheck", "swap",
              "displaced", "rollback", "reread"}
UnderShared == UnderPath \cup {"ingest", "ingestPersist", "lockPath", "publishPath",
                               "publish", "publishPersist"}
UnderExclusive == {"lockRegistry", "scan", "collect"}

(* Where it works on a path, and where a name for the object is known.     *)
OnPath == UnderShared \cup {"ingestLock", "lockShared", "publishCheck", "publishLock"}
Nameless == {"lockShared", "lockPath", "inspect"}
Trading == {"displaced", "rollback"}

Pairs == Paths \X (Objects \cup {None})

JobRecords ==
  [cmd : Commands \cup {None}, wt : Worktrees \cup {None}, path : Paths \cup {None},
   obj : Objects \cup {None}, temp : Blobs \cup {None},
   todo : SUBSET (Objects \cup Pairs)]

(* What `dehydrate` may be asked to do in a worktree.                      *)
Indexed(w) == {<<p, Index[p]>> : p \in {q \in Paths : WorktreeOf[q] = w}}

(* A process with job j can be at label l.                                 *)
Fits(l, j) ==
  /\ l \in Labels /\ j \in JobRecords
  /\ l # "idle" => j.cmd \in Commands /\ (j.cmd = "dehydrate" => j.wt \in Worktrees)
  /\ l = "next" => j.todo \in SUBSET Pairs
  /\ l \in {"next"} \cup OnPath => j.cmd \in {"pull", "hydrate", "dehydrate"}
  /\ l \in OnPath => j.path \in Paths /\ j.todo \in SUBSET Pairs
  /\ l \in OnPath => j.obj \in Objects \/ (l \in Nameless /\ j.cmd = "hydrate")
  /\ l \in {"verify", "recheck"} => j.cmd # "dehydrate"
  /\ l \in {"fetch", "scanPointers"} => j.cmd = "pull"
  /\ l \in {"next"} \cup OnPath /\ j.cmd = "pull" => j.todo \subseteq Paths \X Objects
  /\ j.cmd \in {"hydrate", "dehydrate"} => j.todo \in SUBSET Pairs
  /\ j.cmd = "dehydrate" =>
       /\ j.todo \subseteq Indexed(j.wt)
       /\ l \in OnPath => WorktreeOf[j.path] = j.wt
  /\ l \in UnderExclusive \cup {"lockExclusive"} =>
       j.cmd \in {"gc", "gcDry", "gcPrune"}
  /\ j.temp \in Harmless \/ (l \in Trading /\ j.temp \in Blobs)

(* Its locks ...                                                           *)
Locked(c, l, j) ==
  /\ l \in UnderShared => c \in shared
  /\ l \in UnderPath => pathLock[StripeOf[j.path]] = c
  /\ l \in UnderExclusive => exclusive = c
  /\ l \in {"scan", "collect"} => registryLock = c

Known == registry \cup abandoned

(* ... and what they keep the others from doing.                           *)
Guarded(l, j) ==
  /\ j.cmd = "dehydrate" /\ l \notin {"idle", "register"} => j.wt \in Known
  /\ j.cmd = "dehydrate" /\ l \in {"swap", "displaced"}
       => cache[j.obj] \in Safe
  /\ l \in Trading => held[j.path] = None
  /\ l \in Trading /\ j.path \notin exposed => file[j.path] \in Harmless
  /\ l = "collect" =>
       \A p \in Paths : held[p] # None /\ WorktreeOf[p] \notin abandoned
                          => held[p] \notin j.todo

Proc(c) == Fits(pc[c], job[c]) /\ Locked(c, pc[c], job[c]) /\ Guarded(pc[c], job[c])

ProcInv == \A c \in Procs : Proc(c)

Shape ==
  /\ pc = [c \in Procs |-> pc[c]] /\ job = [c \in Procs |-> job[c]]
  /\ file \in [Paths -> Blobs \cup {None}]
  /\ cache = [o \in Objects |-> cache[o]]
  /\ held = [p \in Paths |-> held[p]] /\ saved = [p \in Paths |-> saved[p]]
  /\ pathLock = [s \in Stripes |-> pathLock[s]]
  /\ registry \subseteq Worktrees /\ there \subseteq Worktrees
  /\ exclusive = None \/ shared = {}

(* Where the object of a dehydrated file is.                               *)
HeldInv ==
  \A p \in Paths : held[p] # None =>
    /\ held[p] \in Objects /\ ~IsEmpty(held[p]) /\ file[p] = Pointer[held[p]]
    /\ WorktreeOf[p] \in Known /\ p \in staged
    /\ WorktreeOf[p] \notin abandoned => cache[held[p]] \in Safe

(* Where a saved blob is.                                                  *)
SaveInv ==
  \A p \in Paths : saved[p] \notin Harmless /\ p \notin exposed =>
    \/ file[p] = saved[p] \/ <<p, saved[p]>> \in recovery
    \/ \E c \in Procs : job[c].path = p /\ job[c].temp = saved[p]

IInv == Shape /\ ProcInv /\ HeldInv /\ SaveInv

----------------------------------------------------------------------------
(* Reading a pointer finds the one object it names.                        *)
LEMMA Parsed ==
  /\ None \notin Objects /\ None \notin Procs /\ None \notin Paths
  /\ Objects \subseteq Blobs /\ Pointer \in [Objects -> Blobs]
  /\ \A b : \/ Parse(b) = None
            \/ Parse(b) \in Objects /\ Pointer[Parse(b)] = b
  /\ \A o \in Objects : Parse(Pointer[o]) = o
<1>1. None \notin Objects /\ None \notin Procs /\ None \notin Paths
      /\ Objects \subseteq Blobs /\ Pointer \in [Objects -> Blobs]
  BY LocalCacheAssumption
<1>2. ASSUME NEW b PROVE Parse(b) = None \/ (Parse(b) \in Objects /\ Pointer[Parse(b)] = b)
  BY DEF Parse
<1>3. ASSUME NEW o \in Objects PROVE Parse(Pointer[o]) = o
  <2>1. Parse(Pointer[o]) = CHOOSE x \in Objects : Pointer[x] = Pointer[o]
    BY DEF Parse
  <2>2. PICK x \in Objects : x = Parse(Pointer[o]) /\ Pointer[x] = Pointer[o]
    BY <2>1
  <2> QED
    BY <2>2, LocalCacheAssumption
<1> QED
  BY <1>1, <1>2, <1>3

(* A step that takes nothing from a file, nor a synced copy from the       *)
(* cache, nor an attribute from the index                                  *)
Undisturbed ==
  /\ UNCHANGED <<file, held, saved, exposed>>
  /\ registry' \subseteq Worktrees /\ there' \subseteq Worktrees
  /\ Known \subseteq Known' /\ abandoned \subseteq abandoned'
  /\ staged \subseteq staged'
  /\ recovery \subseteq recovery'
  /\ cache' = [o \in Objects |-> cache'[o]]
  /\ \A o \in Objects : cache[o] \in Safe => cache'[o] \in Safe

(* Only process c moves ...                                                *)
Alone(c) ==
  /\ pc' = [d \in Procs |-> pc'[d]] /\ job' = [d \in Procs |-> job'[d]]
  /\ \A d \in Procs \ {c} : pc'[d] = pc[d] /\ job'[d] = job[d]

(* ... and it takes no lock from the others.                               *)
OthersKeep(c) ==
  /\ shared \ {c} \subseteq shared'
  /\ \A s \in Stripes, d \in Procs \ {c} : pathLock[s] = d => pathLock'[s] = d
  /\ \A d \in Procs \ {c} : /\ exclusive = d => exclusive' = d
                            /\ registryLock = d => registryLock' = d
  /\ exclusive' = None \/ shared' = {}
  /\ pathLock' = [s \in Stripes |-> pathLock'[s]]

(* What its temporary file holds is harmless, or is not lost.              *)
TempKept(c) ==
  \/ job[c].temp \in Harmless
  \/ job'[c].path = job[c].path /\ job'[c].temp = job[c].temp
  \/ <<job[c].path, job[c].temp>> \in recovery'

(* The other processes keep their labels, their jobs and their locks.      *)
LEMMA OthersStand ==
  ASSUME IInv, NEW c \in Procs, Alone(c), OthersKeep(c), NEW d \in Procs \ {c}
  PROVE  /\ pc'[d] = pc[d] /\ job'[d] = job[d] /\ Fits(pc[d], job[d])
         /\ Guarded(pc[d], job[d]) /\ Locked(d, pc[d], job[d])'
<1>1. pc'[d] = pc[d] /\ job'[d] = job[d] /\ Proc(d)
  BY DEF Alone, IInv, ProcInv
<1>2. \A l, j : Locked(d, l, j) /\ (l \in UnderPath => StripeOf[j.path] \in Stripes)
                  => Locked(d, l, j)'
  BY DEF Locked, OthersKeep
<1>3. pc[d] \in UnderPath => job[d].path \in Paths
  BY <1>1 DEF Proc, Fits, OnPath, UnderShared
<1>4. pc[d] \in UnderPath => StripeOf[job[d].path] \in Stripes
  BY <1>3, LocalCacheAssumption
<1>5. Locked(d, pc[d], job[d])'
  BY <1>1, <1>2, <1>4 DEF Proc
<1> QED
  BY <1>1, <1>5 DEF Proc

(* The invariant after such a step of one process.                         *)
LEMMA Quiet ==
  ASSUME IInv, Undisturbed, NEW c \in Procs, Alone(c), OthersKeep(c), TempKept(c),
         Proc(c)'
  PROVE  IInv'
<1>1. Shape'
  BY DEF IInv, Shape, Undisturbed, Alone, OthersKeep
<1>2. ASSUME NEW d \in Procs PROVE Proc(d)'
  <2>1. CASE d = c
    BY <2>1
  <2>2. CASE d # c
    <3>1. /\ pc'[d] = pc[d] /\ job'[d] = job[d] /\ Fits(pc[d], job[d])
          /\ Guarded(pc[d], job[d]) /\ Locked(d, pc[d], job[d])'
      BY <2>2, OthersStand
    <3>3. Guarded(pc[d], job[d])'
      <4>1. job[d].cmd = "dehydrate" /\ pc[d] \in {"swap", "displaced"}
              => job[d].obj \in Objects
        BY <3>1 DEF Fits, OnPath, UnderShared, UnderPath, Nameless
      <4> QED
        BY <3>1, <4>1 DEF Guarded, Undisturbed
    <3> QED
      BY <3>1, <3>3 DEF Proc, Fits
  <2> QED
    BY <2>1, <2>2
<1>3. HeldInv'
  BY DEF IInv, HeldInv, Undisturbed, Known, IsEmpty
<1>4. SaveInv'
  <2> SUFFICES ASSUME NEW p \in Paths, saved[p] \notin Harmless, p \notin exposed
               PROVE  \/ file[p] = saved[p] \/ <<p, saved[p]>> \in recovery'
                      \/ \E d \in Procs : job'[d].path = p /\ job'[d].temp = saved[p]
    BY DEF SaveInv, Undisturbed, Harmless
  <2>1. \/ file[p] = saved[p] \/ <<p, saved[p]>> \in recovery
        \/ \E d \in Procs : job[d].path = p /\ job[d].temp = saved[p]
    BY DEF IInv, SaveInv
  <2>2. ASSUME NEW d \in Procs, job[d].path = p, job[d].temp = saved[p]
        PROVE  \/ <<p, saved[p]>> \in recovery'
               \/ job'[d].path = p /\ job'[d].temp = saved[p]
    BY <2>2 DEF TempKept, Alone
  <2> QED
    BY <2>1, <2>2 DEF Undisturbed
<1> QED
  BY <1>1, <1>2, <1>3, <1>4 DEF IInv, ProcInv

----------------------------------------------------------------------------
(* What a step of a process does to its label, its job and its locks.      *)
LEMMA Goes ==
  ASSUME Shape, NEW c \in Procs, NEW l, Goto(c, l)
  PROVE  /\ pc' = [d \in Procs |-> pc'[d]] /\ pc'[c] = l
         /\ \A d \in Procs \ {c} : pc'[d] = pc[d]
  BY DEF Shape, Goto

LEMMA LocksStay ==
  ASSUME IInv, NEW c \in Procs, UNCHANGED locks
  PROVE  OthersKeep(c) /\ UNCHANGED <<shared, exclusive, pathLock, registryLock>>
  BY DEF IInv, Shape, OthersKeep, locks

LEMMA Released ==
  ASSUME IInv, NEW c \in Procs, Release(c)
  PROVE  OthersKeep(c)
<1>1. /\ shared' = shared \ {c}
      /\ exclusive' = IF exclusive = c THEN None ELSE exclusive
      /\ pathLock' = [s \in Stripes |-> IF pathLock[s] = c THEN None ELSE pathLock[s]]
      /\ registryLock' = IF registryLock = c THEN None ELSE registryLock
  BY DEF Release
<1>2. \A s \in Stripes, d \in Procs \ {c} : pathLock[s] = d => pathLock'[s] = d
  BY <1>1
<1> QED
  BY <1>1, <1>2 DEF OthersKeep, IInv, Shape

(* A process that works on one path, or is between two.                    *)
Between == {"next"} \cup (OnPath \ (UnderShared \cup Trading))

(* A command that is over, and an operation that is.                       *)
LEMMA NothingFits ==
  /\ Fits("idle", NoJob) /\ NoJob.cmd = None /\ NoJob.temp = None
  /\ NoJob.path = None
  BY DEF Fits, NoJob, JobRecords, Labels, Harmless, OnPath, UnderShared, UnderPath,
         UnderExclusive, Trading

LEMMA Exited ==
  ASSUME IInv, NEW c \in Procs, Exit(c)
  PROVE  Alone(c) /\ OthersKeep(c) /\ Proc(c)'
<1>1. /\ Goto(c, "idle") /\ Release(c) /\ job' = [job EXCEPT ![c] = NoJob]
  BY DEF Exit
<1>2. /\ pc'[c] = "idle" /\ job'[c] = NoJob /\ Alone(c)
  BY <1>1, Goes DEF IInv, Shape, Alone
<1>3. Fits(pc'[c], job'[c])
  BY <1>2, NothingFits
<1>4. Locked(c, pc[c], job[c])'
  BY <1>2 DEF Locked, UnderShared, UnderPath, UnderExclusive
<1>5. Guarded(pc[c], job[c])'
  BY <1>2, NothingFits DEF Guarded, Trading
<1> QED
  BY <1>1, <1>2, <1>3, <1>4, <1>5, Released DEF Proc, Fits

LEMMA Exits ==
  ASSUME IInv, Undisturbed, NEW c \in Procs, Exit(c),
         job[c].temp \in Harmless \/ <<job[c].path, job[c].temp>> \in recovery'
  PROVE  IInv'
<1>1. TempKept(c)
  BY DEF TempKept
<1> QED
  BY <1>1, Exited, Quiet

LEMMA Ends ==
  ASSUME IInv, Undisturbed, NEW c \in Procs, NEW l \in Between, Goto(c, l),
         UNCHANGED job, Release(c), pc[c] \notin {"idle", "register"}, Fits(l, job[c])
  PROVE  IInv'
<1>1. pc'[c] = l /\ job'[c] = job[c] /\ Alone(c)
  BY Goes DEF IInv, Shape, Alone
<1>2. OthersKeep(c) /\ TempKept(c)
  BY <1>1, Released DEF TempKept
<1>3. l \notin UnderShared \cup UnderPath \cup UnderExclusive \cup Trading
      /\ l \notin {"scan", "collect", "swap", "displaced"}
  BY DEF Between, OnPath, UnderShared, UnderPath, UnderExclusive, Trading
<1>4. Fits(pc'[c], job'[c])
  BY <1>1
<1>5. Locked(c, pc[c], job[c])'
  BY <1>1, <1>3 DEF Locked
<1>6. Guarded(pc[c], job[c])'
  BY <1>1, <1>3 DEF Guarded, IInv, ProcInv, Proc, Undisturbed
<1>7. Proc(c)'
  BY <1>4, <1>5, <1>6 DEF Proc, Fits
<1> QED
  BY <1>1, <1>2, <1>7, Quiet

(* A process that goes on with what it has.                                *)
LEMMA Moves ==
  ASSUME IInv, Undisturbed, NEW c \in Procs, NEW l, Goto(c, l),
         job' = [d \in Procs |-> job'[d]], \A d \in Procs \ {c} : job'[d] = job[d],
         OthersKeep(c), TempKept(c), Fits(l, job'[c]),
         l \in UnderShared => c \in shared',
         l \in UnderPath => pathLock'[StripeOf[job'[c].path]] = c,
         l \in UnderExclusive => exclusive' = c,
         l \in {"scan", "collect"} => registryLock' = c,
         job'[c].cmd = "dehydrate" /\ l \notin {"idle", "register"} => job'[c].wt \in Known',
         l \notin Trading \cup {"collect"},
         job'[c].cmd = "dehydrate" /\ l = "swap" => cache'[job'[c].obj] \in Safe
  PROVE  IInv'
<1>1. /\ pc'[c] = l /\ Alone(c)
  BY Goes DEF IInv, Alone
<1>2. Fits(pc'[c], job'[c])
  BY <1>1
<1>3. Locked(c, pc[c], job[c])'
  BY <1>1 DEF Locked
<1>4. Guarded(pc[c], job[c])'
  BY <1>1 DEF Guarded, Trading
<1>5. Proc(c)'
  BY <1>2, <1>3, <1>4 DEF Proc, Fits
<1> QED
  BY <1>1, <1>5, Quiet

(* An error that an operation returns, wherever it arises.                 *)
LEMMA Failed ==
  ASSUME IInv, NEW c \in Procs, Fail(c), pc[c] # "idle"
  PROVE  Alone(c) /\ OthersKeep(c) /\ Proc(c)'
<1>1. CASE Exit(c)
  BY <1>1, Exited
<1>2. CASE ~ Exit(c)
  <2>1. /\ job[c].cmd = "pull" /\ pc[c] \notin {"fetch", "register", "scanPointers"}
        /\ Goto(c, "next") /\ Set(c, "temp", None) /\ Release(c)
    BY <1>2 DEF Fail
  <2>2. Fits(pc[c], job[c]) /\ Proc(c)
    BY DEF IInv, ProcInv, Proc
  <2>3. job' = [job EXCEPT ![c] = [job[c] EXCEPT !["temp"] = None]]
    BY <2>1 DEF Set
  <2>4. /\ job' = [d \in Procs |-> job'[d]] /\ \A d \in Procs \ {c} : job'[d] = job[d]
        /\ job'[c] = [job[c] EXCEPT !.temp = None]
    BY <2>3 DEF IInv, Shape
  <2>5. pc[c] \in {"next"} \cup OnPath
    <3>1. pc[c] \in Labels /\ pc[c] \notin UnderExclusive \cup {"lockExclusive"}
      BY <2>1, <2>2 DEF Fits
    <3> QED
      BY <2>1, <3>1 DEF Labels, OnPath, UnderShared, UnderPath, UnderExclusive
  <2>6. Fits("next", job'[c]) /\ job'[c].cmd = "pull"
    BY <2>1, <2>2, <2>4, <2>5 DEF Fits, JobRecords, Labels, OnPath, UnderShared, UnderPath,
       UnderExclusive, Trading, Harmless, Pairs
  <2>7. pc'[c] = "next" /\ Alone(c) /\ OthersKeep(c)
    BY <2>1, <2>4, Goes, Released DEF IInv, Alone
  <2>8. Locked(c, pc[c], job[c])'
    BY <2>7 DEF Locked, UnderShared, UnderPath, UnderExclusive
  <2>9. Guarded(pc[c], job[c])'
    BY <2>6, <2>7 DEF Guarded, Trading
  <2> QED
    BY <2>6, <2>7, <2>8, <2>9 DEF Proc, Fits
<1> QED
  BY <1>1, <1>2

LEMMA Fails ==
  ASSUME IInv, Undisturbed, NEW c \in Procs, Fail(c), pc[c] # "idle",
         job[c].temp \in Harmless \/ <<job[c].path, job[c].temp>> \in recovery'
  PROVE  IInv'
<1>1. TempKept(c)
  BY DEF TempKept
<1> QED
  BY <1>1, Failed, Quiet

(* At any other label than those where files trade names, the temporary    *)
(* file is one a command wrote.                                            *)
LEMMA FailsHarmless ==
  ASSUME IInv, Undisturbed, NEW c \in Procs, Fail(c), pc[c] \notin Trading \cup {"idle"}
  PROVE  IInv'
<1>1. job[c].temp \in Harmless
  BY DEF IInv, ProcInv, Proc, Fits
<1> QED
  BY <1>1, Fails

----------------------------------------------------------------------------
(* The steps that move no file.                                            *)
LEMMA Untouched ==
  ASSUME IInv, UNCHANGED <<file, cache, recovery, roots, history>>
  PROVE  Undisturbed
<1>1. UNCHANGED <<file, cache, recovery, registry, there, staged,
                  held, saved, exposed, abandoned>>
  BY DEF roots, history
<1> QED
  BY <1>1 DEF Undisturbed, Known, IInv, Shape

LEMMA Here ==
  ASSUME IInv, NEW c \in Procs
  PROVE  /\ Proc(c) /\ Fits(pc[c], job[c]) /\ Locked(c, pc[c], job[c])
         /\ Guarded(pc[c], job[c])
         /\ UNCHANGED job => /\ job' = [d \in Procs |-> job'[d]] /\ TempKept(c)
                             /\ \A d \in Procs : job'[d] = job[d]
  BY DEF IInv, ProcInv, Proc, Shape, TempKept

(* One that keeps its locks and its job.                                   *)
LEMMA Advances ==
  ASSUME IInv, Undisturbed, NEW c \in Procs, NEW l, Goto(c, l), UNCHANGED <<job, locks>>,
         Fits(l, job[c]), pc[c] \notin {"idle", "register"},
         l \in UnderShared => pc[c] \in UnderShared,
         l \in UnderPath => pc[c] \in UnderPath,
         l \notin Trading \cup UnderExclusive,
         l = "swap" => job[c].cmd # "dehydrate"
  PROVE  IInv'
<1>1. /\ job' = [d \in Procs |-> job'[d]] /\ TempKept(c)
      /\ \A d \in Procs : job'[d] = job[d]
      /\ Locked(c, pc[c], job[c]) /\ Guarded(pc[c], job[c])
  BY Here
<1>2. OthersKeep(c) /\ UNCHANGED <<shared, pathLock>>
  BY LocksStay
<1>3. l \notin {"scan", "collect"}
  BY DEF UnderExclusive
<1>4. job[c].cmd = "dehydrate" => job[c].wt \in Known'
  BY <1>1 DEF Guarded, Undisturbed
<1> QED
  BY <1>1, <1>2, <1>3, <1>4, Moves DEF Locked

(* The labels a step of an operation goes to, with the job it has.         *)
LEMMA Onward ==
  ASSUME NEW l, NEW j, Fits(l, j), l \in OnPath \ Trading
  PROVE  /\ Fits("next", j)
         /\ \A k \in OnPath \ Trading : j.obj \in Objects
              /\ (k \in {"verify", "recheck"} => j.cmd # "dehydrate") => Fits(k, j)
  BY DEF Fits, OnPath, UnderShared, UnderPath, Labels, UnderExclusive, Trading

LEMMA IngestStep ==
  ASSUME IInv, NEW c \in Procs, Ingest(c)
  PROVE  IInv'
<1>1. Undisturbed /\ pc[c] = "ingest"
  BY Untouched DEF Ingest, disk, At
<1>2. Fits(pc[c], job[c]) /\ job[c].obj \in Objects /\ pc[c] \in OnPath \ Trading
  BY <1>1, Here DEF Fits, OnPath, UnderShared, UnderPath, Trading, Nameless
<1>3. "lockShared" \in Between /\ "lockShared" \in OnPath \ Trading
      /\ "ingestPersist" \in OnPath \ Trading
  BY DEF Between, OnPath, UnderShared, UnderPath, Trading
<1>4. Fits("lockShared", job[c]) /\ Fits("ingestPersist", job[c])
  BY <1>2, <1>3, Onward
<1>5. CASE Goto(c, "lockShared") /\ UNCHANGED job /\ Release(c)
  BY <1>1, <1>3, <1>4, <1>5, Ends
<1>6. CASE Goto(c, "ingestPersist") /\ UNCHANGED <<job, locks>>
  BY <1>1, <1>4, <1>6, Advances
     DEF UnderShared, UnderPath, Trading, UnderExclusive
<1>7. CASE Fail(c)
  BY <1>1, <1>7, FailsHarmless DEF Trading
<1> QED
  BY <1>5, <1>6, <1>7 DEF Ingest

(* A copy that is published replaces none that is there.                   *)
LEMMA Published ==
  ASSUME IInv, NEW o, cache' = [cache EXCEPT ![o] = IF @ = "none" THEN "volatile" ELSE @],
         UNCHANGED <<file, recovery, roots, history>>
  PROVE  Undisturbed
<1>1. UNCHANGED <<file, recovery, registry, there, staged,
                  held, saved, exposed, abandoned>>
  BY DEF roots, history
<1>2. cache = [x \in Objects |-> cache[x]]
  BY DEF IInv, Shape
<1>3. /\ cache' = [x \in Objects |-> cache'[x]]
      /\ \A x \in Objects : cache[x] \in Safe => cache'[x] \in Safe
  BY <1>2 DEF Safe
<1> QED
  BY <1>1, <1>3 DEF Undisturbed, Known, IInv, Shape

LEMMA IngestPersistStep ==
  ASSUME IInv, NEW c \in Procs, IngestPersist(c)
  PROVE  IInv'
<1>1. Undisturbed /\ pc[c] = "ingestPersist"
  BY Published DEF IngestPersist, At
<1>2. Fits(pc[c], job[c]) /\ job[c].obj \in Objects /\ pc[c] \in OnPath \ Trading
  BY <1>1, Here DEF Fits, OnPath, UnderShared, UnderPath, Trading, Nameless
<1>3. "lockShared" \in Between /\ "lockShared" \in OnPath \ Trading
  BY DEF Between, OnPath, UnderShared, UnderPath, Trading
<1>4. Fits("lockShared", job[c])
  BY <1>2, <1>3, Onward
<1> QED
  BY <1>1, <1>3, <1>4, Ends DEF IngestPersist

LEMMA ReadPointerStep ==
  ASSUME IInv, NEW c \in Procs, ReadPointer(c)
  PROVE  IInv'
<1>1. Undisturbed /\ pc[c] = "inspect" /\ job[c].cmd # "dehydrate"
  BY Untouched DEF ReadPointer, disk, At
<1>2. Fits(pc[c], job[c]) /\ pc[c] \in OnPath \ Trading /\ Locked(c, pc[c], job[c])
  BY <1>1, Here DEF OnPath, UnderShared, UnderPath, Trading
<1> DEFINE o == Parse(file[job[c].path])
<1>3. CASE Goto(c, "next") /\ UNCHANGED job /\ Release(c)
  BY <1>1, <1>2, <1>3, Onward, Ends DEF Between
<1>4. CASE o \in Objects /\ Goto(c, "verify") /\ Set(c, "obj", o) /\ UNCHANGED locks
  <2>1. job' = [job EXCEPT ![c] = [job[c] EXCEPT !["obj"] = o]]
    BY <1>4 DEF Set
  <2>2. /\ job' = [d \in Procs |-> job'[d]] /\ \A d \in Procs \ {c} : job'[d] = job[d]
        /\ job'[c] = [job[c] EXCEPT !.obj = o]
    BY <2>1 DEF IInv, Shape
  <2>3. /\ job'[c] \in JobRecords /\ job'[c].cmd = job[c].cmd /\ job'[c].path = job[c].path
        /\ job'[c].temp = job[c].temp /\ job'[c].todo = job[c].todo /\ job'[c].wt = job[c].wt
        /\ job'[c].obj = o
    BY <1>2, <1>4, <2>2 DEF Fits, JobRecords
  <2>4. Fits("verify", job'[c])
    BY <1>1, <1>2, <1>4, <2>3 DEF Fits, OnPath, UnderShared, UnderPath, Labels,
       UnderExclusive, Trading
  <2>5. OthersKeep(c) /\ TempKept(c) /\ UNCHANGED <<shared, pathLock>>
    BY <1>4, <2>3, LocksStay DEF TempKept
  <2>6. c \in shared /\ pathLock[StripeOf[job[c].path]] = c
    BY <1>1, <1>2 DEF Locked, UnderShared, UnderPath
  <2>7. "verify" \notin UnderExclusive \cup Trading
    BY DEF UnderExclusive, Trading
  <2> HIDE DEF o
  <2> QED
    BY <1>1, <1>4, <2>2, <2>3, <2>4, <2>5, <2>6, <2>7, Moves
<1>5. CASE Fail(c)
  BY <1>1, <1>5, FailsHarmless DEF Trading
<1>6. o = None \/ o \in Objects
  BY Parsed
<1> QED
  BY <1>3, <1>4, <1>5, <1>6 DEF ReadPointer

LEMMA MaterializeStep ==
  ASSUME IInv, NEW c \in Procs, Materialize(c)
  PROVE  IInv'
<1>1. Undisturbed /\ pc[c] = "verify"
  BY Untouched DEF Materialize, disk, At
<1>2. /\ Fits(pc[c], job[c]) /\ pc[c] \in OnPath \ Trading /\ Locked(c, pc[c], job[c])
      /\ job[c].obj \in Objects /\ job[c].cmd # "dehydrate"
  BY <1>1, Here DEF Fits, OnPath, UnderShared, UnderPath, Trading, Nameless
<1>3. CASE Goto(c, "next") /\ UNCHANGED job /\ Release(c)
  BY <1>1, <1>2, <1>3, Onward, Ends DEF Between
<1>4. CASE Goto(c, "recheck") /\ materialize_to_temporary_file(c) /\ UNCHANGED locks
  <2> DEFINE o == job[c].obj
  <2>1. job' = [job EXCEPT ![c] = [job[c] EXCEPT !["temp"] = o]]
    BY <1>4 DEF Set, materialize_to_temporary_file
  <2>2. /\ job' = [d \in Procs |-> job'[d]] /\ \A d \in Procs \ {c} : job'[d] = job[d]
        /\ job'[c] = [job[c] EXCEPT !.temp = o]
    BY <2>1 DEF IInv, Shape
  <2>3. /\ job'[c] \in JobRecords /\ job'[c].cmd = job[c].cmd /\ job'[c].path = job[c].path
        /\ job'[c].obj = o /\ job'[c].todo = job[c].todo /\ job'[c].wt = job[c].wt
        /\ job'[c].temp = o /\ o \in Harmless
    BY <1>2, <2>2, Parsed DEF Fits, JobRecords, Harmless
  <2>4. Fits("recheck", job'[c])
    BY <1>1, <1>2, <1>4, <2>3 DEF Fits, OnPath, UnderShared, UnderPath, Labels,
       UnderExclusive, Trading
  <2>5. OthersKeep(c) /\ UNCHANGED <<shared, pathLock>>
    BY <1>4, LocksStay
  <2>6. TempKept(c) /\ c \in shared /\ pathLock[StripeOf[job[c].path]] = c
    BY <1>1, <1>2 DEF Fits, Trading, TempKept, Locked, UnderShared, UnderPath
  <2>7. "recheck" \notin UnderExclusive \cup Trading
    BY DEF UnderExclusive, Trading
  <2> HIDE DEF o
  <2> QED
    BY <1>1, <1>2, <1>4, <2>2, <2>3, <2>4, <2>5, <2>6, <2>7, Moves
<1>5. CASE Fail(c)
  BY <1>1, <1>5, FailsHarmless DEF Trading
<1> QED
  BY <1>3, <1>4, <1>5 DEF Materialize

LEMMA RecheckStep ==
  ASSUME IInv, NEW c \in Procs, Recheck(c)
  PROVE  IInv'
<1>1. Undisturbed /\ pc[c] = "recheck"
  BY Untouched DEF Recheck, disk, At
<1>2. /\ Fits(pc[c], job[c]) /\ pc[c] \in OnPath \ Trading
      /\ job[c].obj \in Objects /\ job[c].cmd # "dehydrate"
  BY <1>1, Here DEF Fits, OnPath, UnderShared, UnderPath, Trading, Nameless
<1>3. CASE Goto(c, "swap") /\ UNCHANGED <<job, locks>>
  <2>1. "swap" \in OnPath \ Trading
    BY DEF OnPath, UnderShared, UnderPath, Trading
  <2>2. Fits("swap", job[c])
    BY <1>2, <2>1, Onward
  <2> QED
    BY <1>1, <1>2, <1>3, <2>2, Advances DEF UnderShared, UnderPath, Trading, UnderExclusive
<1>4. CASE Fail(c)
  BY <1>1, <1>4, FailsHarmless DEF Trading
<1> QED
  BY <1>3, <1>4 DEF Recheck

LEMMA InspectStep ==
  ASSUME IInv, NEW c \in Procs, Inspect(c)
  PROVE  IInv'
<1>1. Undisturbed /\ pc[c] = "inspect" /\ job[c].cmd = "dehydrate"
  BY Untouched DEF Inspect, disk, At
<1>2. Fits(pc[c], job[c]) /\ pc[c] \in OnPath \ Trading /\ job[c].obj \in Objects
  BY <1>1, Here DEF Fits, OnPath, UnderShared, UnderPath, Trading
<1>3. {"copy", "sync", "publishCheck"} \subseteq OnPath \ Trading
      /\ "publishCheck" \in Between
  BY DEF Between, OnPath, UnderShared, UnderPath, Trading
<1>4. Fits("copy", job[c]) /\ Fits("sync", job[c]) /\ Fits("publishCheck", job[c])
  BY <1>2, <1>3, Onward
<1>5. CASE Goto(c, "publishCheck") /\ UNCHANGED job /\ Release(c)
  BY <1>1, <1>3, <1>4, <1>5, Ends
<1>6. ASSUME NEW l \in {"copy", "sync"}, Goto(c, l), UNCHANGED <<job, locks>>
      PROVE  IInv'
  BY <1>1, <1>4, <1>6, Advances DEF UnderShared, UnderPath, Trading, UnderExclusive
<1>7. CASE Fail(c)
  BY <1>1, <1>7, FailsHarmless DEF Trading
<1> DEFINE o == job[c].obj  here == file[job[c].path]
<1>8. \/ Fail(c)
      \/ Goto(c, "publishCheck") /\ UNCHANGED job /\ Release(c)
      \/ /\ Goto(c, IF ~Exists(cache[o]) THEN "copy" ELSE "sync")
         /\ UNCHANGED <<job, locks>>
  <2>1. CASE ~Readable(job[c].path)
    BY <2>1 DEF Inspect
  <2>2. CASE Readable(job[c].path) /\ Parse(here) = o
    BY <2>2 DEF Inspect
  <2>3. CASE Readable(job[c].path) /\ Parse(here) # o
    BY <2>3 DEF Inspect
  <2> QED
    BY <2>1, <2>2, <2>3
<1>9. CASE Goto(c, IF ~Exists(cache[o]) THEN "copy" ELSE "sync") /\ UNCHANGED <<job, locks>>
  <2>1. CASE ~Exists(cache[o])
    BY <1>6, <1>9, <2>1
  <2>2. CASE Exists(cache[o])
    BY <1>6, <1>9, <2>2
  <2> QED
    BY <2>1, <2>2
<1> QED
  BY <1>5, <1>7, <1>8, <1>9

LEMMA CopyToCacheStep ==
  ASSUME IInv, NEW c \in Procs, CopyToCache(c)
  PROVE  IInv'
<1>1. Undisturbed /\ pc[c] = "copy"
  BY Untouched DEF CopyToCache, disk, At
<1>2. Fits(pc[c], job[c]) /\ pc[c] \in OnPath \ Trading /\ job[c].obj \in Objects
  BY <1>1, Here DEF Fits, OnPath, UnderShared, UnderPath, Trading, Nameless
<1>3. CASE Goto(c, "persist") /\ UNCHANGED <<job, locks>>
  <2>1. Fits("persist", job[c])
    BY <1>2, Onward DEF OnPath, UnderShared, UnderPath, Trading
  <2> QED
    BY <1>1, <1>3, <2>1, Advances DEF UnderShared, UnderPath, Trading, UnderExclusive
<1>4. CASE Fail(c)
  BY <1>1, <1>4, FailsHarmless DEF Trading
<1> QED
  BY <1>3, <1>4 DEF CopyToCache

LEMMA PersistStep ==
  ASSUME IInv, NEW c \in Procs, Persist(c)
  PROVE  IInv'
<1>1. Undisturbed /\ pc[c] = "persist" /\ UNCHANGED <<job, locks>> /\ Goto(c, "sync")
  BY Published DEF Persist, At
<1>2. Fits(pc[c], job[c]) /\ pc[c] \in OnPath \ Trading /\ job[c].obj \in Objects
  BY <1>1, Here DEF Fits, OnPath, UnderShared, UnderPath, Trading, Nameless
<1>3. Fits("sync", job[c])
  BY <1>2, Onward DEF OnPath, UnderShared, UnderPath, Trading
<1> QED
  BY <1>1, <1>3, Advances DEF UnderShared, UnderPath, Trading, UnderExclusive

(* Before files trade names the cached copy is synced.                     *)
LEMMA SyncStep ==
  ASSUME IInv, NEW c \in Procs, Sync(c)
  PROVE  IInv'
<1> DEFINE o == job[c].obj
<1>1. /\ pc[c] = "sync" /\ UNCHANGED <<file, recovery, roots, history>>
      /\ cache' = IF Verified(cache[o]) THEN [cache EXCEPT ![o] = Synced(c)] ELSE cache
  BY DEF Sync, At
<1>2. /\ Fits(pc[c], job[c]) /\ pc[c] \in OnPath \ Trading /\ o \in Objects
      /\ Locked(c, pc[c], job[c]) /\ Guarded(pc[c], job[c])
  BY <1>1, Here DEF Fits, OnPath, UnderShared, UnderPath, Trading, Nameless
<1>3. Undisturbed
  <2>1. UNCHANGED <<file, recovery, registry, there, staged,
                    held, saved, exposed, abandoned>>
    BY <1>1 DEF roots, history
  <2>2. cache = [x \in Objects |-> cache[x]]
    BY DEF IInv, Shape
  <2>3. /\ cache' = [x \in Objects |-> cache'[x]]
        /\ \A x \in Objects : cache[x] \in Safe => cache'[x] \in Safe
    BY <1>1, <2>2 DEF Synced, Safe
  <2> QED
    BY <2>1, <2>3 DEF Undisturbed, Known, IInv, Shape
<1>4. CASE Verified(cache[o]) /\ Goto(c, "swap") /\ Set(c, "temp", Pointer[o]) /\ UNCHANGED locks
  <2>1. job' = [job EXCEPT ![c] = [job[c] EXCEPT !["temp"] = Pointer[o]]]
    BY <1>4 DEF Set
  <2>2. /\ job' = [d \in Procs |-> job'[d]] /\ \A d \in Procs \ {c} : job'[d] = job[d]
        /\ job'[c] = [job[c] EXCEPT !.temp = Pointer[o]]
    BY <2>1 DEF IInv, Shape
  <2>3. /\ job'[c] \in JobRecords /\ job'[c].cmd = job[c].cmd /\ job'[c].path = job[c].path
        /\ job'[c].obj = o /\ job'[c].todo = job[c].todo /\ job'[c].wt = job[c].wt
        /\ job'[c].temp = Pointer[o] /\ Pointer[o] \in Harmless
    BY <1>2, <2>2, Parsed DEF Fits, JobRecords, Harmless
  <2>4. Fits("swap", job'[c])
    BY <1>1, <1>2, <1>4, <2>3 DEF Fits, OnPath, UnderShared, UnderPath, Labels,
       UnderExclusive, Trading
  <2>5. OthersKeep(c) /\ UNCHANGED <<shared, pathLock>>
    BY <1>4, LocksStay
  <2>6. /\ TempKept(c) /\ c \in shared /\ pathLock[StripeOf[job[c].path]] = c
        /\ job[c].cmd = "dehydrate" => job[c].wt \in Known'
    BY <1>1, <1>2, <1>3
    DEF Fits, Trading, TempKept, Locked, UnderShared, UnderPath, Guarded, Undisturbed
  <2>7. "swap" \notin UnderExclusive \cup Trading
    BY DEF UnderExclusive, Trading
  <2>8. cache'[o] \in Safe
    BY <1>1, <1>2, <1>4 DEF IInv, Shape, Synced, Safe
  <2> HIDE DEF o
  <2> QED
    BY <1>2, <1>3, <1>4, <2>2, <2>3, <2>4, <2>5, <2>6, <2>7, <2>8, Moves
<1>5. CASE Fail(c)
  BY <1>1, <1>3, <1>5, FailsHarmless DEF Trading
<1> QED
  BY <1>4, <1>5 DEF Sync

LEMMA RereadStep ==
  ASSUME IInv, NEW c \in Procs, Reread(c)
  PROVE  IInv'
<1>1. Undisturbed /\ pc[c] = "reread"
  BY Untouched DEF Reread, disk, At
<1>2. Fits(pc[c], job[c]) /\ pc[c] \in OnPath \ Trading /\ job[c].obj \in Objects
  BY <1>1, Here DEF Fits, OnPath, UnderShared, UnderPath, Trading, Nameless
<1>3. Fits("next", job[c]) /\ Fits("publishLock", job[c])
      /\ {"next", "publishLock"} \subseteq Between
  BY <1>2, Onward DEF Between, OnPath, UnderShared, UnderPath, Trading
<1>4. ASSUME NEW l \in {"next", "publishLock"}, Goto(c, l), UNCHANGED job, Release(c)
      PROVE  IInv'
  BY <1>1, <1>3, <1>4, Ends
<1>5. CASE Fail(c)
  BY <1>1, <1>5, FailsHarmless DEF Trading
<1> QED
  BY <1>4, <1>5 DEF Reread

LEMMA PublishCheckStep ==
  ASSUME IInv, NEW c \in Procs, PublishCheck(c)
  PROVE  IInv'
<1>1. Undisturbed /\ pc[c] = "publishCheck" /\ UNCHANGED <<job, locks>>
  BY Untouched DEF PublishCheck, disk, At
<1>2. Fits(pc[c], job[c]) /\ pc[c] \in OnPath \ Trading /\ job[c].obj \in Objects
  BY <1>1, Here DEF Fits, OnPath, UnderShared, UnderPath, Trading, Nameless
<1>3. Fits("next", job[c]) /\ Fits("publishLock", job[c])
  BY <1>2, Onward DEF OnPath, UnderShared, UnderPath, Trading
<1>4. ASSUME NEW l \in {"next", "publishLock"}, Goto(c, l) PROVE IInv'
  BY <1>1, <1>3, <1>4, Advances DEF UnderShared, UnderPath, Trading, UnderExclusive
<1>5. CASE ~Exists(cache[job[c].obj])
  BY <1>4, <1>5 DEF PublishCheck
<1>6. CASE Exists(cache[job[c].obj])
  BY <1>4, <1>6 DEF PublishCheck
<1> QED
  BY <1>5, <1>6

LEMMA PublishStep ==
  ASSUME IInv, NEW c \in Procs, Publish(c)
  PROVE  IInv'
<1>1. Undisturbed /\ pc[c] = "publish"
  BY Untouched DEF Publish, disk, At
<1>2. Fits(pc[c], job[c]) /\ pc[c] \in OnPath \ Trading /\ job[c].obj \in Objects
  BY <1>1, Here DEF Fits, OnPath, UnderShared, UnderPath, Trading, Nameless
<1>3. Fits("next", job[c]) /\ Fits("publishPersist", job[c]) /\ "next" \in Between
  BY <1>2, Onward DEF Between, OnPath, UnderShared, UnderPath, Trading
<1>4. CASE Goto(c, "next") /\ UNCHANGED job /\ Release(c)
  BY <1>1, <1>3, <1>4, Ends
<1>5. CASE Goto(c, "publishPersist") /\ UNCHANGED <<job, locks>>
  BY <1>1, <1>3, <1>5, Advances DEF UnderShared, UnderPath, Trading, UnderExclusive
<1>6. CASE Fail(c)
  BY <1>1, <1>6, FailsHarmless DEF Trading
<1> QED
  BY <1>4, <1>5, <1>6 DEF Publish

LEMMA PublishPersistStep ==
  ASSUME IInv, NEW c \in Procs, PublishPersist(c)
  PROVE  IInv'
<1>1. Undisturbed /\ pc[c] = "publishPersist"
  BY Untouched DEF PublishPersist, At
<1>2. Fits(pc[c], job[c]) /\ pc[c] \in OnPath \ Trading
  BY <1>1, Here DEF OnPath, UnderShared, UnderPath, Trading
<1>3. Fits("next", job[c]) /\ "next" \in Between
  BY <1>2, Onward DEF Between
<1> QED
  BY <1>1, <1>3, Ends DEF PublishPersist

----------------------------------------------------------------------------
(* Commands start, register their worktree and take up one path at a time. *)
LEMMA StartStep ==
  ASSUME IInv, NEW c \in Procs, NEW cmd \in Commands, NEW w \in there \cup {None},
         NEW todo \in SUBSET Pairs, Start(c, cmd, w, todo),
         cmd = "dehydrate" => todo \subseteq Indexed(w) /\ w \in there
  PROVE  IInv'
<1> DEFINE l == IF cmd = "pull" THEN "fetch" ELSE "register"
           j == [NoJob EXCEPT !.cmd = cmd, !.wt = w, !.todo = todo]
<1>1. /\ pc[c] = "idle" /\ job' = [job EXCEPT ![c] = j] /\ Goto(c, l)
      /\ UNCHANGED <<disk, roots, locks, history>>
  BY DEF Start, At
<1>2. Undisturbed
  BY <1>1, Untouched DEF disk
<1>3. /\ j.cmd = cmd /\ j.wt = w /\ j.todo = todo /\ j.temp = None /\ j.path = None
      /\ j \in JobRecords /\ (cmd = "dehydrate" => w \in Worktrees)
  BY DEF NoJob, JobRecords, IInv, Shape
<1>4. /\ l \in {"fetch", "register"} /\ (l = "fetch" => cmd = "pull")
      /\ l \notin OnPath \cup UnderExclusive \cup {"next", "lockExclusive", "collect", "swap"}
      /\ l \notin UnderShared \cup UnderPath \cup Trading
      /\ l \in Labels
  BY DEF OnPath, UnderShared, UnderPath, UnderExclusive, Trading, Labels
<1>5. /\ job' = [d \in Procs |-> job'[d]] /\ \A d \in Procs \ {c} : job'[d] = job[d]
      /\ job'[c] = j
  BY <1>1 DEF IInv, Shape
<1>6. Fits(l, j)
  <2> HIDE DEF l, j
  <2> QED
    BY <1>3, <1>4 DEF Fits, Harmless
<1>7. OthersKeep(c) /\ TempKept(c)
  <2>1. job[c].temp \in Harmless
    BY <1>1, Here DEF Fits, Trading
  <2> QED
    BY <1>1, <2>1, LocksStay DEF TempKept
<1>8. cmd = "dehydrate" => l = "register"
  OBVIOUS
<1> HIDE DEF l, j
<1> QED
  BY <1>1, <1>2, <1>3, <1>4, <1>5, <1>6, <1>7, <1>8, Moves

LEMMA CommandsStep ==
  ASSUME IInv, NEW c \in Procs, RunPull(c) \/ RunHydrate(c) \/ RunDehydrate(c) \/ RunGc(c)
  PROVE  IInv'
<1>1. CASE RunPull(c)
  <2>1. PICK w \in there : Start(c, "pull", w, {})
    BY <1>1 DEF RunPull
  <2> QED
    BY <2>1, StartStep DEF Commands
<1>2. CASE RunHydrate(c)
  <2>1. PICK p \in Paths : /\ WorktreeOf[p] \in there
                           /\ Start(c, "hydrate", WorktreeOf[p], {<<p, None>>})
    BY <1>2 DEF RunHydrate, contained_worktree_file_path
  <2>2. {<<p, None>>} \in SUBSET Pairs
    BY DEF Pairs
  <2> QED
    BY <2>1, <2>2, StartStep DEF Commands
<1>3. CASE RunDehydrate(c)
  <2>1. PICK p \in Paths : /\ WorktreeOf[p] \in there
                           /\ Start(c, "dehydrate", WorktreeOf[p], {<<p, Index[p]>>})
    BY <1>3 DEF RunDehydrate, contained_worktree_file_path, IndexedObject
  <2>2. {<<p, Index[p]>>} \in SUBSET Pairs /\ {<<p, Index[p]>>} \subseteq Indexed(WorktreeOf[p])
    BY LocalCacheAssumption DEF Pairs, Indexed
  <2> QED
    BY <2>1, <2>2, StartStep DEF Commands
<1>4. CASE RunGc(c)
  <2>1. PICK w \in there \cup {None}, cmd \in {"gc", "gcDry", "gcPrune"} : Start(c, cmd, w, {})
    BY <1>4 DEF RunGc
  <2>2. cmd \in Commands /\ cmd # "dehydrate"
    BY DEF Commands
  <2> QED
    BY <2>1, <2>2, StartStep
<1> QED
  BY <1>1, <1>2, <1>3, <1>4

LEMMA FetchStep ==
  ASSUME IInv, NEW c \in Procs, Fetch(c)
  PROVE  IInv'
<1>1. /\ Undisturbed /\ pc[c] = "fetch" /\ Goto(c, "register") /\ UNCHANGED <<job, locks>>
  BY Untouched DEF Fetch, At
<1>2. Fits(pc[c], job[c]) /\ job[c].cmd = "pull"
  BY <1>1, Here DEF Fits
<1>3. Fits("register", job[c])
  BY <1>1, <1>2 DEF Fits, OnPath, UnderShared, UnderPath, Labels, UnderExclusive, Trading
<1> QED
  BY <1>1, <1>3, Advances DEF UnderShared, UnderPath, UnderExclusive, Trading

LEMMA RegisterStep ==
  ASSUME IInv, NEW c \in Procs, Register(c)
  PROVE  IInv'
<1> DEFINE l == CASE job[c].cmd = "pull" -> "scanPointers"
                  [] job[c].cmd \in {"hydrate", "dehydrate"} -> "next"
                  [] OTHER -> "lockExclusive"
<1>1. /\ pc[c] = "register" /\ registry' = registry \cup ({job[c].wt} \ {None})
      /\ Goto(c, l) /\ UNCHANGED <<file, cache, recovery, there, staged, job, locks,
                                    history>>
  BY DEF Register, At, SaveRegistry, upsert, disk
<1>2. Fits(pc[c], job[c])
  BY Here
<1>3. Undisturbed
  <2>1. UNCHANGED <<file, cache, recovery, there, staged, held, saved, exposed,
                    abandoned>>
    BY <1>1 DEF history
  <2>2. job[c].wt \in Worktrees \cup {None}
    BY <1>2 DEF Fits, JobRecords
  <2> QED
    BY <1>1, <2>1, <2>2 DEF Undisturbed, Known, IInv, Shape
<1>4. /\ l \in {"scanPointers", "next", "lockExclusive"}
      /\ l = "scanPointers" => job[c].cmd = "pull"
      /\ l = "next" => job[c].cmd \in {"hydrate", "dehydrate"}
      /\ l = "lockExclusive" => job[c].cmd \notin {"pull", "hydrate", "dehydrate"}
  OBVIOUS
<1>5. /\ l \notin UnderShared \cup UnderPath \cup UnderExclusive \cup Trading
      /\ l \notin OnPath \cup {"scan", "collect", "swap"} /\ l \in Labels
  BY <1>4 DEF OnPath, UnderShared, UnderPath, UnderExclusive, Trading, Labels
<1> HIDE DEF l
<1>6. job[c].cmd \in Commands
  BY <1>1, <1>2 DEF Fits
<1>7. Fits(l, job[c])
  BY <1>1, <1>2, <1>4, <1>5, <1>6 DEF Fits, Commands, Trading
<1>8. job[c].cmd = "dehydrate" => job[c].wt \in Known'
  <2>1. job[c].cmd = "dehydrate" => job[c].wt \in Worktrees
    BY <1>1, <1>2 DEF Fits
  <2> QED
    BY <1>1, <2>1, LocalCacheAssumption DEF Known
<1>9. /\ job' = [d \in Procs |-> job'[d]] /\ TempKept(c) /\ OthersKeep(c)
      /\ \A d \in Procs : job'[d] = job[d]
  BY <1>1, Here, LocksStay
<1> QED
  BY <1>1, <1>3, <1>5, <1>7, <1>8, <1>9, Moves

LEMMA ScanPointersStep ==
  ASSUME IInv, NEW c \in Procs, ScanPointers(c)
  PROVE  IInv'
<1> DEFINE found == {<<p, PointerAt(p)>> :
                       p \in {q \in Paths : WorktreeOf[q] = job[c].wt /\ PointerAt(q) # None}}
<1>1. /\ Undisturbed /\ pc[c] = "scanPointers" /\ Goto(c, "next") /\ UNCHANGED locks
      /\ Set(c, "todo", found)
  BY Untouched DEF ScanPointers, At, disk
<1>2. Fits(pc[c], job[c]) /\ job[c].cmd = "pull"
  BY <1>1, Here DEF Fits
<1>3. found \in SUBSET (Paths \X Objects)
  BY Parsed DEF PointerAt
<1> HIDE DEF found
<1>4. job' = [job EXCEPT ![c] = [job[c] EXCEPT !["todo"] = found]]
  BY <1>1 DEF Set
<1>5. /\ job' = [d \in Procs |-> job'[d]] /\ \A d \in Procs \ {c} : job'[d] = job[d]
      /\ job'[c] = [job[c] EXCEPT !.todo = found]
  BY <1>4 DEF IInv, Shape
<1>6. /\ job'[c] \in JobRecords /\ job'[c].cmd = job[c].cmd /\ job'[c].path = job[c].path
      /\ job'[c].temp = job[c].temp /\ job'[c].todo = found
  BY <1>2, <1>3, <1>5 DEF Fits, JobRecords, Pairs
<1>7. Fits("next", job'[c])
  BY <1>1, <1>2, <1>3, <1>6 DEF Fits, Pairs, OnPath, UnderShared, UnderPath, Labels,
     UnderExclusive, Trading
<1>8. OthersKeep(c) /\ TempKept(c)
  BY <1>1, <1>6, LocksStay DEF TempKept
<1>9. "next" \notin UnderShared \cup UnderPath \cup UnderExclusive \cup Trading
  BY DEF UnderShared, UnderPath, UnderExclusive, Trading
<1> QED
  BY <1>1, <1>2, <1>5, <1>6, <1>7, <1>8, <1>9, Moves

LEMMA NextPathStep ==
  ASSUME IInv, NEW c \in Procs, NextPath(c)
  PROVE  IInv'
<1>1. Undisturbed /\ pc[c] = "next"
  BY Untouched DEF NextPath, At, disk
<1>2. Fits(pc[c], job[c]) /\ Guarded(pc[c], job[c])
  BY Here
<1>3. CASE Exit(c)
  <2>1. job[c].temp \in Harmless
    BY <1>1, <1>2 DEF Fits, Trading
  <2> QED
    BY <1>1, <1>3, <2>1, Exits
<1>4. ASSUME NEW t \in job[c].todo, UNCHANGED locks,
             job' = [job EXCEPT ![c].path = t[1], ![c].obj = t[2], ![c].todo = @ \ {t}],
             Goto(c, IF job[c].cmd = "pull" THEN "ingestLock" ELSE "lockShared")
      PROVE  IInv'
  <2> DEFINE l == IF job[c].cmd = "pull" THEN "ingestLock" ELSE "lockShared"
  <2>1. /\ job' = [d \in Procs |-> job'[d]] /\ \A d \in Procs \ {c} : job'[d] = job[d]
        /\ job'[c] = [job[c] EXCEPT !.path = t[1], !.obj = t[2], !.todo = @ \ {t}]
    BY <1>4 DEF IInv, Shape
  <2>2. job[c].todo \in SUBSET Pairs /\ job[c].cmd \in {"pull", "hydrate", "dehydrate"}
    BY <1>1, <1>2 DEF Fits
  <2>3. t[1] \in Paths /\ t[2] \in Objects \cup {None}
    BY <2>2 DEF Pairs
  <2>4. job[c].cmd # "hydrate" => t[2] \in Objects
    <3>1. CASE job[c].cmd = "pull"
      BY <1>1, <1>2, <3>1 DEF Fits
    <3>2. CASE job[c].cmd = "dehydrate"
      BY <1>2, <3>2, LocalCacheAssumption DEF Fits, Indexed
    <3> QED
      BY <2>2, <3>1, <3>2
  <2>5. /\ job'[c] \in JobRecords /\ job'[c].cmd = job[c].cmd /\ job'[c].path = t[1]
        /\ job'[c].obj = t[2] /\ job'[c].temp = job[c].temp /\ job'[c].wt = job[c].wt
        /\ job'[c].todo \subseteq job[c].todo
    <3> DEFINE rest == job[c].todo \ {t}
    <3>1. job[c] \in JobRecords
      BY <1>2 DEF Fits
    <3>2. rest \in SUBSET (Objects \cup Pairs) /\ rest \subseteq job[c].todo
      BY <3>1 DEF JobRecords
    <3>3. job'[c] = [job[c] EXCEPT !.path = t[1], !.obj = t[2], !.todo = rest]
      BY <2>1, <3>1 DEF JobRecords
    <3> HIDE DEF rest
    <3>4. /\ job'[c].cmd = job[c].cmd /\ job'[c].path = t[1]
          /\ job'[c].obj = t[2] /\ job'[c].temp = job[c].temp /\ job'[c].wt = job[c].wt
          /\ job'[c].todo = rest
      BY <3>1, <3>3 DEF JobRecords
    <3>5. job'[c] \in JobRecords
      BY <2>3, <3>1, <3>2, <3>3 DEF JobRecords
    <3> QED
      BY <3>2, <3>4, <3>5
  <2>6. job[c].cmd = "dehydrate" => WorktreeOf[t[1]] = job[c].wt
    BY <1>2, LocalCacheAssumption DEF Fits, Indexed
  <2>7. /\ l \in OnPath /\ l \notin UnderShared \cup UnderPath \cup UnderExclusive \cup Trading
        /\ l \in Labels /\ l \notin {"idle", "next", "verify", "recheck", "fetch",
                                     "scanPointers", "lockExclusive", "collect", "scan", "swap"}
        /\ job[c].cmd = "hydrate" => l \in Nameless
    BY DEF OnPath, UnderShared, UnderPath, UnderExclusive, Trading, Labels, Nameless
  <2>8. Goto(c, l)
    BY <1>4
  <2> HIDE DEF l
  <2>9. Fits(l, job'[c])
    <3>1. job[c].temp \in Harmless
      BY <1>1, <1>2 DEF Fits, Trading
    <3>2. job'[c].todo \in SUBSET Pairs
      BY <2>2, <2>5
    <3>3. job[c].cmd = "pull" => job'[c].todo \subseteq Paths \X Objects
      BY <1>1, <1>2, <2>5 DEF Fits
    <3>4. job[c].cmd = "dehydrate" => job[c].wt \in Worktrees
                                      /\ job'[c].todo \subseteq Indexed(job[c].wt)
      BY <1>1, <1>2, <2>5 DEF Fits
    <3>5. job[c].cmd \in Commands
      BY <1>1, <1>2 DEF Fits
    <3> QED
      BY <2>2, <2>3, <2>4, <2>5, <2>6, <2>7, <3>1, <3>2, <3>3, <3>4, <3>5 DEF Fits
  <2>10. OthersKeep(c) /\ TempKept(c)
    <3>1. job[c].temp \in Harmless
      BY <1>1, <1>2 DEF Fits, Trading
    <3> QED
      BY <1>4, <3>1, LocksStay DEF TempKept
  <2>11. job[c].cmd = "dehydrate" => job[c].wt \in Known'
    BY <1>1, <1>2 DEF Guarded, Undisturbed
  <2> QED
    BY <1>1, <2>1, <2>5, <2>7, <2>8, <2>9, <2>10, <2>11, Moves
<1> QED
  BY <1>3, <1>4 DEF NextPath

----------------------------------------------------------------------------
(* A lock is taken only when nobody holds one that excludes it.            *)
LEMMA Locks ==
  ASSUME IInv, Undisturbed, NEW c \in Procs, NEW l, Goto(c, l), UNCHANGED job,
         OthersKeep(c), pc[c] \notin Trading \cup {"idle", "register"},
         l \notin Trading \cup {"collect", "swap"}, Fits(l, job[c]),
         l \in UnderShared => c \in shared',
         l \in UnderPath => pathLock'[StripeOf[job[c].path]] = c,
         l \in UnderExclusive => exclusive' = c,
         l = "scan" => registryLock' = c
  PROVE  IInv'
<1>1. /\ job' = [d \in Procs |-> job'[d]] /\ TempKept(c)
      /\ \A d \in Procs : job'[d] = job[d]
      /\ Guarded(pc[c], job[c])
  BY Here
<1>2. job[c].cmd = "dehydrate" => job[c].wt \in Known'
  BY <1>1 DEF Guarded, Undisturbed
<1> QED
  BY <1>1, <1>2, Moves

LEMMA LockSharedStep ==
  ASSUME IInv, NEW c \in Procs, LockShared(c)
  PROVE  IInv'
<1>1. PICK from \in {"ingestLock", "lockShared", "publishLock"} :
        /\ pc[c] = from
        /\ Goto(c, CASE from = "ingestLock" -> "ingest"
                     [] from = "lockShared" -> "lockPath"
                     [] OTHER -> "publishPath")
  BY DEF LockShared, At
<1>2. /\ Undisturbed /\ shared' = shared \cup {c} /\ exclusive = None
      /\ UNCHANGED <<job, exclusive, pathLock, registryLock>>
  BY Untouched DEF LockShared, disk
<1>3. Fits(pc[c], job[c])
  BY Here
<1>4. OthersKeep(c)
  BY <1>2 DEF OthersKeep, IInv, Shape
<1>5. CASE from = "ingestLock"
  <2>1. Fits("ingest", job[c])
    BY <1>1, <1>3, <1>5 DEF Fits, OnPath, UnderShared, UnderPath, Labels, UnderExclusive,
       Trading, Nameless
  <2> QED
    BY <1>1, <1>2, <1>4, <1>5, <2>1, Locks DEF UnderPath, UnderExclusive, Trading
<1>6. CASE from = "lockShared"
  <2>1. Fits("lockPath", job[c])
    BY <1>1, <1>3, <1>6 DEF Fits, OnPath, UnderShared, UnderPath, Labels, UnderExclusive,
       Trading, Nameless
  <2> QED
    BY <1>1, <1>2, <1>4, <1>6, <2>1, Locks DEF UnderPath, UnderExclusive, Trading
<1>7. CASE from = "publishLock"
  <2>1. Fits("publishPath", job[c])
    BY <1>1, <1>3, <1>7 DEF Fits, OnPath, UnderShared, UnderPath, Labels, UnderExclusive,
       Trading, Nameless
  <2> QED
    BY <1>1, <1>2, <1>4, <1>7, <2>1, Locks DEF UnderPath, UnderExclusive, Trading
<1> QED
  BY <1>5, <1>6, <1>7

LEMMA LockPathStep ==
  ASSUME IInv, NEW c \in Procs, LockPath(c)
  PROVE  IInv'
<1> DEFINE s == StripeOf[IF pc[c] = "lockPath" THEN job[c].path ELSE job[c].wt]
<1>1. /\ Undisturbed /\ pc[c] \in {"lockPath", "publishPath"}
      /\ Goto(c, IF pc[c] = "lockPath" THEN "inspect" ELSE "publish")
      /\ pathLock[s] = None /\ pathLock' = [pathLock EXCEPT ![s] = c]
      /\ UNCHANGED <<job, shared, exclusive, registryLock>>
  BY Untouched DEF LockPath, At, disk
<1>2. Fits(pc[c], job[c]) /\ c \in shared
  BY <1>1, Here DEF Locked, UnderShared
<1> HIDE DEF s
<1>3. OthersKeep(c)
  <2>1. \A x \in Stripes, d \in Procs \ {c} : pathLock[x] = d => pathLock'[x] = d
    BY <1>1, Parsed
  <2>2. pathLock' = [x \in Stripes |-> pathLock'[x]]
    BY <1>1 DEF IInv, Shape
  <2> QED
    BY <1>1, <2>1, <2>2 DEF OthersKeep, IInv, Shape
<1>4. CASE pc[c] = "lockPath"
  <2>1. Fits("inspect", job[c])
    BY <1>2, <1>4 DEF Fits, OnPath, UnderShared, UnderPath, Labels, UnderExclusive,
       Trading, Nameless
  <2>2. s = StripeOf[job[c].path] /\ s \in Stripes
    BY <1>2, <1>4, LocalCacheAssumption DEF s, Fits, OnPath, UnderShared, UnderPath
  <2>3. pathLock'[s] = c
    BY <1>1, <2>2 DEF IInv, Shape
  <2> QED
    BY <1>1, <1>2, <1>3, <1>4, <2>1, <2>2, <2>3, Locks DEF UnderExclusive, Trading
<1>5. CASE pc[c] = "publishPath"
  <2>1. Fits("publish", job[c])
    BY <1>2, <1>5 DEF Fits, OnPath, UnderShared, UnderPath, Labels, UnderExclusive,
       Trading, Nameless
  <2> QED
    BY <1>1, <1>2, <1>3, <1>5, <2>1, Locks DEF UnderPath, UnderExclusive, Trading
<1> QED
  BY <1>1, <1>4, <1>5

LEMMA LockExclusiveStep ==
  ASSUME IInv, NEW c \in Procs, LockExclusive(c)
  PROVE  IInv'
<1>1. /\ Undisturbed /\ pc[c] = "lockExclusive" /\ Goto(c, "lockRegistry")
      /\ shared = {} /\ exclusive = None /\ exclusive' = c
      /\ UNCHANGED <<job, shared, pathLock, registryLock>>
  BY Untouched DEF LockExclusive, At, disk
<1>2. Fits(pc[c], job[c])
  BY Here
<1>3. Fits("lockRegistry", job[c])
  BY <1>1, <1>2 DEF Fits, OnPath, UnderShared, UnderPath, Labels, UnderExclusive, Trading
<1>4. OthersKeep(c)
  BY <1>1, Parsed DEF OthersKeep, IInv, Shape
<1> QED
  BY <1>1, <1>3, <1>4, Locks DEF UnderShared, UnderPath, UnderExclusive, Trading

LEMMA LockRegistryStep ==
  ASSUME IInv, NEW c \in Procs, LockRegistry(c)
  PROVE  IInv'
<1>1. /\ Undisturbed /\ pc[c] = "lockRegistry" /\ Goto(c, "scan")
      /\ registryLock = None /\ registryLock' = c
      /\ UNCHANGED <<job, shared, exclusive, pathLock>>
  BY Untouched DEF LockRegistry, At, disk
<1>2. Fits(pc[c], job[c]) /\ exclusive = c
  BY <1>1, Here DEF Locked, UnderExclusive
<1>3. Fits("scan", job[c])
  BY <1>1, <1>2 DEF Fits, OnPath, UnderShared, UnderPath, Labels, UnderExclusive, Trading
<1>4. OthersKeep(c)
  BY <1>1, Parsed DEF OthersKeep, IInv, Shape
<1> QED
  BY <1>1, <1>2, <1>3, <1>4, Locks DEF UnderShared, UnderPath, UnderExclusive, Trading

----------------------------------------------------------------------------
(* The steps that move files, or take copies out of the cache.             *)

(* Two processes that work on one path never do so at the same time, and   *)
(* nothing is collected meanwhile.                                         *)
LEMMA Excluded ==
  ASSUME IInv, NEW c \in Procs, NEW d \in Procs \ {c}
  PROVE  /\ pc[c] \in UnderPath /\ pc[d] \in UnderPath => job[c].path # job[d].path
         /\ pc[c] \in UnderShared => pc[d] \notin UnderExclusive
<1>1. Locked(c, pc[c], job[c]) /\ Locked(d, pc[d], job[d])
  BY Here
<1>2. pc[c] \in UnderShared => c \in shared
  BY <1>1 DEF Locked
<1>3. pc[d] \in UnderExclusive => exclusive = d
  BY <1>1 DEF Locked
<1> QED
  BY <1>1, <1>2, <1>3, Parsed DEF Locked, IInv, Shape

(* Files trade names: what was at the path is now in the temporary file.   *)
LEMMA ExchangeStep ==
  ASSUME IInv, NEW c \in Procs, Exchange(c)
  PROVE  IInv'
<1> DEFINE p == job[c].path  new == job[c].temp  old == file[p]
<1>1. /\ pc[c] = "swap"
      /\ UNCHANGED <<cache, recovery, registry, there, staged, saved, exposed, abandoned>>
  BY DEF Exchange, At, roots
<1>2. /\ Fits(pc[c], job[c]) /\ Locked(c, pc[c], job[c]) /\ Guarded(pc[c], job[c])
      /\ pc[c] \in OnPath /\ pc[c] \in UnderPath /\ pc[c] \in UnderShared
  BY <1>1, Here DEF OnPath, UnderShared, UnderPath
<1>3. p \in Paths /\ new \in Harmless /\ job[c].obj \in Objects /\ new \in Blobs \cup {None}
  BY <1>1, <1>2 DEF Fits, Trading, Nameless, JobRecords
<1>4. CASE old = None
  <2>1. Fail(c) /\ UNCHANGED <<file, held>>
    BY <1>4 DEF Exchange
  <2>2. Undisturbed
    BY <1>1, <2>1 DEF Undisturbed, Known, IInv, Shape
  <2> QED
    BY <1>1, <2>1, <2>2, FailsHarmless DEF Trading
<1>5. CASE old # None
  <2>1. /\ file' = [file EXCEPT ![p] = new] /\ held' = [held EXCEPT ![p] = None]
        /\ Goto(c, "displaced") /\ Set(c, "temp", old) /\ UNCHANGED locks
    BY <1>5 DEF Exchange
  <2>2. /\ file'[p] = new /\ held'[p] = None
        /\ \A q \in Paths : q # p => file'[q] = file[q] /\ held'[q] = held[q]
        /\ \A q \in Paths : held'[q] # None => q # p
        /\ file' \in [Paths -> Blobs \cup {None}] /\ held' = [q \in Paths |-> held'[q]]
        /\ old \in Blobs
    BY <1>3, <1>5, <2>1 DEF IInv, Shape
  <2>3. job' = [job EXCEPT ![c] = [job[c] EXCEPT !["temp"] = old]]
    BY <2>1 DEF Set
  <2>4. /\ job' = [d \in Procs |-> job'[d]] /\ \A d \in Procs \ {c} : job'[d] = job[d]
        /\ job'[c] = [job[c] EXCEPT !.temp = old]
    BY <2>3 DEF IInv, Shape
  <2>5. pc'[c] = "displaced" /\ Alone(c)
    BY <2>1, <2>4, Goes DEF IInv, Alone
  <2>6. /\ job'[c] \in JobRecords /\ job'[c].cmd = job[c].cmd /\ job'[c].path = p
        /\ job'[c].obj = job[c].obj /\ job'[c].todo = job[c].todo /\ job'[c].wt = job[c].wt
        /\ job'[c].temp = old
    BY <1>2, <2>2, <2>4 DEF Fits, JobRecords
  <2>7. OthersKeep(c) /\ UNCHANGED <<shared, exclusive, pathLock, registryLock>>
    BY <2>1, LocksStay
  <2> HIDE DEF p, new, old
  <2>8. Shape'
    BY <1>1, <2>2, <2>5, <2>7 DEF IInv, Shape, Alone
  <2>9. Proc(c)'
    <3>1. Fits("displaced", job'[c])
      BY <1>1, <1>2, <2>2, <2>6 DEF p, Fits, OnPath, UnderShared, UnderPath, Labels,
         UnderExclusive, Trading, Nameless
    <3>2. Locked(c, pc[c], job[c])'
      BY <1>1, <1>2, <2>5, <2>6, <2>7 DEF p, Locked, UnderShared, UnderPath, UnderExclusive
    <3>3. Guarded(pc[c], job[c])'
      BY <1>1, <1>2, <1>3, <2>2, <2>5, <2>6 DEF Guarded, Trading, Known
    <3> QED
      BY <2>5, <3>1, <3>2, <3>3 DEF Proc, Fits
  <2>10. ASSUME NEW d \in Procs \ {c} PROVE Proc(d)'
    <3>1. /\ pc'[d] = pc[d] /\ job'[d] = job[d] /\ Fits(pc[d], job[d])
          /\ Guarded(pc[d], job[d]) /\ Locked(d, pc[d], job[d])'
      BY <2>5, <2>7, OthersStand
    <3>2. pc[d] # "collect"
      BY <1>2, Excluded DEF UnderExclusive
    <3>3. pc[d] \in Trading => job[d].path \in Paths /\ job[d].path # p
      BY <1>2, <3>1, Excluded DEF p, Fits, Trading, OnPath, UnderShared, UnderPath
    <3>4. Guarded(pc[d], job[d])'
      BY <1>1, <2>2, <3>1, <3>2, <3>3 DEF Guarded, Known
    <3> QED
      BY <3>1, <3>4 DEF Proc, Fits
  <2>11. HeldInv'
    BY <1>1, <2>2 DEF IInv, HeldInv, Known, IsEmpty
  <2>12. SaveInv'
    <3> SUFFICES ASSUME NEW q \in Paths, saved[q] \notin Harmless, q \notin exposed
                 PROVE  \/ file'[q] = saved[q] \/ <<q, saved[q]>> \in recovery
                        \/ \E d \in Procs : job'[d].path = q /\ job'[d].temp = saved[q]
      BY <1>1 DEF SaveInv, Harmless
    <3>1. \/ file[q] = saved[q] \/ <<q, saved[q]>> \in recovery
          \/ \E d \in Procs : job[d].path = q /\ job[d].temp = saved[q]
      BY DEF IInv, SaveInv
    <3>2. CASE file[q] = saved[q]
      BY <2>2, <2>6, <3>2 DEF old
    <3>3. ASSUME NEW d \in Procs, job[d].path = q, job[d].temp = saved[q]
          PROVE  \E e \in Procs : job'[e].path = q /\ job'[e].temp = saved[q]
      BY <1>3, <2>4, <3>3 DEF new
    <3> QED
      BY <3>1, <3>2, <3>3
  <2> QED
    BY <2>8, <2>9, <2>10, <2>11, <2>12 DEF IInv, ProcInv
<1> QED
  BY <1>4, <1>5

(* An exchange that is to be undone.                                       *)
LEMMA RollingBack ==
  ASSUME IInv, Undisturbed, NEW c \in Procs, pc[c] = "displaced", Goto(c, "rollback"),
         UNCHANGED <<job, locks>>
  PROVE  IInv'
<1>1. /\ job' = [d \in Procs |-> job'[d]] /\ TempKept(c)
      /\ \A d \in Procs : job'[d] = job[d]
      /\ Fits(pc[c], job[c]) /\ Locked(c, pc[c], job[c]) /\ Guarded(pc[c], job[c])
  BY Here
<1>2. pc'[c] = "rollback" /\ Alone(c)
  BY <1>1, Goes DEF IInv, Alone
<1>3. OthersKeep(c) /\ UNCHANGED <<shared, exclusive, pathLock, registryLock>>
  BY LocksStay
<1>4. Fits("rollback", job[c])
  BY <1>1 DEF Fits, OnPath, UnderShared, UnderPath, Labels, UnderExclusive, Trading, Nameless
<1>5. Locked(c, pc[c], job[c])'
  BY <1>1, <1>2, <1>3 DEF Locked, UnderShared, UnderPath, UnderExclusive
<1>6. Guarded(pc[c], job[c])'
  BY <1>1, <1>2 DEF Guarded, Trading, Undisturbed, Harmless
<1>7. Proc(c)'
  BY <1>1, <1>2, <1>4, <1>5, <1>6 DEF Proc, Fits
<1> QED
  BY <1>2, <1>3, <1>7, Quiet, <1>1

(* What was displaced is what was to be replaced, or it is put back.       *)
LEMMA VerifyDisplacedStep ==
  ASSUME IInv, NEW c \in Procs, VerifyDisplaced(c)
  PROVE  IInv'
<1> DEFINE p == job[c].path  o == job[c].obj  old == job[c].temp
<1>1. /\ pc[c] = "displaced"
      /\ UNCHANGED <<file, cache, recovery, registry, there, staged, saved, exposed,
                     abandoned>>
      /\ UNCHANGED locks
  BY DEF VerifyDisplaced, At, roots, disk
<1>2. /\ Fits(pc[c], job[c]) /\ Locked(c, pc[c], job[c]) /\ Guarded(pc[c], job[c])
      /\ pc[c] \in OnPath /\ pc[c] \in UnderPath /\ pc[c] \in UnderShared
  BY <1>1, Here DEF OnPath, UnderShared, UnderPath
<1>3. /\ p \in Paths /\ o \in Objects /\ (job[c].cmd = "dehydrate" => WorktreeOf[p] = job[c].wt)
      /\ job[c].cmd = "dehydrate" => job[c].wt \in Known /\ cache[o] \in Safe
  BY <1>1, <1>2 DEF Fits, Nameless, Guarded
<1>4. OthersKeep(c) /\ UNCHANGED <<shared, exclusive, pathLock, registryLock>>
  BY <1>1, LocksStay
<1>5. CASE Replaceable(c)
  <2> DEFINE left == /\ job[c].cmd = "dehydrate" /\ file[p] = Pointer[o]
                     /\ ~IsEmpty(o) /\ p \in staged
  <2>1. /\ Set(c, "temp", None) /\ Goto(c, "reread")
        /\ held' = IF left THEN [held EXCEPT ![p] = o] ELSE held
    BY <1>5 DEF VerifyDisplaced
  <2>2. old \in Harmless
    BY <1>3, <1>5, Parsed DEF Replaceable, Harmless
  <2>3. job' = [job EXCEPT ![c] = [job[c] EXCEPT !["temp"] = None]]
    BY <2>1 DEF Set
  <2>4. /\ job' = [d \in Procs |-> job'[d]] /\ \A d \in Procs \ {c} : job'[d] = job[d]
        /\ job'[c] = [job[c] EXCEPT !.temp = None]
    BY <2>3 DEF IInv, Shape
  <2>5. pc'[c] = "reread" /\ Alone(c)
    BY <2>1, <2>4, Goes DEF IInv, Alone
  <2>6. /\ job'[c] \in JobRecords /\ job'[c].cmd = job[c].cmd /\ job'[c].path = p
        /\ job'[c].obj = o /\ job'[c].todo = job[c].todo /\ job'[c].wt = job[c].wt
        /\ job'[c].temp = None
    BY <1>2, <2>4 DEF Fits, JobRecords
  <2>7. /\ held' = [q \in Paths |-> held'[q]]
        /\ \A q \in Paths : q # p => held'[q] = held[q]
        /\ held'[p] = IF left THEN o ELSE held[p]
    BY <1>3, <2>1 DEF IInv, Shape
  <2>8. left => /\ job[c].cmd = "dehydrate" /\ file[p] = Pointer[o]
                /\ ~IsEmpty(o) /\ p \in staged
    OBVIOUS
  <2> HIDE DEF p, o, old, left
  <2>9. Shape'
    BY <1>1, <1>4, <2>5, <2>7 DEF IInv, Shape, Alone
  <2>10. Proc(c)'
    <3>1. Fits("reread", job'[c])
      BY <1>1, <1>2, <1>3, <2>6 DEF p, o, Fits, OnPath, UnderShared, UnderPath, Labels,
         UnderExclusive, Trading, Harmless
    <3>2. Locked(c, pc[c], job[c])'
      BY <1>1, <1>2, <1>4, <2>5, <2>6 DEF p, Locked, UnderShared, UnderPath, UnderExclusive
    <3>3. Guarded(pc[c], job[c])'
      BY <1>1, <1>3, <2>5, <2>6 DEF Guarded, Trading, Known
    <3> QED
      BY <2>5, <3>1, <3>2, <3>3 DEF Proc, Fits
  <2>11. ASSUME NEW d \in Procs \ {c} PROVE Proc(d)'
    <3>1. /\ pc'[d] = pc[d] /\ job'[d] = job[d] /\ Fits(pc[d], job[d])
          /\ Guarded(pc[d], job[d]) /\ Locked(d, pc[d], job[d])'
      BY <1>4, <2>5, OthersStand
    <3>2. pc[d] # "collect"
      BY <1>2, Excluded DEF UnderExclusive
    <3>3. pc[d] \in Trading => job[d].path \in Paths /\ job[d].path # p
      BY <1>2, <3>1, Excluded DEF p, Fits, Trading, OnPath, UnderShared, UnderPath
    <3>4. Guarded(pc[d], job[d])'
      BY <1>1, <2>7, <3>1, <3>2, <3>3 DEF Guarded, Known
    <3> QED
      BY <3>1, <3>4 DEF Proc, Fits
  <2>12. HeldInv'
    <3> SUFFICES ASSUME NEW q \in Paths, held'[q] # None
                 PROVE  /\ held'[q] \in Objects /\ ~IsEmpty(held'[q])
                        /\ file[q] = Pointer[held'[q]] /\ WorktreeOf[q] \in Known
                        /\ q \in staged
                        /\ WorktreeOf[q] \notin abandoned
                             => cache[held'[q]] \in Safe
      BY <1>1 DEF HeldInv, Known, IsEmpty
    <3>1. CASE q = p /\ left
      BY <1>3, <2>7, <2>8, <3>1
    <3>2. CASE ~ (q = p /\ left)
      <4>1. held'[q] = held[q]
        BY <2>7, <3>2
      <4> QED
        BY <4>1 DEF IInv, HeldInv
    <3> QED
      BY <3>1, <3>2
  <2>13. SaveInv'
    <3> SUFFICES ASSUME NEW q \in Paths, saved[q] \notin Harmless, q \notin exposed
                 PROVE  \/ file[q] = saved[q] \/ <<q, saved[q]>> \in recovery
                        \/ \E d \in Procs : job'[d].path = q /\ job'[d].temp = saved[q]
      BY <1>1 DEF SaveInv, Harmless
    <3>1. \/ file[q] = saved[q] \/ <<q, saved[q]>> \in recovery
          \/ \E d \in Procs : job[d].path = q /\ job[d].temp = saved[q]
      BY DEF IInv, SaveInv
    <3>2. ASSUME NEW d \in Procs, job[d].path = q, job[d].temp = saved[q]
          PROVE  job'[d].path = q /\ job'[d].temp = saved[q]
      BY <2>2, <2>4, <3>2 DEF old
    <3> QED
      BY <3>1, <3>2
  <2> QED
    BY <2>9, <2>10, <2>11, <2>12, <2>13 DEF IInv, ProcInv
<1>6. CASE ~ Replaceable(c)
  <2>1. Goto(c, "rollback") /\ UNCHANGED <<job, held>>
    BY <1>6 DEF VerifyDisplaced
  <2>2. Undisturbed
    BY <1>1, <2>1 DEF Undisturbed, Known, IInv, Shape
  <2> QED
    BY <1>1, <2>1, <2>2, RollingBack
<1> QED
  BY <1>5, <1>6

(* What was displaced goes back to its path, or stays beside it.           *)
LEMMA RollbackStep ==
  ASSUME IInv, NEW c \in Procs, Rollback(c)
  PROVE  IInv'
<1> DEFINE p == job[c].path  old == job[c].temp
<1>1. /\ pc[c] = "rollback" /\ Fail(c)
      /\ UNCHANGED <<cache, registry, there, staged,
                     held, saved, exposed, abandoned>>
  BY DEF Rollback, At, roots, history
<1>2. /\ Fits(pc[c], job[c]) /\ Guarded(pc[c], job[c])
      /\ pc[c] \in OnPath /\ pc[c] \in UnderPath /\ pc[c] \in UnderShared
  BY <1>1, Here DEF OnPath, UnderShared, UnderPath
<1>3. /\ p \in Paths /\ old \in Blobs \cup {None} /\ held[p] = None
      /\ p \notin exposed => file[p] \in Harmless
  BY <1>1, <1>2 DEF Fits, JobRecords, Guarded, Trading
<1>4. CASE file[p] = None
  <2>1. recovery' = recovery \cup {<<p, old>>} /\ UNCHANGED file
    BY <1>4 DEF Rollback
  <2>2. Undisturbed
    BY <1>1, <2>1 DEF Undisturbed, Known, IInv, Shape
  <2> QED
    BY <1>1, <2>1, <2>2, Fails
<1>5. CASE file[p] # None
  <2>1. file' = [file EXCEPT ![p] = old] /\ UNCHANGED recovery
    BY <1>5 DEF Rollback
  <2>2. /\ file'[p] = old /\ \A q \in Paths : q # p => file'[q] = file[q]
        /\ file' \in [Paths -> Blobs \cup {None}]
    BY <1>3, <2>1 DEF IInv, Shape
  <2>3. Alone(c) /\ OthersKeep(c) /\ Proc(c)'
    BY <1>1, Failed
  <2> HIDE DEF p, old
  <2>4. Shape'
    BY <1>1, <2>2, <2>3 DEF IInv, Shape, Alone, OthersKeep
  <2>5. ASSUME NEW d \in Procs \ {c} PROVE Proc(d)'
    <3>1. /\ pc'[d] = pc[d] /\ job'[d] = job[d] /\ Fits(pc[d], job[d])
          /\ Guarded(pc[d], job[d]) /\ Locked(d, pc[d], job[d])'
      BY <2>3, OthersStand
    <3>2. pc[d] \in Trading => job[d].path \in Paths /\ job[d].path # p
      BY <1>2, <3>1, Excluded DEF p, Fits, Trading, OnPath, UnderShared, UnderPath
    <3>3. Guarded(pc[d], job[d])'
      BY <1>1, <2>2, <3>1, <3>2 DEF Guarded, Known
    <3> QED
      BY <3>1, <3>3 DEF Proc, Fits
  <2>6. HeldInv'
    BY <1>1, <1>3, <2>2 DEF IInv, HeldInv, Known, IsEmpty
  <2>7. SaveInv'
    <3> SUFFICES ASSUME NEW q \in Paths, saved[q] \notin Harmless, q \notin exposed
                 PROVE  \/ file'[q] = saved[q] \/ <<q, saved[q]>> \in recovery
                        \/ \E d \in Procs : job'[d].path = q /\ job'[d].temp = saved[q]
      BY <1>1, <2>1 DEF SaveInv, Harmless
    <3>1. \/ file[q] = saved[q] \/ <<q, saved[q]>> \in recovery
          \/ \E d \in Procs : job[d].path = q /\ job[d].temp = saved[q]
      BY DEF IInv, SaveInv
    <3>2. CASE file[q] = saved[q]
      BY <1>3, <2>2, <3>2
    <3>3. ASSUME NEW d \in Procs, job[d].path = q, job[d].temp = saved[q]
          PROVE  \/ file'[q] = saved[q]
                 \/ job'[d].path = q /\ job'[d].temp = saved[q]
      <4>1. CASE d = c
        BY <2>2, <3>3, <4>1 DEF p, old
      <4>2. CASE d # c
        BY <2>3, <3>3, <4>2 DEF Alone
      <4> QED
        BY <4>1, <4>2
    <3> QED
      BY <3>1, <3>2, <3>3
  <2> QED
    BY <2>3, <2>4, <2>5, <2>6, <2>7 DEF IInv, ProcInv
<1> QED
  BY <1>4, <1>5

(* What a collection takes is named by no pointer that it knows of.        *)
LEMMA GarbageIsUnheld ==
  ASSUME IInv, NEW c \in Procs, NEW p \in Paths, held[p] # None,
         WorktreeOf[p] \notin abandoned,
         job[c].cmd = "gcPrune" => WorktreeOf[p] \notin registry \ Present
  PROVE  held[p] \notin Garbage(c)
<1>1. /\ held[p] \in Objects /\ ~IsEmpty(held[p]) /\ file[p] = Pointer[held[p]]
      /\ WorktreeOf[p] \in registry /\ p \in staged
  BY DEF IInv, HeldInv, Known
<1>2. PointerAt(p) = held[p]
  <2>1. Parse(file[p]) = held[p]
    BY <1>1, Parsed
  <2> QED
    BY <1>1, <2>1 DEF PointerAt
<1>3. Garbage(c) # {} => WorktreeOf[p] \in Present
  BY <1>1 DEF Garbage
<1>4. WorktreeOf[p] \in Present => held[p] \in Referenced(Present)
  BY <1>1, <1>2 DEF Referenced
<1> QED
  BY <1>3, <1>4 DEF Garbage

LEMMA ScanStep ==
  ASSUME IInv, NEW c \in Procs, Scan(c)
  PROVE  IInv'
<1> DEFINE took == IF job[c].cmd = "gcPrune" THEN registry \ Present ELSE {}
<1>1. /\ pc[c] = "scan"
      /\ UNCHANGED <<file, cache, store, recovery, there, staged, held, saved, exposed>>
      /\ abandoned' = abandoned \cup took /\ registry' = registry \ took
  <2>1. job[c].cmd = "gcPrune" => /\ registry' = Present
                                  /\ abandoned' = abandoned \cup (registry \ Present)
    BY DEF Scan, SaveRegistry
  <2>2. job[c].cmd # "gcPrune" => UNCHANGED <<registry, abandoned>>
    BY DEF Scan
  <2>3. Present = registry \ (registry \ Present)
    BY DEF Present
  <2> QED
    BY <2>1, <2>2, <2>3 DEF Scan, At, disk
<1>2. Fits(pc[c], job[c]) /\ Locked(c, pc[c], job[c]) /\ job[c].temp \in Harmless
  BY <1>1, Here DEF Fits, Trading
<1>3. job[c].cmd = "gcPrune" => took = registry \ Present
  OBVIOUS
<1> HIDE DEF took
<1>4. Undisturbed
  BY <1>1 DEF Undisturbed, Known, IInv, Shape
<1>5. CASE Exit(c)
  BY <1>2, <1>4, <1>5, Exits
<1>6. CASE Goto(c, "collect") /\ Set(c, "todo", Garbage(c)) /\ UNCHANGED locks
  <2> DEFINE T == Garbage(c)
  <2>1. T \in SUBSET Objects
    BY DEF Garbage, Cached
  <2>2. \A p \in Paths : held[p] # None /\ WorktreeOf[p] \notin abandoned' => held[p] \notin T
    BY <1>1, <1>3, GarbageIsUnheld
  <2>3. Set(c, "todo", T)
    BY <1>6
  <2> HIDE DEF T
  <2>4. job' = [job EXCEPT ![c] = [job[c] EXCEPT !["todo"] = T]]
    BY <2>3 DEF Set
  <2>5. /\ job' = [d \in Procs |-> job'[d]] /\ \A d \in Procs \ {c} : job'[d] = job[d]
        /\ job'[c] = [job[c] EXCEPT !.todo = T]
    BY <2>4 DEF IInv, Shape
  <2>6. /\ job'[c] \in JobRecords /\ job'[c].cmd = job[c].cmd /\ job'[c].temp = job[c].temp
        /\ job'[c].todo = T
    BY <1>2, <2>1, <2>5 DEF Fits, JobRecords
  <2>7. pc'[c] = "collect" /\ Alone(c)
    BY <1>6, <2>5, Goes DEF IInv, Alone
  <2>8. OthersKeep(c) /\ UNCHANGED <<shared, exclusive, pathLock, registryLock>>
    BY <1>6, LocksStay
  <2>9. Fits("collect", job'[c])
    BY <1>1, <1>2, <2>6 DEF Fits, OnPath, UnderShared, UnderPath, Labels, UnderExclusive, Trading
  <2>10. Locked(c, pc[c], job[c])'
    BY <1>1, <1>2, <2>7, <2>8 DEF Locked, UnderShared, UnderPath, UnderExclusive
  <2>11. job'[c].cmd # "dehydrate"
    BY <2>9 DEF Fits, UnderExclusive
  <2>12. Guarded(pc[c], job[c])'
    BY <1>1, <2>2, <2>6, <2>7, <2>11 DEF Guarded, Trading
  <2>13. Proc(c)'
    BY <2>7, <2>9, <2>10, <2>12 DEF Proc, Fits
  <2> QED
    BY <1>2, <1>4, <2>7, <2>8, <2>13, Quiet DEF TempKept
<1> QED
  BY <1>5, <1>6 DEF Scan

LEMMA CollectStep ==
  ASSUME IInv, NEW c \in Procs, Collect(c)
  PROVE  IInv'
<1>1. /\ pc[c] = "collect"
      /\ UNCHANGED <<file, recovery, registry, there, staged,
                     held, saved, exposed, abandoned>>
  BY DEF Collect, At, roots, history
<1>2. /\ Fits(pc[c], job[c]) /\ Locked(c, pc[c], job[c]) /\ Guarded(pc[c], job[c])
      /\ job[c].temp \in Harmless
  BY <1>1, Here DEF Fits, Trading
<1>3. CASE job[c].todo = {}
  <2>1. Exit(c) /\ UNCHANGED cache
    BY <1>3 DEF Collect
  <2>2. Undisturbed
    BY <1>1, <2>1 DEF Undisturbed, Known, IInv, Shape
  <2> QED
    BY <1>2, <2>1, <2>2, Exits
<1>4. ASSUME NEW o \in job[c].todo, cache' = [cache EXCEPT ![o] = "none"],
             Set(c, "todo", job[c].todo \ {o}), UNCHANGED <<pc, locks>>
      PROVE  IInv'
  <2> DEFINE rest == job[c].todo \ {o}
  <2>1. /\ cache' = [x \in Objects |-> cache'[x]]
        /\ \A x \in Objects : x # o => cache'[x] = cache[x]
    BY <1>4 DEF IInv, Shape
  <2>2. rest \subseteq job[c].todo
    OBVIOUS
  <2>3. Set(c, "todo", rest)
    BY <1>4
  <2> HIDE DEF rest
  <2>4. job' = [job EXCEPT ![c] = [job[c] EXCEPT !["todo"] = rest]]
    BY <2>3 DEF Set
  <2>5. /\ job' = [d \in Procs |-> job'[d]] /\ \A d \in Procs \ {c} : job'[d] = job[d]
        /\ job'[c] = [job[c] EXCEPT !.todo = rest]
    BY <2>4 DEF IInv, Shape
  <2>6. /\ job'[c] \in JobRecords /\ job'[c].cmd = job[c].cmd /\ job'[c].temp = job[c].temp
        /\ job'[c].path = job[c].path /\ job'[c].todo = rest
    <3>1. job[c] \in JobRecords /\ rest \in SUBSET (Objects \cup Pairs)
      BY <1>2, <2>2 DEF Fits, JobRecords
    <3> QED
      BY <2>5, <3>1 DEF JobRecords
  <2>7. Alone(c) /\ pc'[c] = "collect"
    BY <1>1, <1>4, <2>5 DEF IInv, Shape, Alone
  <2>8. OthersKeep(c) /\ UNCHANGED <<shared, exclusive, pathLock, registryLock>>
    BY <1>4, LocksStay
  <2>9. Shape'
    BY <1>1, <2>1, <2>7, <2>8 DEF IInv, Shape, Alone
  <2>10. Proc(c)'
    <3>1. Fits("collect", job'[c])
      BY <1>1, <1>2, <2>6 DEF Fits, OnPath, UnderShared, UnderPath, Labels, UnderExclusive,
         Trading
    <3>2. Locked(c, pc[c], job[c])'
      BY <1>1, <1>2, <2>7, <2>8 DEF Locked, UnderShared, UnderPath, UnderExclusive
    <3>3. job'[c].cmd # "dehydrate"
      BY <3>1 DEF Fits, UnderExclusive
    <3>4. Guarded(pc[c], job[c])'
      BY <1>1, <1>2, <2>2, <2>6, <2>7, <3>3 DEF Guarded, Trading
    <3> QED
      BY <2>7, <3>1, <3>2, <3>4 DEF Proc, Fits
  <2>11. ASSUME NEW d \in Procs \ {c} PROVE Proc(d)'
    <3>1. /\ pc'[d] = pc[d] /\ job'[d] = job[d] /\ Fits(pc[d], job[d])
          /\ Guarded(pc[d], job[d]) /\ Locked(d, pc[d], job[d])'
      BY <2>7, <2>8, OthersStand
    <3>2. pc[d] \notin {"swap", "displaced"}
      BY <1>1, Excluded DEF UnderExclusive, UnderShared, UnderPath
    <3>3. Guarded(pc[d], job[d])'
      BY <1>1, <3>1, <3>2 DEF Guarded, Known
    <3> QED
      BY <3>1, <3>3 DEF Proc, Fits
  <2>12. HeldInv'
    <3> SUFFICES ASSUME NEW q \in Paths, held[q] # None
                 PROVE  /\ held[q] \in Objects /\ ~IsEmpty(held[q])
                        /\ file[q] = Pointer[held[q]] /\ WorktreeOf[q] \in Known
                        /\ q \in staged
                        /\ WorktreeOf[q] \notin abandoned
                             => cache'[held[q]] \in Safe
      BY <1>1 DEF HeldInv, Known, IsEmpty
    <3>1. WorktreeOf[q] \notin abandoned => held[q] # o
      BY <1>1, <1>2, <1>4 DEF Guarded
    <3> QED
      BY <2>1, <3>1 DEF IInv, HeldInv
  <2>13. SaveInv'
    <3> SUFFICES ASSUME NEW q \in Paths, saved[q] \notin Harmless, q \notin exposed
                 PROVE  \/ file[q] = saved[q] \/ <<q, saved[q]>> \in recovery
                        \/ \E d \in Procs : job'[d].path = q /\ job'[d].temp = saved[q]
      BY <1>1 DEF SaveInv, Harmless
    <3>1. \A d \in Procs : job'[d].path = job[d].path /\ job'[d].temp = job[d].temp
      BY <2>5, <2>6
    <3> QED
      BY <3>1 DEF IInv, SaveInv
  <2> QED
    BY <2>9, <2>10, <2>11, <2>12, <2>13 DEF IInv, ProcInv
<1> QED
  BY <1>3, <1>4 DEF Collect

(* The user saves a file or deletes it.                                    *)
LEMMA UserStep ==
  ASSUME IInv, NEW p \in Paths, NEW b \in Blobs \cup {None}, UserWrites(p, b)
  PROVE  IInv'
<1>1. /\ UNCHANGED <<cache, recovery, registry, there, staged, abandoned>>
      /\ UNCHANGED <<pc, job, shared, exclusive, pathLock, registryLock>>
      /\ file' = [file EXCEPT ![p] = b] /\ saved' = [saved EXCEPT ![p] = b]
      /\ held' = [held EXCEPT ![p] = None]
      /\ exposed' = IF Undecided(p) THEN exposed \cup {p} ELSE exposed \ {p}
  BY DEF UserWrites, roots, locks
<1>2. /\ file'[p] = b /\ saved'[p] = b /\ held'[p] = None
      /\ \A q \in Paths : q # p => /\ file'[q] = file[q] /\ held'[q] = held[q]
                                   /\ saved'[q] = saved[q]
                                   /\ (q \in exposed' <=> q \in exposed)
      /\ file' \in [Paths -> Blobs \cup {None}]
      /\ held' = [q \in Paths |-> held'[q]] /\ saved' = [q \in Paths |-> saved'[q]]
  BY <1>1 DEF IInv, Shape
<1>3. Shape'
  BY <1>1, <1>2 DEF IInv, Shape
<1>4. ASSUME NEW d \in Procs PROVE Proc(d)'
  <2>1. Fits(pc[d], job[d]) /\ Locked(d, pc[d], job[d]) /\ Guarded(pc[d], job[d])
    BY Here
  <2>2. Locked(d, pc[d], job[d])'
    BY <1>1, <2>1 DEF Locked
  <2>3. pc[d] \in Trading => job[d].path \in Paths
    BY <2>1 DEF Fits, Trading, OnPath, UnderShared, UnderPath
  <2>4. pc[d] \in Trading /\ job[d].path = p => p \in exposed'
    BY <1>1 DEF Undecided, Trading
  <2>5. \A q \in Paths : held'[q] # None => held'[q] = held[q]
    BY <1>2
  <2>6. Guarded(pc[d], job[d])'
    BY <1>1, <1>2, <2>1, <2>3, <2>4, <2>5 DEF Guarded, Known, Harmless
  <2> QED
    BY <1>1, <2>1, <2>2, <2>6 DEF Proc, Fits
<1>5. HeldInv'
  BY <1>1, <1>2 DEF IInv, HeldInv, Known, IsEmpty
<1>6. SaveInv'
  <2> SUFFICES ASSUME NEW q \in Paths, saved'[q] \notin Harmless, q \notin exposed'
               PROVE  \/ file'[q] = saved'[q] \/ <<q, saved'[q]>> \in recovery
                      \/ \E d \in Procs : job[d].path = q /\ job[d].temp = saved'[q]
    BY <1>1 DEF SaveInv, Harmless
  <2>1. CASE q = p
    BY <1>2, <2>1
  <2>2. CASE q # p
    BY <1>2, <2>2 DEF IInv, SaveInv
  <2> QED
    BY <2>1, <2>2
<1> QED
  BY <1>3, <1>4, <1>5, <1>6 DEF IInv, ProcInv

(* The user changes what the index says of a path.                         *)
LEMMA StagingStep ==
  ASSUME IInv, NEW p \in Paths, Unstage(p) \/ Stage(p)
  PROVE  IInv'
<1>1. /\ UNCHANGED <<file, cache, recovery, registry, there, saved, exposed, abandoned>>
      /\ UNCHANGED <<pc, job, shared, exclusive, pathLock, registryLock>>
  BY DEF Unstage, Stage, disk, history, locks
<1>2. /\ held' = [q \in Paths |-> held'[q]]
      /\ \A q \in Paths : held'[q] # None => /\ held'[q] = held[q]
                                             /\ q \in staged => q \in staged'
  BY DEF Unstage, Stage, history, IInv, Shape
<1>3. Shape' /\ HeldInv' /\ SaveInv'
  BY <1>1, <1>2 DEF IInv, Shape, HeldInv, SaveInv, Known, IsEmpty, Harmless
<1>4. ASSUME NEW d \in Procs PROVE Proc(d)'
  <2>1. Fits(pc[d], job[d]) /\ Locked(d, pc[d], job[d]) /\ Guarded(pc[d], job[d])
    BY Here
  <2>2. pc[d] \in Trading => job[d].path \in Paths
    BY <2>1 DEF Fits, Trading, OnPath, UnderShared, UnderPath
  <2>3. Locked(d, pc[d], job[d])' /\ Guarded(pc[d], job[d])'
    BY <1>1, <1>2, <2>1, <2>2 DEF Locked, Guarded, Known, Harmless
  <2> QED
    BY <1>1, <2>1, <2>3 DEF Proc, Fits
<1> QED
  BY <1>3, <1>4 DEF IInv, ProcInv

LEMMA MoveStep ==
  ASSUME IInv, NEW w \in Worktrees, Move(w)
  PROVE  IInv'
<1>1. /\ UNCHANGED <<file, cache, recovery, registry, staged, held, saved, exposed,
                     abandoned>>
      /\ UNCHANGED <<pc, job, shared, exclusive, pathLock, registryLock>>
      /\ there' = IF w \in there THEN there \ {w} ELSE there \cup {w}
  BY DEF Move, disk, history, locks
<1>2. Shape' /\ HeldInv' /\ SaveInv'
  BY <1>1 DEF IInv, Shape, HeldInv, SaveInv, Known, IsEmpty, Harmless
<1>3. ASSUME NEW d \in Procs PROVE Proc(d)'
  <2>1. Fits(pc[d], job[d]) /\ Locked(d, pc[d], job[d]) /\ Guarded(pc[d], job[d])
    BY Here
  <2>2. Locked(d, pc[d], job[d])' /\ Guarded(pc[d], job[d])'
    BY <1>1, <2>1 DEF Locked, Guarded, Known, Harmless
  <2> QED
    BY <1>1, <2>1, <2>2 DEF Proc, Fits
<1> QED
  BY <1>2, <1>3 DEF IInv, ProcInv

(* The power goes: every file stays, and so does what was synced, unless   *)
(* it is lost with its directory.                                          *)
LEMMA PowerLossStep ==
  ASSUME IInv, PowerLoss
  PROVE  IInv'
<1> DEFINE copy(x) == (IF x[1] = None THEN cache ELSE store[x[1]])[x[2]]
           atRisk == {x \in (Worktrees \cup {None}) \X Objects :
                        copy(x) \in {"volatile", "synced"}}
<1>1. /\ UNCHANGED <<file, registry, there, staged, saved, exposed, abandoned>>
      /\ recovery' = recovery \cup UNION {Kept(c) : c \in Procs}
      /\ pc' = [c \in Procs |-> "idle"] /\ job' = [c \in Procs |-> NoJob]
      /\ shared' = {} /\ pathLock' = [s \in Stripes |-> None]
      /\ held' = [p \in Paths |-> IF held[p] # None /\ cache[held[p]] = "synced"
                                     /\ cache'[held[p]] = "none" THEN None ELSE held[p]]
  BY DEF PowerLoss, roots
<1>2. PICK fate \in [atRisk -> {"none", "durable", "torn"}] :
        /\ \A x \in atRisk : copy(x) = "synced" => fate[x] # "torn"
        /\ cache' = [o \in Objects |-> IF <<None, o>> \in atRisk THEN fate[<<None, o>>]
                                       ELSE cache[o]]
  BY DEF PowerLoss
<1>3. \A o \in Objects : /\ copy(<<None, o>>) = cache[o]
                         /\ <<None, o>> \in atRisk => cache[o] \in {"volatile", "synced"}
  OBVIOUS
<1> HIDE DEF atRisk, copy
<1>4. /\ cache' = [o \in Objects |-> cache'[o]]
      /\ \A o \in Objects : cache[o] \in Safe =>
           cache'[o] \in Safe \/ (cache[o] = "synced" /\ cache'[o] = "none")
  <2> SUFFICES ASSUME NEW o \in Objects, cache[o] \in Safe, cache'[o] \notin Safe
               PROVE  cache[o] = "synced" /\ cache'[o] = "none"
    BY <1>2
  <2>1. <<None, o>> \in atRisk /\ cache[o] = "synced"
    BY <1>2, <1>3 DEF Safe
  <2>2. cache'[o] = fate[<<None, o>>] /\ fate[<<None, o>>] # "torn"
    BY <1>2, <1>3, <2>1
  <2>3. cache'[o] = "none"
    BY <1>2, <2>1, <2>2 DEF Safe
  <2> QED
    BY <2>1, <2>3
<1>5. Shape'
  BY <1>1, <1>4 DEF IInv, Shape
<1>6. ASSUME NEW d \in Procs PROVE Proc(d)'
  <2>1. pc'[d] = "idle" /\ job'[d] = NoJob
    BY <1>1
  <2>2. Locked(d, pc[d], job[d])' /\ Guarded(pc[d], job[d])'
    BY <2>1 DEF Locked, Guarded, UnderShared, UnderPath, UnderExclusive, Trading
  <2> QED
    BY <2>1, <2>2, NothingFits DEF Proc, Fits
<1>7. HeldInv'
  <2> SUFFICES ASSUME NEW q \in Paths, held'[q] # None
               PROVE  /\ held'[q] \in Objects /\ ~IsEmpty(held'[q])
                      /\ file[q] = Pointer[held'[q]] /\ WorktreeOf[q] \in Known
                      /\ q \in staged
                      /\ WorktreeOf[q] \notin abandoned => cache'[held'[q]] \in Safe
    BY <1>1 DEF HeldInv, Known, IsEmpty
  <2>1. held'[q] = held[q] /\ ~(cache[held[q]] = "synced" /\ cache'[held[q]] = "none")
    BY <1>1
  <2> QED
    BY <1>4, <2>1 DEF IInv, HeldInv
<1>8. SaveInv'
  <2> SUFFICES ASSUME NEW q \in Paths, saved[q] \notin Harmless, q \notin exposed
               PROVE  file[q] = saved[q] \/ <<q, saved[q]>> \in recovery'
    BY <1>1 DEF SaveInv, Harmless
  <2>1. ASSUME NEW d \in Procs, job[d].path = q, job[d].temp = saved[q]
        PROVE  <<q, saved[q]>> \in recovery'
    <3>1. <<q, saved[q]>> \in Kept(d)
      BY <2>1 DEF Kept, Harmless
    <3> QED
      BY <1>1, <3>1
  <2> QED
    BY <1>1, <2>1 DEF IInv, SaveInv
<1> QED
  BY <1>5, <1>6, <1>7, <1>8 DEF IInv, ProcInv

(* A system call fails, or a process is killed.                            *)
LEMMA FaultStep ==
  ASSUME IInv, NEW c \in Procs, IoError(c) \/ Kill(c)
  PROVE  IInv'
<1>1. /\ UNCHANGED <<file, cache, registry, there, staged,
                     held, saved, exposed, abandoned>>
      /\ pc[c] # "idle"
  BY DEF IoError, Kill, roots, history
<1>2. Fits(pc[c], job[c])
  BY Here
<1>3. job[c].temp \in Harmless \/ <<job[c].path, job[c].temp>> \in Kept(c)
  BY DEF Kept, Harmless
<1>4. CASE Kill(c)
  <2>1. recovery' = recovery \cup Kept(c) /\ Exit(c)
    BY <1>4 DEF Kill
  <2>2. Undisturbed
    BY <1>1, <2>1 DEF Undisturbed, Known, IInv, Shape
  <2> QED
    BY <1>3, <2>1, <2>2, Exits
<1>5. CASE IoError(c)
  <2>1. /\ recovery' = IF pc[c] = "rollback" THEN recovery \cup Kept(c) ELSE recovery
        /\ IF pc[c] = "displaced" THEN Goto(c, "rollback") /\ UNCHANGED <<job, locks>>
           ELSE Fail(c)
    BY <1>5 DEF IoError, At
  <2>2. Undisturbed
    BY <1>1, <2>1 DEF Undisturbed, Known, IInv, Shape
  <2>3. CASE pc[c] = "displaced"
    BY <2>1, <2>2, <2>3, RollingBack
  <2>4. CASE pc[c] = "rollback"
    BY <1>1, <1>3, <2>1, <2>2, <2>4, Fails
  <2>5. CASE pc[c] \notin Trading
    BY <1>1, <2>1, <2>2, <2>5, FailsHarmless DEF Trading
  <2> QED
    BY <2>3, <2>4, <2>5 DEF Trading
<1> QED
  BY <1>4, <1>5

----------------------------------------------------------------------------
LEMMA Initially == Init => IInv
<1> SUFFICES ASSUME Init PROVE IInv
  OBVIOUS
<1>1. Shape
  BY Parsed DEF Init, Shape
<1>2. ASSUME NEW c \in Procs PROVE Proc(c)
  <2>1. pc[c] = "idle" /\ job[c] = NoJob
    BY DEF Init
  <2>2. Locked(c, pc[c], job[c]) /\ Guarded(pc[c], job[c])
    BY <2>1 DEF Locked, Guarded, UnderShared, UnderPath, UnderExclusive, Trading
  <2> QED
    BY <2>1, <2>2, NothingFits DEF Proc
<1>3. HeldInv /\ SaveInv
  BY DEF Init, HeldInv, SaveInv, Harmless
<1> QED
  BY <1>1, <1>2, <1>3 DEF IInv, ProcInv

LEMMA Steps == ASSUME IInv, NEW c \in Procs, Step(c) PROVE IInv'
<1>1. CASE Fetch(c) \/ Register(c) \/ ScanPointers(c) \/ NextPath(c)
  BY <1>1, FetchStep, RegisterStep, ScanPointersStep, NextPathStep
<1>2. CASE LockShared(c) \/ LockPath(c) \/ LockExclusive(c) \/ LockRegistry(c)
  BY <1>2, LockSharedStep, LockPathStep, LockExclusiveStep, LockRegistryStep
<1>3. CASE Ingest(c) \/ IngestPersist(c) \/ ReadPointer(c) \/ Materialize(c) \/ Recheck(c)
  BY <1>3, IngestStep, IngestPersistStep, ReadPointerStep, MaterializeStep, RecheckStep
<1>4. CASE Inspect(c) \/ CopyToCache(c) \/ Persist(c) \/ Sync(c)
  BY <1>4, InspectStep, CopyToCacheStep, PersistStep, SyncStep
<1>5. CASE Exchange(c) \/ VerifyDisplaced(c) \/ Rollback(c) \/ Reread(c)
  BY <1>5, ExchangeStep, VerifyDisplacedStep, RollbackStep, RereadStep
<1>6. CASE PublishCheck(c) \/ Publish(c) \/ PublishPersist(c) \/ Scan(c) \/ Collect(c)
  BY <1>6, PublishCheckStep, PublishStep, PublishPersistStep, ScanStep, CollectStep
<1> QED
  BY <1>1, <1>2, <1>3, <1>4, <1>5, <1>6 DEF Step

LEMMA Always == Spec => []IInv
<1>1. IInv /\ [Next]_vars => IInv'
  <2> SUFFICES ASSUME IInv, [Next]_vars PROVE IInv'
    OBVIOUS
  <2>1. ASSUME NEW c \in Procs, RunPull(c) \/ RunHydrate(c) \/ RunDehydrate(c) \/ RunGc(c)
        PROVE  IInv'
    BY <2>1, CommandsStep
  <2>2. ASSUME NEW c \in Procs, Step(c) PROVE IInv'
    BY <2>2, Steps
  <2>3. ASSUME NEW c \in Procs, IoError(c) \/ Kill(c) PROVE IInv'
    BY <2>3, FaultStep
  <2>4. ASSUME NEW p \in Paths, Save(p) \/ Delete(p) PROVE IInv'
    <3>1. UserBlobs \subseteq Blobs
      BY LocalCacheAssumption
    <3> QED
      BY <2>4, <3>1, UserStep DEF Save, Delete
  <2>5. ASSUME NEW p \in Paths, Unstage(p) \/ Stage(p) PROVE IInv'
    BY <2>5, StagingStep
  <2>6. ASSUME NEW w \in Worktrees, Move(w) PROVE IInv'
    BY <2>6, MoveStep
  <2>7. CASE PowerLoss
    BY <2>7, PowerLossStep
  <2>8. CASE UNCHANGED vars
    <3>1. /\ UNCHANGED <<file, cache, recovery, registry, there, staged,
                         held, saved, exposed, abandoned>>
          /\ UNCHANGED <<pc, job, shared, exclusive, pathLock, registryLock>>
      BY <2>8 DEF vars, disk, roots, locks, history
    <3>2. Shape' /\ HeldInv' /\ SaveInv'
      BY <3>1 DEF IInv, Shape, HeldInv, SaveInv, Known, IsEmpty, Harmless
    <3>3. ASSUME NEW d \in Procs PROVE Proc(d)'
      <4>1. Fits(pc[d], job[d]) /\ Locked(d, pc[d], job[d]) /\ Guarded(pc[d], job[d])
        BY Here
      <4>2. Locked(d, pc[d], job[d])' /\ Guarded(pc[d], job[d])'
        BY <3>1, <4>1 DEF Locked, Guarded, Known, Harmless
      <4> QED
        BY <3>1, <4>1, <4>2 DEF Proc, Fits
    <3> QED
      BY <3>2, <3>3 DEF IInv, ProcInv
  <2> QED
    BY <2>1, <2>2, <2>3, <2>4, <2>5, <2>6, <2>7, <2>8 DEF Next
<1> QED
  BY Initially, <1>1, PTL DEF Spec

(* THEOREM: the bytes that `dehydrate` took out of a file stay in the      *)
(* cache, synced, while their pointer is where it was left, however many   *)
(* processes collect, dehydrate and are killed at the same time: a pointer *)
(* is left only under a lock that no collection is held with, and where it *)
(* lies every collection finds it or gives its worktree up.  It says so of *)
(* paths that are LFS paths by the attributes in the index, and of copies  *)
(* that no power loss took together with a new directory.                  *)
THEOREM DehydratedStays == Spec => []DehydratedKept
<1>1. IInv => DehydratedKept
  BY DEF IInv, HeldInv, DehydratedKept
<1> QED
  BY <1>1, Always, PTL

(* THEOREM: what the user saved is at its path, in the file that a command *)
(* exchanged for it, or in one that was left behind; only what was saved   *)
(* during an exchange that is then undone is not.                          *)
THEOREM SavesStay == Spec => []SavesSurvive
<1>1. IInv => SavesSurvive
  BY DEF IInv, SaveInv, SavesSurvive, Harmless
<1> QED
  BY <1>1, Always, PTL

============================================================================
