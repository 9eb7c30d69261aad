-------------------------- MODULE MigrationCommand --------------------------
(***************************************************************************)
(* `lfscloud migrate` in one clone (cli/migration.rs, migration/*.rs,      *)
(* git.rs, init.rs) against an LFS Cloud server (server/batch.rs,          *)
(* server/request.rs, server/routing.rs, lfs.rs): refs are fetched, the    *)
(* history is scanned, the server is asked which objects it needs, missing *)
(* ones are fetched from the legacy endpoint and uploaded, and only then   *)
(* is the clone reconfigured.  Invocations run beside each other, beside   *)
(* pushes to the remote, prunes of local objects and deletions in the      *)
(* target, and may be killed between any two steps.                        *)
(***************************************************************************)
EXTENDS HistoryScan

CONSTANTS
  Invocations,
  Branches,          \* branches of the remote, tracked in the clone
  RefOrder,          \* all refs of the clone, in the order they are listed
  NoCommit,
  ObjectOrder,       \* the objects in the order of their ids
  Routes,            \* addresses of this repository on the LFS Cloud server
  Legacy,            \* addresses of other LFS servers
  DefaultEndpoint,   \* what the remote's URL implies, or Unset
  Unset,
  Clones,            \* where a clone may start: [remote, refs, media, cached,
                     \*   target, config, unready]
  Options,           \* command lines: [dry_run, all_refs, refs, server, purge]
  CheckedOut,        \* the ref that is checked out
  OnGitHub,          \* the legacy addresses at github.com
  InitServers,       \* addresses people give to `lfscloud init`
  BatchSize,         \* MIGRATION_TARGET_BATCH_SIZE
  MaxBatchObjects,   \* the server's max_batch_objects
  MaxBodyObjects,    \* how many objects a request body of the largest size holds
  PublicRoute,       \* the route under the server's public_url, or Unset
  TooLarge,          \* objects above MAX_UPLOAD_OBJECT_BYTES
  MaxEvents          \* pushes, losses and `init`s together

LocalRefs == Range(RefOrder)
Endpoints == Routes \cup Legacy
LfsUrlKeys == {"local_url", "file_url"}

ASSUME MigrationAssumption ==
  /\ Branches \subseteq LocalRefs
  /\ NoCommit \notin Commits
  /\ Unset \notin Endpoints
  /\ Routes \cap Legacy = {}
  /\ CheckedOut \in LocalRefs /\ OnGitHub \subseteq Legacy
  /\ DefaultEndpoint \in Legacy \cup {Unset}
  /\ InitServers \subseteq Routes
  /\ PublicRoute \in Routes \cup {Unset}
  /\ BatchSize \in Nat \ {0} /\ MaxBatchObjects \in Nat /\ MaxBodyObjects \in Nat

VARIABLES
  remote,    \* branch of the remote -> commit or NoCommit
  refs,      \* ref of the clone -> commit or NoCommit
  source,    \* objects the legacy server has
  media,     \* object -> "good", "bad" or "absent" in Git LFS's own store
  cached,    \* objects with a good copy in the shared cache
  target,    \* objects the LFS Cloud server has
  granted,   \* whether the session may write to the repository
  config,    \* the LFS addresses in local Git configuration and .lfsconfig
  pc,        \* where each invocation is
  job,       \* what each invocation holds in memory
  env        \* what the environment did: counts, objects deleted by hand,
             \* the legacy address at the start, whether `init` replaced it,
             \* and what of the machine is not ready for a migration

vars == <<remote, refs, source, media, cached, target, granted, config, pc, job, env>>

stores == <<source, media, cached, target>>
repository == <<remote, refs>>

Ended == {"done", "reported", "failed"}

NoJob == [options |-> Unset, route |-> Unset, excluded |-> {}, source |-> Unset, names |-> <<>>,
          tips |-> <<>>, kept |-> {}, objects |-> <<>>, queue |-> <<>>,
          asked |-> {}, needed |-> {}, missing |-> {}, from_media |-> {}, warnings |-> {}]

(***************************************************************************)
(* Addresses.                                                              *)
(***************************************************************************)
(* configured_lfs_url: local Git configuration before .lfsconfig.          *)
configured_lfs_url(c) ==
  IF c["local_url"] # Unset THEN c["local_url"] ELSE c["file_url"]

(* resolve_repository_lfs_route: an address that is not this repository's   *)
(* route on LFS Cloud is refused.                                           *)
Route(c, server) ==
  LET url == IF server # Unset THEN server ELSE configured_lfs_url(c)
  IN IF url \in Routes THEN url ELSE Unset

migration_target_endpoints(c, route) ==
  {route} \cup ({configured_lfs_url(c)} \cap Routes)

(* The address that Git LFS derives from the remote's URL, if it can.       *)
default_lfs_endpoint_for_remote_url == DefaultEndpoint

source_endpoint_is_excluded(url, excluded) == url \in excluded

(* The first address set for the remote or the repository that is not one   *)
(* of the target's.                                                         *)
discover_source_endpoint(c, excluded) ==
  LET candidates == <<c["local_remote"], c["file_remote"], c["local_url"],
                      c["file_url"], default_lfs_endpoint_for_remote_url>>
      found == SelectSeq(candidates, LAMBDA url :
                 url # Unset /\ ~source_endpoint_is_excluded(url, excluded))
  IN IF found = <<>> THEN Unset ELSE Head(found)

SourceOf(c, route) == discover_source_endpoint(c, migration_target_endpoints(c, route))

Init ==
  \E clone \in Clones :
    /\ remote = clone.remote
    /\ refs = clone.refs
    /\ source = Referenced(Range(clone.remote) \ {NoCommit})
    /\ media = clone.media
    /\ cached = clone.cached
    /\ target = clone.target
    /\ granted = TRUE
    /\ config = clone.config
    /\ pc = [m \in Invocations |-> "idle"]
    /\ job = [m \in Invocations |-> NoJob]
    /\ env = [events |-> 0, deleted |-> {},
              legacy |-> SourceOf(clone.config, CHOOSE r \in Routes : TRUE),
              replaced |-> FALSE, unready |-> clone.unready]

Goto(m, stage) == pc' = [pc EXCEPT ![m] = stage]
Fail(m) ==
  /\ Goto(m, "failed")
  /\ job' = [job EXCEPT ![m] = NoJob]

(***************************************************************************)
(* Preparation.  Nothing is written before every upload has succeeded.     *)
(***************************************************************************)
(* A dry run may plan for a few refs or for the checkout only; an execution *)
(* takes every ref.                                                         *)
prepare_migration_execution(m, o) ==
  /\ pc[m] = "idle"
  /\ LET route == Route(config, o.server)
     IN IF (~o.dry_run /\ ~o.all_refs) \/ route = Unset
          THEN Fail(m)
          ELSE /\ Goto(m, "discover")
               /\ job' = [job EXCEPT
                            ![m].options = o,
                            ![m].route = route,
                            ![m].excluded = migration_target_endpoints(config, route)]
  /\ UNCHANGED <<repository, stores, granted, config, env>>

(* migration_pointer_scan: what a dry run scans.                            *)
FirstStage(o) ==
  IF ~o.dry_run THEN "probe"
  ELSE IF o.all_refs THEN "list"
  ELSE IF o.refs # <<>> THEN "tips"
  ELSE "report"

discover_git_lfs_migration(m) ==
  /\ pc[m] = "discover"
  /\ IF ~job[m].options.dry_run /\ "git-lfs" \in env.unready
       THEN Fail(m)
       ELSE /\ Goto(m, FirstStage(job[m].options))
            /\ job' = [job EXCEPT
                         ![m].source = discover_source_endpoint(config, job[m].excluded),
                         ![m].names = job[m].options.refs]
  /\ UNCHANGED <<repository, stores, granted, config, env>>

(***************************************************************************)
(* The server's answer to a batch of uploads: too many objects, an object   *)
(* too large, no permission, or the objects looked up one by one.           *)
(***************************************************************************)
read_batch_request_body(chunk) == IF Len(chunk) > MaxBodyObjects THEN 413 ELSE 200

BatchStatus(chunk) ==
  IF \/ read_batch_request_body(chunk) = 413
     \/ Len(chunk) > MaxBatchObjects
     \/ Range(chunk) \cap TooLarge # {}
  THEN 413
  ELSE IF ~granted THEN 403 ELSE 200

(* The address in the actions of an answer: the server's public_url, or     *)
(* else the address that the connection was made to.                        *)
public_url_for_request(route) == IF PublicRoute # Unset THEN PublicRoute ELSE route

probe_authenticated_migration_target(m) ==
  /\ pc[m] = "probe"
  /\ IF BatchStatus(<<>>) = 200 /\ {"server-tcp", "lfs-credential"} \cap env.unready = {}
       THEN Goto(m, "fetch") /\ UNCHANGED job
       ELSE Fail(m)
  /\ UNCHANGED <<repository, stores, granted, config, env>>

(***************************************************************************)
(* Refs and history.  kept are the refs that did not move since the fetch   *)
(* of the invocation; only the properties read it.                          *)
(***************************************************************************)
Fetched(branches) ==
  [r \in LocalRefs |-> IF r \in branches THEN remote[r] ELSE refs[r]]

Unmoved(new) == {r \in LocalRefs : new[r] = refs[r]}

AfterFetch(m, new) ==
  [n \in Invocations |->
     IF n = m THEN [job[n] EXCEPT !.kept = LocalRefs]
     ELSE [job[n] EXCEPT !.kept = @ \cap Unmoved(new)]]

fetch_migration_git_refs(m) ==
  /\ pc[m] = "fetch"
  /\ refs' = Fetched(Branches)
  /\ job' = AfterFetch(m, Fetched(Branches))
  /\ Goto(m, "list")
  /\ UNCHANGED <<remote, stores, granted, config, env>>

(* The fetch is stopped by its timeout after some refs were updated.        *)
FetchTimesOut(m) ==
  /\ pc[m] = "fetch"
  /\ \E branches \in SUBSET Branches :
        /\ refs' = Fetched(branches)
        /\ job' = [AfterFetch(m, Fetched(branches)) EXCEPT ![m] = NoJob]
  /\ Goto(m, "failed")
  /\ UNCHANGED <<remote, stores, granted, config, env>>

require_complete_history == {"git-version", "complete-history"} \cap env.unready = {}

all_fetched_ref_names(m) ==
  /\ pc[m] = "list"
  /\ IF require_complete_history
       THEN /\ job' = [job EXCEPT ![m].names =
                         SelectSeq(RefOrder, LAMBDA r : refs[r] # NoCommit)]
            /\ Goto(m, "tips")
       ELSE Fail(m)
  /\ UNCHANGED <<repository, stores, granted, config, env>>

(* Each ref is resolved by a command of its own; one that is gone ends the  *)
(* scan.                                                                    *)
resolve_ref_commit(m) ==
  /\ pc[m] = "tips" /\ job[m].names # <<>>
  /\ LET r == Head(job[m].names)
     IN IF refs[r] = NoCommit \/ ~require_complete_history
          THEN Fail(m)
          ELSE /\ job' = [job EXCEPT ![m].names = Tail(@), ![m].tips = Append(@, refs[r])]
               /\ UNCHANGED pc
  /\ UNCHANGED <<repository, stores, granted, config, env>>

Chunks(objects) ==
  LET n == Len(objects)
      last == (n + BatchSize - 1) \div BatchSize
  IN [i \in 1..last |->
        SubSeq(objects, (i - 1) * BatchSize + 1,
               IF i = last THEN n ELSE i * BatchSize)]

scan_fetched_refs(m) ==
  /\ pc[m] = "tips" /\ job[m].names = <<>>
  /\ LET found == ScannedObjects(job[m].tips)
         objects == SelectSeq(ObjectOrder, LAMBDA o : o \in found)
         dry_run == job[m].options.dry_run
     IN IF objects = <<>> /\ ~dry_run
          THEN Fail(m)
          ELSE /\ Goto(m, IF dry_run THEN "report" ELSE "plan")
               /\ job' = [job EXCEPT ![m].objects = objects, ![m].queue = Chunks(objects)]
  /\ UNCHANGED <<repository, stores, granted, config, env>>

(***************************************************************************)
(* Reconciliation with the target, chunk by chunk.                          *)
(***************************************************************************)
(* mutant: the middle object of a chunk of odd length falls out             *)
HalvesOfEvenLength(chunk) ==
  LET split == Len(chunk) \div 2
  IN <<SubSeq(chunk, 1, split), SubSeq(chunk, Len(chunk) - split + 1, Len(chunk))>>

(* mutant: the second half begins with the last object of the first         *)
HalvesOverlapping(chunk) ==
  LET split == Len(chunk) \div 2
  IN <<SubSeq(chunk, 1, split), SubSeq(chunk, split, Len(chunk))>>

Halves(chunk) ==
  LET split == Len(chunk) \div 2
  IN <<SubSeq(chunk, 1, split), SubSeq(chunk, split + 1, Len(chunk))>>

request_migration_target_plan(m) ==
  /\ pc[m] = "plan" /\ job[m].queue # <<>>
  /\ LET chunk == Head(job[m].queue)
         status == BatchStatus(chunk)
     IN CASE status = 413 /\ Len(chunk) > 1 ->
               /\ job' = [job EXCEPT ![m].queue = Halves(chunk) \o Tail(@)]
               /\ UNCHANGED pc
          [] status = 200 ->
               /\ job' = [job EXCEPT ![m].queue = Tail(@), ![m].asked = Range(chunk)]
               /\ Goto(m, "lookup")
          [] OTHER -> Fail(m)
  /\ UNCHANGED <<repository, stores, granted, config, env>>

(* The lookups of a batch run beside each other; each sees the target as    *)
(* it is at that moment.                                                    *)
batch_object_lookup(m, o) ==
  /\ pc[m] = "lookup" /\ o \in job[m].asked
  /\ job' = [job EXCEPT ![m].asked = @ \ {o},
                        ![m].needed = IF o \in target THEN @ ELSE @ \cup {o}]
  /\ Goto(m, IF job[m].asked = {o} THEN "plan" ELSE "lookup")
  /\ UNCHANGED <<repository, stores, granted, config, env>>

(***************************************************************************)
(* Objects the target needs are found locally or fetched.                   *)
(***************************************************************************)
Available(o) == media[o] = "good" \/ o \in cached

unavailable_objects(objects) == {o \in objects : ~Available(o)}

PlannedFetch(objects) == unavailable_objects(objects)

(* What a dry run warns of; only the credential's presence is looked at.    *)
migration_readiness_checks(m) ==
  env.unready \cup {"storage"} \cup (IF job[m].source = Unset THEN {"source-config"} ELSE {})

migration_source_purge_report(m) ==
  CASE ~job[m].options.purge -> {}
    [] job[m].source = Unset -> {"purge-unknown"}
    [] job[m].source \in OnGitHub -> {"purge-support"}
    [] OTHER -> {"purge-unsupported"}

write_migration_dry_run_report(m) ==
  /\ pc[m] = "report"
  /\ LET o == job[m].options
         objects == IF o.all_refs \/ o.refs # <<>>
                      THEN job[m].objects
                      ELSE SelectSeq(ObjectOrder,
                                     LAMBDA x : x \in CheckedOutObjects(refs[CheckedOut]))
         missing == PlannedFetch(Range(objects))
     IN job' = [job EXCEPT
                  ![m].objects = objects,
                  ![m].missing = missing,
                  ![m].warnings = migration_readiness_checks(m)
                                    \cup migration_source_purge_report(m)
                                    \cup (IF missing = {} THEN {} ELSE {"fetch"})]
  /\ Goto(m, "reported")
  /\ UNCHANGED <<repository, stores, granted, config, env>>

check_local_migration_objects(m) ==
  /\ pc[m] = "plan" /\ job[m].queue = <<>>
  /\ LET missing == unavailable_objects(job[m].needed)
     IN IF missing # {} /\ job[m].source = Unset
          THEN Fail(m)
          ELSE /\ job' = [job EXCEPT ![m].missing = missing]
               /\ Goto(m, "smudge")
  /\ UNCHANGED <<repository, stores, granted, config, env>>

Serves(endpoint) == IF endpoint \in Routes THEN target ELSE source

(* Git LFS (external) keeps a file of the right size in its store.          *)
git_lfs_smudge(m, o) ==
  /\ pc[m] = "smudge" /\ o \in job[m].missing
  /\ IF media[o] = "absent" /\ o \notin Serves(job[m].source)
       THEN Fail(m) /\ UNCHANGED media
       ELSE /\ media' = [media EXCEPT ![o] = IF @ = "absent" THEN "good" ELSE @]
            /\ job' = [job EXCEPT ![m].missing = @ \ {o}]
            /\ UNCHANGED pc
  /\ UNCHANGED <<repository, source, cached, target, granted, config, env>>

CheckAfterFetch(m) ==
  /\ pc[m] = "smudge" /\ job[m].missing = {}
  /\ IF unavailable_objects(job[m].needed) # {}
       THEN Fail(m)
       ELSE /\ job' = [job EXCEPT ![m].from_media =
                         {o \in job[m].needed : media[o] = "good"}]
            /\ Goto(m, "upload")
  /\ UNCHANGED <<repository, stores, granted, config, env>>

(***************************************************************************)
(* Upload.  The copy chosen before is verified again right before it is     *)
(* sent.  The server stores an object whose answer the client never sees.   *)
(***************************************************************************)
Verified(m, o) == IF o \in job[m].from_media THEN media[o] = "good" ELSE o \in cached

(* An action of another address than the route's is refused.                *)
validated_migration_upload_action_url(m) ==
  public_url_for_request(job[m].route) = job[m].route

NextUpload(m) == Head(SelectSeq(job[m].objects, LAMBDA o : o \in job[m].needed))

upload_migration_object(m) ==
  /\ pc[m] = "upload" /\ job[m].needed # {}
  /\ LET o == NextUpload(m)
     IN IF granted /\ Verified(m, o) /\ validated_migration_upload_action_url(m)
          THEN /\ target' = target \cup {o}
               /\ \/ job' = [job EXCEPT ![m].needed = @ \ {o}] /\ UNCHANGED pc
                  \/ Fail(m)
          ELSE Fail(m) /\ UNCHANGED target
  /\ UNCHANGED <<repository, source, media, cached, granted, config, env>>

(***************************************************************************)
(* Reconfiguration: first the legacy address for the remote, then lfs.url   *)
(* in .lfsconfig, then in local Git configuration.                          *)
(***************************************************************************)
(* mutant: the legacy address is not written before the others              *)
ReconfigureWithoutLegacy(m) ==
  /\ pc[m] = "upload" /\ job[m].needed = {}
  /\ Goto(m, "file")
  /\ UNCHANGED <<repository, stores, granted, config, job, env>>

write_worktree_remote_lfs_url(m) ==
  /\ pc[m] = "upload" /\ job[m].needed = {}
  /\ config' = IF job[m].source \in {Unset, job[m].route}
                 THEN config
                 ELSE [config EXCEPT !["file_remote"] = job[m].source]
  /\ Goto(m, "file")
  /\ UNCHANGED <<repository, stores, granted, job, env>>

write_lfs_url(m) ==
  /\ \/ /\ pc[m] = "file"
        /\ config' = [config EXCEPT !["file_url"] = job[m].route]
        /\ Goto(m, "local")
     \/ /\ pc[m] = "local"
        /\ config' = [config EXCEPT !["local_url"] = job[m].route]
        /\ Goto(m, "done")
  /\ UNCHANGED <<repository, stores, granted, job, env>>

(***************************************************************************)
(* The environment.                                                         *)
(***************************************************************************)
(* An invocation is killed, or a command or request of it fails.            *)
Stop(m) ==
  /\ pc[m] \notin {"idle"} \cup Ended
  /\ Fail(m)
  /\ UNCHANGED <<repository, stores, granted, config, env>>

(* A branch moves forward, its objects having been pushed to the legacy     *)
(* server before, or is deleted.                                            *)
Push(b) ==
  /\ env.events < MaxEvents
  /\ env' = [env EXCEPT !.events = @ + 1]
  /\ \/ \E c \in Commits :
          /\ remote[b] \in (Range(RevList[c]) \ {c}) \cup {NoCommit}
          /\ remote' = [remote EXCEPT ![b] = c]
          /\ source' = source \cup Referenced({c})
     \/ /\ remote[b] # NoCommit
        /\ remote' = [remote EXCEPT ![b] = NoCommit]
        /\ UNCHANGED source
  /\ UNCHANGED <<refs, media, cached, target, granted, config, pc, job>>

(* A local object is pruned or damaged, an object is deleted from the       *)
(* target by hand, or GitHub takes the permission back.                     *)
Lose(o) ==
  /\ env.events < MaxEvents
  /\ \/ /\ media[o] = "good"
        /\ \E state \in {"absent", "bad"} : media' = [media EXCEPT ![o] = state]
        /\ env' = [env EXCEPT !.events = @ + 1]
        /\ UNCHANGED <<target, granted>>
     \/ /\ o \in target
        /\ target' = target \ {o}
        /\ env' = [env EXCEPT !.events = @ + 1, !.deleted = @ \cup {o}]
        /\ UNCHANGED <<media, granted>>
     \/ /\ granted
        /\ granted' = FALSE
        /\ env' = [env EXCEPT !.events = @ + 1]
        /\ UNCHANGED <<media, target>>
  /\ UNCHANGED <<repository, source, cached, config, pc, job>>

(* `lfscloud init`: one of the two lfs.url is set, whatever it was.         *)
run_init(key, server) ==
  /\ env.events < MaxEvents
  /\ config' = [config EXCEPT ![key] = server]
  /\ env' = [env EXCEPT !.events = @ + 1,
                        !.replaced = @ \/ config[key] \in Legacy]
  /\ UNCHANGED <<repository, stores, granted, pc, job>>

Start(m) ==
  \E o \in Options : prepare_migration_execution(m, o)

Step(m) ==
  \/ discover_git_lfs_migration(m)
  \/ probe_authenticated_migration_target(m)
  \/ fetch_migration_git_refs(m)
  \/ FetchTimesOut(m)
  \/ all_fetched_ref_names(m)
  \/ resolve_ref_commit(m)
  \/ scan_fetched_refs(m)
  \/ write_migration_dry_run_report(m)
  \/ request_migration_target_plan(m)
  \/ \E o \in Objects : batch_object_lookup(m, o)
  \/ check_local_migration_objects(m)
  \/ \E o \in Objects : git_lfs_smudge(m, o)
  \/ CheckAfterFetch(m)
  \/ upload_migration_object(m)
  \/ write_worktree_remote_lfs_url(m)
  \/ write_lfs_url(m)

Next ==
  \/ \E m \in Invocations : Start(m) \/ Step(m) \/ Stop(m)
  \/ \E b \in Branches : Push(b)
  \/ \E o \in Objects : Lose(o)
  \/ \E key \in LfsUrlKeys, server \in InitServers : run_init(key, server)

Spec == Init /\ [][Next]_vars

(* Every command and request of an invocation has a timeout.                *)
FairSpec == Spec /\ \A m \in Invocations : WF_vars(Step(m))

(***************************************************************************)
(* Properties.                                                              *)
(***************************************************************************)
(* The scan that keeps caches across commits and refs finds exactly the     *)
(* objects that the commits hold at paths Git gives to LFS                  *)
(* (migration/history.rs, HistoryScanner).                                  *)
ScanComplete ==
  \A m \in Invocations :
    pc[m] \in {"plan", "report"} => Range(job[m].objects) = Referenced(Range(job[m].tips))

(* When an invocation reconfigures the clone, every object in the history   *)
(* of every ref that did not move since its fetch is in the target, unless  *)
(* somebody deleted it there: no ref is stranded, whatever was pushed,      *)
(* pruned or refused in between (cli/migration.rs 327-435).                 *)
NotStranded ==
  \A m \in Invocations :
    pc[m] \in {"file", "local"} =>
      Referenced({refs[r] : r \in job[m].kept} \ {NoCommit}) \subseteq target \cup env.deleted

(* The legacy address found before any migration is the one every later     *)
(* invocation finds, for each address of the server, even when one was      *)
(* killed between two writes of the configuration; only `init` may replace  *)
(* it (cli/migration.rs 392-427, migration/discovery.rs 199-299).  It does  *)
(* not hold of clones that use two addresses of the server.                 *)
SourceKept ==
  (env.legacy # Unset /\ ~env.replaced) =>
     \A route \in Routes : SourceOf(config, route) = env.legacy

(* Every invocation ends, also when the server refuses chunks as too large  *)
(* until they hold one object (cli/migration.rs 437-564).                   *)
InvocationEnds == \A m \in Invocations : (pc[m] # "idle") ~> (pc[m] \in Ended)
=============================================================================
