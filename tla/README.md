# LFS Cloud: specifications, model checks and proofs

LFS Cloud serves Git LFS objects out of Google Drive. A server authenticates
clients against GitHub, stages uploads on disk, keeps a metadata database and
puts the objects into a Drive folder; a command-line client logs in, keeps a
local object cache, hydrates and dehydrates worktrees, and migrates
repositories. This directory models the parts of it in which requests,
processes, people, crashes and remote services meet, checks them with TLC on
small instances, and proves with TLAPS, for every instance, the safety of the
transfers, the staging area, the resumable upload, sessions, authorization, the
batch protocol and the migration's checkpoint.

Source lines are cited relative to the crate's `src/`. `PROJECT.json` maps every
definition to the lines it stands for, and lists components, hazards, runs,
mutants, findings and theorems.

## 1. The system

| Component | State | Operations | Hard behaviours | What makes it correct |
|---|---|---|---|---|
| Object transfers (`server/request.rs`, `server/router.rs`, `server/batch.rs`) | futures of requests, provider permits, in-process upload mutexes | upload, staged and streamed download, batch lookup | futures dropped anywhere, two processes after an overrun drain, repair of a row from an old read | an object is stored once; success names a live file; nothing leaks; every request ends |
| Metadata (`metadata/*`) | object rows, attempts, session rows, configuration rows, striped lock files | record, mark stale, begin/finish attempt, lock, migrate schema, apply configuration | blocking operations outlive their future, pool threads parked in lock waits, a start killed between two transactions | a row names a file that exists or was deleted, and is called stale only in the second case; every start finds a database it can take |
| Drive object store (`google_drive/*`) | files and folders, resumable session, committed offset, recovery attempts | find or make shard folder, send chunk, probe, look up, download | lost answers, partial chunks, chunks that arrive after their timeout, racing folder creation, files of others under the same names, bodies cut short | only whole objects become files, an honest Drive is not refused, lookups miss nothing and take nothing else |
| Drive access tokens (`google_drive/access_token.rs`) | a slot per storage provider | take, refresh with gcloud | the clock is read before the wait for the slot | a request that did not wait long gets a live token, everyone is answered |
| Upload staging (`server/staging.rs`) | two semaphores, reserved bytes, free-space snapshot, temporary files | admit, reserve, write, release | measuring outside the mutex, bodies longer than declared, clients leaving half way | books balance, the promised bytes fit |
| Sessions (`sessions.rs`, `session_keys.rs`, `metadata/sessions.rs`) | sessions in memory and as encrypted rows, managed key, lifecycle lock | issue, verify, expire, revoke, restart, rotate | crash between row and memory, whole seconds against instants, rotation beside a dying server | a revoked session stays revoked, an issued one survives restarts, a start takes the rows |
| Authorization (`github_auth.rs`, `server/request.rs`) | decision cache, lock per key, permits | look, lock, ask GitHub twice, cache, revoke | dropped requests, permissions and names that change during a call, lock objects leaving the map | single flight, no grant older than its lifetime, nobody waits for ever |
| Routing and batch protocol (`server/routing.rs`, `server/router.rs`, `server/batch.rs`, `lfs.rs`) | the request limit, requests in flight | admit, route, authenticate, parse, check, look up, answer | lookups that end out of order, one of several failing, actions followed later | each object answered once, in its place, for what was asked |
| Server lifecycle (`server/runtime.rs`, `main.rs`) | lifecycle lock, drain deadline | start in order, serve, drain | tasks and blocking operations outlive `serve()`; the file is read before the lock is taken | at most one server or rotation at a time, unless a drain overran |
| Configuration (`server_config/*`, `cli/configuration.rs`, `metadata/configuration.rs`, `google_drive/root.rs`) | the file, the operator's copy of it, gcloud directories, the default folder | edit, authorize, create or find the folder, save, load, apply | edits with prompts between load and save, lost answers of creations, routes that swap | a start serves what the file says; each repository has its own route; edits stand |
| Local cache (`local_cache/*`, `cli/cache.rs`) | object files, registry of worktrees, three kinds of file lock, worktree files, the Git LFS store | pull, hydrate, dehydrate, gc | users who edit without locks, several processes, kill and power loss, atomic exchange and its undoing | dehydrated bytes stay durable, saves survive, locks do not deadlock |
| Migration command (`cli/migration.rs`, `migration/*`) | the clone's refs, objects and configuration, scan caches | fetch, scan, ask the server, fetch objects, upload, reconfigure | pushes and prunes between phases, attribute files, a server that finds a batch too large, kills between writes | nothing is missed, no ref is stranded, the legacy source is kept |
| Migration upload (`migration/upload.rs`) | append-only checkpoint, jobs in flight | load, check, upload, record | torn appends, two invocations, objects deleted from the target | the checkpoint claims nothing that was not stored |
| Credentials and login (`credentials.rs`, `cli/authentication.rs`) | Git's credential store, the sessions of the server | login, logout, status | two stores changed one after the other, lost answers, Git steps that go on after their command | credentials and sessions agree; a repeated logout completes |
| Child processes (`child_process.rs`) | the process, its group, reader threads, deadline | wait, read, stop | pipes inherited by a helper, exit racing deadline and drain | when the wait is over the command is; it ends |

How they interact: a request is admitted and routed (LfsRequests), authorized
(Authorization, SessionStore), an upload is admitted and staged (UploadStaging),
then takes the in-process mutex of its object, the striped file lock, looks the
object up, and creates it on Drive (UploadTransfer), chunk by chunk
(ResumableUpload), each call with a token of TokenCache; a download brings its
bytes as StagedDownload says. Everything in the database runs on Tokio's
blocking pool and goes on when the awaiting future is dropped. Sessions and
transfers both depend on the lifecycle lock, which `serve()` gives up when it
returns at the drain deadline although tasks and blocking operations still run
(`server/runtime.rs` 138, 215-260). The transfers are therefore modelled with
two processes, and the session properties are stated for behaviours without an
overrun (`Exclusive`). On the client, login and migration run Git as child
processes (ChildProcess) and reach the server through the routes that
ServerSetup publishes.

## 2. The modules

Server, transfers:

**ObjectService** is the abstract specification: files are added by transfers
and removed by others; a success names a file that was live at some moment of
that request; replies are final.

**UploadTransfer** (`server/request.rs`, `server/router.rs` 465-755,
`server/batch.rs`, `metadata/objects.rs`, `metadata/transfers.rs`,
`metadata/upload_locks.rs`) is the core. `pc[c]` is the await point of a request;
`seen`, `got` and `row` are the row it read, the Drive id it holds and its
attempt's outcome; `procLock`, `stripeLock`, `permits` are the locks; `meta` and
`files` the database and Drive; `deleted`, `late` and `inFlight` record what
people delete by hand and what Drive completes after its request is over. One action per
step between two awaits (`ReadMeta`, `LookupById`, `SearchFinds`, `Repair`,
`SearchAgain`, `Create`, `Record`, ...), orphan actions for blocking operations
whose future is gone, and faults: `Disconnect`, `Crash`, `ExternalDelete`,
`LateCreate`. `MCUploadTransfer` holds the instances.

**DriveFiles** (`google_drive/object_store.rs`, `google_drive/object_key.rs`) is
the pure part of the store: names and tags of files and shard folders, the
queries, and the checks of what Drive answers. It has no state of its own.

**ResumableUpload** (EXTENDS DriveFiles; `google_drive/object_store.rs`,
`google_drive/upload.rs`) is what `Create` and the searches of UploadTransfer
abstract. `received[u]` maps the offsets Drive has to the bytes it got there, so
that a chunk read from the wrong place shows. `late[u]` holds chunks the client
gave up and Drive may yet apply. Drive is honest and otherwise free: it commits
any prefix of a chunk, answers or not, forgets a session. A 308 without a Range
header is offset 0; the checks of the Range header are `Possible` and `Progress`.
In the folders lie files and folders of other people and other repositories.

**StagedDownload** (`server/router.rs` 568-671, `google_drive/download.rs`,
`google_drive/object_store.rs`) is what `OpenDownload` and `Stream` abstract: a
streamed body is hashed as it goes by, a staged one is received, verified and
published before a byte is sent. `chunks[d]` says of each chunk whether it is
right. The copy and rename run on a thread that outlives its future.

**UploadStaging** (`server/staging.rs`) has one action per step of admission,
of the body, and of the drop order of the guards (global slot, user slot,
reserved bytes, file).

**TokenCache** (`google_drive/access_token.rs`, `provider_factory.rs`) orders the
callers of a provider in `queue[p]`, the head holding the slot; `caller[c]` keeps
the time that was read before the wait.

**LfsRequests** (`server/routing.rs`, `server/router.rs`, `server/request.rs`,
`server/batch.rs`, `lfs.rs`) takes a request from the request limit to its
answer in the order of the handlers' early returns. A batch asks about distinct
objects, `LookupConcurrency` at a time, and the `advertised` actions of its answers
are requests that the client may make later.

Server, identity and lifecycle:

**SessionStore** (`sessions.rs`, `metadata/sessions.rs`, `session_keys.rs`,
`metadata/process_lock.rs`, `server/runtime.rs`, `cli/sessions.rs`) keeps a
clock in ticks of which the database sees only whole seconds. The clock is read
before the mutex. A login writes the row before the memory and a revocation
deletes the row before the memory; a rotation deletes all rows and then stores
the key. `decrypt` is what a start does with a row.

**GitHubPermission** (`github_auth.rs`) is the pure part of a permission check:
what is made of GitHub's answers to the two requests, by the identities in them.

**Authorization** (EXTENDS GitHubPermission; `server/request.rs` 2-200) models
lock objects as entries of a map that are removed by reference count, so that two
requests can hold different locks for one key if the counting is wrong. Its
clock ages cached decisions; a call to GitHub takes up to `CallTime`, and login
and repository names may pass to others between the two requests.

**ServerSetup** (`server_config/*`, `cli/configuration.rs`, `config_edit.rs`,
`provider_factory.rs`, `google_drive/root.rs`, `metadata/mod.rs`,
`metadata/configuration.rs`, `server/runtime.rs`, `server/routing.rs`) has
editing commands that hold their own copy of the file from load to save, the
authorization of Drive and the creation of the default folder, and servers that
start in the order of `serve()`: load, process lock, schema migrations, configuration
rows, readiness of roots, routes. The migrations and the upserts of rows are each a
transaction, which the first refused statement drops; what the table holds before
the n-th upsert is given as a function of the first n - 1.

Client:

**LocalCache** (`local_cache/*`, `cli/cache.rs`, pointer parsing of `lfs.rs`)
runs commands of several processes step by step with the operation lock (shared
or exclusive), the path locks (striped) and the registry lock. A file's bytes
are a model value; one object's bytes are another's pointer, and the empty file
is its own pointer. `Persist` writes a copy and `Sync` syncs it with the directory
it lies in; `PowerLoss` tears what was not synced, and can take a synced copy whole,
because the directories above its own are never synced. `staged` are the paths that
have `filter=lfs` by the attributes in the index, which is where a collection looks,
while `dehydrate` goes by those in the worktree. Users save and delete files and
stage attributes at any moment.

**HistoryScan** (`migration/history.rs`, `migration/attributes.rs`) is the scan:
immutable commits, trees and blobs, attribute rules, and the scanner's caches.
**MigrationCommand** (EXTENDS HistoryScan; `cli/migration.rs`, `migration/*`,
`git.rs`, `init.rs`) runs invocations stage by stage over one clone, beside pushes,
prunes, deletions and `init`.

**MigrationUpload** (`migration/upload.rs`) models the checkpoint as a sequence
of lines and torn pieces, and `parse` by what it does with them. It is the
library's upload; the command uploads through the server.

**ChildProcess** (`child_process.rs`) is the wait for one process: a reader per
piped stream, the deadline, the grace of the drain, a helper that inherits pipes
and may leave the process group. **ClientLogin** (EXTENDS ChildProcess;
`credentials.rs`, `cli/authentication.rs`) runs login and logout, whose Git
steps have the outcomes such a wait can have.

Proofs: **UploadTransferProofs**, **AuthorizationProofs**, **SessionStoreProofs**,
**ResumableUploadProofs**, **LocalCacheProofs** and **ServerSetupProofs** extend the
module they are named after and hold its theorems (section 5).
**ServerRequestsProofs** does so for TokenCache, LfsRequests, StagedDownload and
UploadStaging, **ClientProofs** for ChildProcess, ClientLogin and MigrationUpload.
Their theorems are about `StagingSpec`, `ChildSpec`, `LoginSpec` and so on, the
behaviours of one part, of which the run's specification offers a choice.

Composition: UploadTransfer implements ObjectService; ResumableUpload uses
DriveFiles, Authorization uses GitHubPermission, MigrationCommand uses
HistoryScan, ClientLogin uses ChildProcess. `MCServerRequests` puts TokenCache,
LfsRequests, StagedDownload and UploadStaging side by side: they share no state,
a behaviour is one of one of them (`part`), and so the number of states is a sum
and not a product. `MCClient` does the same for a wait and a series of logins.

## 3. The runs

| Run | Instance | Properties |
|---|---|---|
| UploadRace | 2 uploads in 2 processes and a download, or an upload, a download and a batch; 1 object, 3 ids, 2 faults | `ImplementsObjectService` (refinement), `NoDuplicateFiles`, `MappingTruthful`, `AcknowledgedIsDurable`, `NothingLeaks` |
| UploadQueue | 3 uploads, 2 objects on 1 stripe, 1 permit, 2 pool threads, 1 fault | `Termination` (liveness) |
| ResumableUpload | an object of 3 bytes in chunks of 2 and an empty one, 1 recovery attempt, lookups without end | `WholeObject`, `NoFalseAlarm`, `SearchComplete`, `Termination` (liveness) |
| ServerRequests | TokenCache: 3 callers, time 0..4. LfsRequests: 1 request at a time, batches of up to 4 entries of 3 objects. StagedDownload: a streamed and a staged one, 2 chunks, 2 files. UploadStaging: 3 uploads of 2 users, 2 slots, a volume for two of them, 1 crash | `TokenUsable`, `Answered` (liveness), `AnswersKept`, `ServedWhole`, `TempGone`, `VolumeShared` |
| SessionStore | 2 tokens of a user, 2 servers, 2 ticks a second, 3 keys, 2 faults, 1 overrun | `RevokedStaysRevoked`, `IssuedSurvives`, `RestartPossible` |
| Authorization | 2 downloads and an upload of a session, 1 permit, time 0..3, 1 change of permission or name | `SingleFlight`, `AuthorizedByFreshGrant`, `NobodyStuck` |
| ServerSetup | 2 editing commands, 2 servers, 2 repositories, 4 identities, a file from nothing or running, a database of this, an older and a newer release | `ServedAsConfigured`, `RoutesReachOwn`, `ReportedStands`, `OneDefaultRoot` |
| LocalCache | 2 processes, 2 worktrees, 2 commands in all; 2 edits, 1 fault, 1 move, three of these together at most | `DehydratedKept`, `SavesSurvive`, `NobodyStuck` |
| MigrationCommand | 2 invocations, 5 commits, 6 trees, 3 objects, 4 states of the clone, 6 command lines, 1 outside event | `ScanComplete`, `NotStranded`, `SourceKept`, `InvocationEnds` (liveness) |
| MigrationUpload | 2 invocations, 2 objects, 1 kill, 1 broken append, 1 deletion | `CheckpointTruthful`, `SuccessWasLive`, `InvocationEnds` (liveness) |
| Client | one wait with 2 streams, a helper and 1 unit more than the limit; or commands in 2 repositories, 2 tokens, 2 faults | `CommandOver`, `Returns` (liveness), `CredentialsAgree`, `LogoutCompletes` (liveness) |
| MigrationReuse | 1 invocation, killed in an append and started again | `NeverRefused`, which is violated (section 4) |

Each passing property has a mutant: an operator beside the original that changes
it as a plausible bug would (marked `mutant` in the modules), under which TLC
finds the property violated.

Modules with a `TypeOK` keep it for their proofs. It holds on the instance of
the module's run too; it is left out of the configurations, whose properties are
those that a bug would break.

Some properties are conjunctions of two or three named parts that say one thing:
`RestartPossible` is `RowsReadable /\ LimitsHold`, `VolumeShared` is
`BooksBalance /\ AggregateFits`, `CheckpointTruthful` is
`NothingInvented /\ ReportedIsRecorded`, `AnswersKept` is
`AnsweredAsAsked /\ ActionsFollowable`, `ServedAsConfigured` is
`StartsClean /\ RowsMatchServer`, `CommandOver` is `OutputWhole /\ NothingLeft`,
`CredentialsAgree` is `KeepsToken /\ LoggedOut /\ RevokesOwn`. Each part is
defined and commented in its module and may be checked alone.

**Bounds.** Every counter that would grow without end has a named bound
(`MaxFaults`, `MaxKills`, `MaxTime`, `MaxEdits`, ...) in a guard. They are chosen
so that the fault a property is about can meet the race it is about:

- UploadRace: two faults let a crash precede a deletion or a late completion;
  three ids let two files be deleted and a third be made. `OneStaysAway` keeps the
  second upload or the batch at home: a repair, a lookup and a race are each of two
  or three requests.
- ResumableUpload: size 3 and chunk 2 give a full and a partial chunk; a recovery
  attempt lets a partial commit and a late chunk come between a probe and the next
  chunk.
- ServerRequests: a token lives for three units with a skew of two, and gcloud
  takes up to one, so that a wait can outlast the skew; three callers let a third
  wait behind a failed and a slow refresh. The lists of a batch have duplicates,
  one object id with two sizes, and one entry more than `MaxBatchObjects`.
- SessionStore: two ticks a second separate the clocks; three keys allow two
  rotations, or one and a lost key; two servers overlap after an overrun, and two
  logins of one user compete for his only session.
- ServerSetup: three commands let a mapping be removed and its route taken by
  another id, and a second edit overlap a first; two starts let a second follow
  one that stopped half way.
- UploadQueue: two pool threads and three uploads of one stripe, so that the waits
  of two, one of which may have left its request behind, fill the pool while the
  third holds the lock and needs a thread.
- LocalCache: two commands in all, of one process or of two, let a collection run
  beside a dehydration or after it, and one command undo what another did. Of the
  four disturbances (two edits, a fault, a move) the constraint `ThreeDisturbances`
  lets three come together.
- MigrationCommand: three objects in chunks of two are halved down to one; the
  trees share pointers under different attribute files.
- Client: two faults are an interruption whose Git step goes on and a lost answer.

Symmetry is used on processes, servers, editors, tokens of one user or requests of
one kind, which no definition tells apart; no run with symmetry checks a temporal
property.

**Deadlock** is checked where the model cannot stop (ResumableUpload). Elsewhere
the requests, commands or invocations are finitely many and the model stops when
all ended; waiting in a circle is caught there by `Termination`, `Answered`,
`Returns`, `LogoutCompletes`, `InvocationEnds` or `NobodyStuck`. One circle remains,
which the code does not prevent: `Termination` supposes that no pool of blocking
threads stays full for good, and without that it is violated (section 4).

**Fairness.**

- UploadQueue: weak fairness of each request's `Step`, that is, a future whose
  operation returned is polled, and Drive and the database return (the HTTP client
  has timeouts, `busy_timeout` bounds the database). The wait for the file lock has
  no timeout and is not relied on to fail. A client reading a download body is not
  assumed to go on.
- ResumableUpload: weak fairness of the client's steps only, timeouts included;
  nothing is assumed of Drive.
- ServerRequests: weak fairness of a caller's `Enqueue` and `Answer`: the slot's
  lock is a fair mutex, and gcloud is killed after its timeout of 30 seconds.
  Nothing is assumed of clients that may leave.
- MigrationCommand and MigrationUpload: weak fairness of an invocation's own steps;
  the calls they make have timeouts. Kills and other people are not fair.
- Client: threads run, clocks advance, a process that does not hang exits; a login
  command proceeds, because each of its steps has a deadline; and, for
  `LogoutCompletes` alone, a user who wants to leave repeats the logout.

`NobodyStuck`, in Authorization and LocalCache, stands for liveness: some waiting
party can always step, and steps of one request or command never repeat.

## 4. Findings and observations

**MigrationReuse** (`migration/upload.rs:633`): after a kill in the middle of
an append, the next invocation appends its record to the torn tail; the joined
line is complete and malformed, and the invocation after that refuses the
checkpoint. The doc comment (`migration/upload.rs:188`) calls the checkpoint
"safe to reuse after interruption".

Observed while modelling; the models have each of these as the code does it, and
where a property needs an exception the exception is named in it:

- Lifecycle. The lifecycle lock is given up at the drain deadline while handlers
  still hold sessions (`server/runtime.rs:138`), which `docs/configuration.md:301`
  leaves out; hence `Exclusive`. The configuration is loaded before the lock is
  taken, and `run_migrations` reads the schema version before its transaction.
- Sessions. Each server counts only the sessions in its own memory, so a handler
  that outlives its server's drain deadline can leave a user one row more than
  `MaxPerPrincipal`, which the next start loads (`sessions.rs`,
  `enforce_session_admission`); hence `Exclusive` in the second limit of
  `LimitsHold`. The limit of all sessions and that of issuances hold without it.
- Staging. The lease is dropped before the temporary file (`server/staging.rs:2`),
  so reserved bytes return while the file is on the volume, a little earlier than
  `docs/configuration.md:223` says.
- The blocking pool. An upload waits for its file lock on a thread of Tokio's pool
  (`metadata/upload_locks.rs` 50-78), without a timeout, and the wait goes on when
  its request is dropped. Whoever holds the stripe needs a thread of the same pool to
  read the metadata and to record. When waits for held stripes occupy the whole pool,
  nobody goes on: each holder needs a thread, each thread waits for a holder, and a
  waiting client that gives up and retries adds a wait instead of removing one. It
  lasts until a holder's own client leaves, which drops the lock, or the process
  ends. With two threads TLC shows it in 14 states when the premise of `Termination`
  is taken away: a request leaves its wait behind, a second upload waits too, and the
  third, which has the lock, finds no thread. The program runs with the pool's default
  size (`main.rs:19`; Tokio's default is 512 threads), so it takes as many waits at
  once, on any of the 64 stripes: a matter of load and of abandoned requests.
- Transfers. A lookup records its row without comparing it to the row it read
  (`server/router.rs` 519-553), which repairs itself. A download's permit ends when
  Drive's response opens, so `ProviderWorkBounded` is defined and not claimed.
- Downloads. A staged download that is dropped during the final rename leaves its
  file (`google_drive/download.rs` 78-119), which `TempGone` excepts. Staged
  downloads take no reservation of the volume. One that loses to a duplicate of
  smaller id can mark the row of another live file stale (`server/router.rs`
  598-618); the next lookup repairs it. A streamed body reaches the client before
  its hash is known to be wrong. The Drive provider always streams
  (`provider_factory.rs:431`), so the staged path serves other providers.
- Batches. Buffered lookups hold their slots until the first in line is done.
- Object keys. A namespace spelled like a digest would match a file tagged with the
  sha256 format: the format is asked for and checked only by repositories that have
  one, although the comment says that the tag excludes it
  (`google_drive/object_key.rs` 83-85, `object_store.rs:1326`). Hence
  `DigestAssumption`, without which the proof of `LookupsComplete` does not go through.
- Authorization. A lock entry of a dropped request may stay in the map, harmlessly.
  A repository name can pass to another repository between GitHub's two requests
  (`github_auth.rs:499`); `AuthorizedByFreshGrant` speaks of the first.
- Configuration. Nothing locks the file between load and save
  (`config_edit.rs:333`): overlapping edits can lose one, and overlapping
  provisions can create two default folders, which `ReportedStands` and
  `OneDefaultRoot` except. A prompt stores ".lfscloud" as a root folder literally.
  A second gcloud login replaces the account of the first in one directory.
- Migration upload. `MigrationObjectUploadStatus` documents `resumed` as "True when
  this completion was restored without contacting storage" (`migration/upload.rs:90`
  and `:97`). The code contradicts it: for every object in the checkpoint it asks the
  target first, and uploads again what is gone (`migration/upload.rs` 231-242), as the
  comment of the function itself says ("every restored completion is checked against
  the active storage target", 191-192). The model does as the code.
  `SuccessWasLive` depends on it: an invocation that did what the two comments say
  would report an object that was deleted before it began, which is the property's
  mutant.
- Migration. The address in `.lfsconfig` is not excluded as a legacy source when
  it is the server's own under another route (`cli/migration.rs:304`), hence the
  proviso of `SourceKept`.
- Dehydration and collection do not see the same files. `dehydrate` accepts a path by
  the attributes in the worktree (`git check-attr`, `cli/cache.rs:645`), a collection
  looks at tracked paths with the attributes in the index (`git check-attr --cached`,
  `local_cache/garbage_collection.rs` 213-216). As long as a `.gitattributes` is not
  staged, a file can be dehydrated and the next `gc` deletes the cached copy, which is
  the only one when Git LFS has none. The comment in `local_cache/dehydration.rs`
  50-52 rules that out for a collection, which "can never observe the cache object
  after publication but before the worktree reference becomes visible": here the
  reference stays invisible. `docs/history/findings.md:113` relies on the same ("requires
  a contained, tracked `filter=lfs` path"). `DehydratedKept` is therefore about paths whose
  attributes are in the index when they are dehydrated and stay there, and TLC shows
  the deletion without that proviso.
- What the cache syncs. A cached object is synced with the directory it lies in
  (`local_cache/object_io.rs` 238-259, `local_cache/materialization.rs` 684-725), but
  not the directories above that `create_dir_all` may just have made
  (`object_io.rs:202`). A power loss after a dehydration can take such a directory and
  the only copy with it. `PowerLoss` does so, and `DehydratedKept` excepts
  it; TLC shows the loss without that.
- Local cache. `SavesSurvive` excepts a save made between an exchange and its
  undoing (`local_cache/materialization.rs` 516-533), and TLC shows the loss
  without the exception. A torn cached copy is never repaired by a later pull
  (`local_cache/object_io.rs:219`).
- Login. The session is issued before a credential helper is known to exist, and is
  not revoked when storing fails (`cli/authentication.rs:121`); a success of
  `git credential approve` is taken for a stored credential. An interrupted command
  leaves Git running in a group of its own.
- Child processes. A process group's id could be reused after the child was reaped
  (`child_process.rs:281`); the model kills what is in the group at the time.

## 5. What is proved

For every value of the constants that satisfies the modules' assumptions. An
invariant is proved by `Init => IInv`, `IInv /\ [Next]_vars => IInv'` (one step per
action) and `IInv => Inv`; every such `IInv` was first checked by TLC on the
instance of the module's run.

| Module | Theorems | The inductive invariant, and why it is needed |
|---|---|---|
| UploadTransferProofs | `Typed`, `StoredOnce` (`NoDuplicateFiles`), `RowsTruthful` (`MappingTruthful`), `SuccessesDurable` (`AcknowledgedIsDurable`), `NothingLeft` (`NothingLeaks`), `ServiceImplemented` (the refinement of ObjectService) | `HandlerInv`: a handler that records an id holds one. `StripeHeld`: from its lookup to the end of its recording an upload owns its object's stripe; only the owner, its crash and its disconnection release it. `CreatorAlone`: while an upload is about to create, no file of the object exists except late ones, because whoever else would create needs the same stripe. `LateUsed`: ids of late files are used. `PlaceInv`: what is held in each phase |
| ServerRequestsProofs | `StagingShared` (`VolumeShared`), `StagingTyped`, `TokensUsable`, `DownloadsWhole` (`ServedWhole`), `DownloadsClean` (`TempGone`), `AnswersStand` (`AnswersKept`) | TokenCache: a caller's time is no later than the start of gcloud, and a cached token falls due the skew before it expires. StagedDownload: which chunks, bytes and files each phase has, and what the thread of an abandoned download still does. LfsRequests: what is looked up is what was asked in that place, what was advertised was checked. UploadStaging: what an upload holds is a function of its step, and the counters are the sums of it over all uploads; the sum is the community modules' fold, of which the module proves that it is defined on finite sets and adds up in any order |
| AuthorizationProofs | `AuthorizationTyped`, `OneFlight` (`SingleFlight`), `FreshGrants` (`AuthorizedByFreshGrant`) | `LockInv`: the map's entry of a key counts exactly the requests that refer to it and is the one they hold, until the last of them removes it. `CallInv`, `SaidInv`, `CacheInv`, `BasisInv`: how old an answer, an entry and the ground of a decision can be |
| SessionStoreProofs | `SessionTyped`, `RevokedForGood` (`RevokedStaysRevoked`), `IssuedLasts` (`IssuedSurvives`), `RestartsPossible` (`RestartPossible`) | `LiveInv`, `HeldInv`: from its insertion on a session has its row, and a living row is in the memory of the server that is up, except between the two writes of a login; from the arithmetic of ticks and whole seconds. `KeyInv`: rows and the server that writes them use the stored key, and a rotation replaces it when there is no row. `AdmittedInv`, `RowLimits`: a login that was admitted still finds room after its row is written, in the memory and in the table |
| ResumableUploadProofs | `ObjectsWhole` (`WholeObject`), `HonestDriveAccepted` (`NoFalseAlarm`), `LookupsComplete` (`SearchComplete`) | `ChunksInv`: no chunk that was given up starts beyond what Drive has, and neither it nor what Drive has ends beyond the chunk that the client would send now. `RequestInv`: an answer, read when Drive may have more, is still one the client accepts. `FolderInv`: files are put in folders of the shard, and nothing leaves Drive. `FindInv`: the file that was there when the lookup began was found or is in a folder still to search. `TagsIdentify`: the properties of two objects differ |
| LocalCacheProofs | `DehydratedStays` (`DehydratedKept`), `SavesStay` (`SavesSurvive`) | `ProcInv`: what a process at each label works on, which locks it holds, and what they keep: while it has traded names at a path no other does and no pointer left there counts, the object for whose pointer it trades is synced in the cache, and what a collection is about to delete is left by no pointer at a path whose attributes are staged. `HeldInv`: a pointer that a dehydration left at such a path is still there and the path still staged, its worktree is registered or was pruned while away, and unless pruned its object is synced in the cache, short of a power loss that takes the directory. `SaveInv`: what a user saved is at its path, in a recovery file, or in the temporary file of a process that will put it back |
| ClientProofs | `CommandsEnd` (`CommandOver`), `StoreAgrees` (`CredentialsAgree`), `MigrationTyped`, `ReportsTruthful` (`CheckpointTruthful`), `SuccessesLive` (`SuccessWasLive`) | ChildProcess: a reader sends its event only for an output that is whole or exceeds the limit, and from the moment the wait gives up the child is reaped and its group empty. ClientLogin: a token that is being stored is nowhere yet; at a repository's path the store has only tokens of that repository; a Git step that an interrupted command left behind rejects only a token that was revoked, and does not store the token of the command that runs now. MigrationUpload: what an invocation is about to record was stored, and was in the target since the invocation began unless it was deleted meanwhile (`LiveInv`); as long as no append broke off, the file is whole lines and keeps what was restored and reported |
| ServerSetupProofs | `MappingsStand` (`ReportedStands`), `RootsSingle` (`OneDefaultRoot`), `RoutesOwned` (`RoutesReachOwn`), `StartsServe` (`ServedAsConfigured`) | `EditInv`: a command that nobody overlaps holds the file as it is, and each edit leaves every other mapping (lemmas about appending to, removing from and replacing in a sequence). `FolderInv`: when an account's command is about to create a default folder no live one exists, unless another search overlapped. `RouteInv`: a server that was not refused serves a configuration that passed its validation, in which an address has at most one mapping. `ServedInv`: the file always loads; whoever is past the lock holds it, so that nobody else changes the database; a database is one a release may have left, which the migrations and every loaded configuration apply to, because a row that is not configured under its route has given the route up |

The attempt to prove `HeldInv` corrected the model: a dehydrated empty file was
recorded as one whose object the cache must keep, but an empty file is its own
pointer, and the code stores nothing for it.

Theorems named like no property of a run state `TypeOK`, which no run lists.

**Assumptions** the proofs rest on are the named ASSUMEs of the modules, which TLC
evaluates on every instance: null values are no values, sets of requests of
different kinds are disjoint, limits are positive, sets of tokens and uploads are
finite, ids that Drive gives are numbers, some object is within the upload limit, and
the setup starts with a file of known entries and at most one live default folder of
an account (`SetupAssumption`), and with a file that loads and a database whose schema
has nothing that later releases add (`DatabaseAssumption`).
`TokensUsable` has a hypothesis beside them, that a token lives longer than the skew
or than gcloud may take (otherwise no token of gcloud is ever usable).
`LookupsComplete` rests on two that the code does not establish. `DigestAssumption`:
no repository is named like the digest of another's long name, which the code does
not prevent (section 4). `OtherFilesAssumption`: Drive's ids are unique, and a file
with an object's properties and the size they say has its bytes; the properties are
private to the server, and a lookup compares the size but not the contents.

**Refinement.** The mapping of `UploadTransfer` gives ObjectService the files, the
Drive id each request holds (`got`) as its witness, and `Reply(c)`, which depends on
the phase alone. `Create`, `LateCreate` and `ExternalDelete` change the files, a
lookup that finds a file is the witness, the actions that answer are the replies, a
disconnection or a crash drops the waiting requests, and every other action is a
stutter. That a success has a witness is `HandlerInv`: in the phases that can answer
"ok" a handler holds an id, and before its lookup it holds none.

**Only model-checked:**

- Liveness (`Termination`, `Answered`, `Returns`, `LogoutCompletes`,
  `InvocationEnds`) and the two `NobodyStuck`: fairness and `ENABLED` are out of
  the prover's reach.
- MigrationCommand's `ScanComplete`, `NotStranded` and `SourceKept`: what they say
  depends on what the scan's recursive walk of a history finds, and what a
  recursive definition computes is shown by induction over data, for which the
  library's theorems need an operator as a parameter. TLC compares the walk with
  its reference definition on the run's histories.

## 6. What is not modelled

- Bytes on the wire: JSON, YAML, headers, URLs, page tokens, Range requests, the
  computation of hashes. Outcomes (an error, a mismatch, an incomplete search) are.
- Text: reports, prompts, logging (`logging.rs`), the declaration of errors, and
  what `status` and the listings print. Argument parsing (`cli/command.rs`) is
  declarative.
- `metadata/instance.rs`: an identity written once when a database is created.
- Sessions: an explicitly configured secret, tokens protected under older
  schemes, a system clock that steps backwards; the issuance window is lost at a
  restart, in the model as in the code.
- Staging: a write that Tokio's file still performs after its future is gone.
- Child processes: an I/O error of `try_wait` (`child_process.rs:232`), with which the
  wait returns without stopping the process tree. The operating system gives it only
  for a child that the program does not have, but `CommandOver` says nothing about it.
- Local cache: writes through a descriptor opened before an exchange, systems
  without an atomic exchange, power loss of worktree files themselves, a worktree moved
  while a command runs in it.
- Git itself: its ref store, its object database and its credential protocol are
  external steps with their outcomes; quoting and output formats are left out.
- Drive: only honest behaviour; a Drive that loses committed bytes is refused by
  the code and not modelled.

## 7. Plan

What remains to be proved are the properties of MigrationCommand. They would need
the walk of a history restated without recursion first, as a fixed point whose
members TLC compares with the walk's. The safety properties of all other modules are
proved, the two `NobodyStuck` excepted.

## 8. Running

In this directory, `tlc -workers 2 -config X.cfg M` for the module and
configuration of a run in `PROJECT.json`, and `tlapm M.tla` for each module whose
name ends in `Proofs`.
