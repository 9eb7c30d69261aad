---------------------------- MODULE ServerSetup ----------------------------
(***************************************************************************)
(* Setting a server up: the commands that edit its configuration file, the *)
(* authorization of Google Drive and the default root folder they create,  *)
(* and the start of the server on that file: loading it, the process lock, *)
(* the schema migrations and the configuration rows of the metadata        *)
(* database, the readiness of the storage roots and the request routes.    *)
(* An editing command holds its own copy of the file from its load to its  *)
(* save, while the operator answers prompts or authorizes Drive.           *)
(***************************************************************************)
EXTENDS Naturals, Sequences, FiniteSets, SequencesExt

CONSTANTS
  Editors,       \* editing commands that may run at the same time
  Servers,       \* server processes that may be started
  Providers,     \* IDs of repository providers (all of type github)
  Storages,      \* IDs of storage providers (all of type google_drive)
  MappingIds,    \* IDs of served repositories
  Identities,    \* host/owner/name of a repository, as it is spelt
  Lower,         \* Lower[i]: the identity i in lower case
  Malformed,     \* the identities a route cannot carry, or without numeric ID
  Dirs,          \* gcloud configuration directories
  DefaultDir,    \* default_gcloud_config_reference()
  Accounts,      \* Google accounts an operator may log in with
  FolderIds,     \* IDs Drive may give to folders, as numbers
  DefaultName,   \* ".lfscloud", the name of the default root folder
  OfferedRoots,  \* folder IDs an operator may name
  None,          \* an omitted flag, no account, no owner
  InitialSetups, \* what an operator may start from: file, adc, folder, db
  MaxCommands, MaxStarts, MaxTrashed

SchemaVersion == 7

(* An operator starts with a file that names providers, storages and        *)
(* repositories, and with at most one default root folder in an account.    *)
ASSUME SetupAssumption ==
  /\ FolderIds \subseteq Nat /\ DefaultDir \in Dirs
  /\ \A setup \in InitialSetups :
       /\ setup.file \in [providers : SUBSET Providers,
                          storages : UNION {[S -> [dir : Dirs,
                                                    root : FolderIds \cup OfferedRoots]] :
                                              S \in SUBSET Storages},
                          repositories : Seq([id : MappingIds,
                                              provider : Providers,
                                              identity : Identities,
                                              storage : Storages])]
       /\ setup.folder \in [FolderIds -> [owner : Accounts \cup {None}, live : BOOLEAN]]
       /\ \A f, g \in FolderIds, a \in Accounts :
            setup.folder[f] = [owner |-> a, live |-> TRUE] /\ setup.folder[g] = setup.folder[f]
              => f = g

VARIABLES
  file,      \* the configuration file
  editor,    \* the editing commands
  adc,       \* adc[d]: the account whose credentials directory d holds
  folder,    \* folder[f]: who owns the default root folder f, whether it lives
  db,        \* the metadata database
  server,    \* the server processes
  lock,      \* the process that holds the lock beside the database
  reported,  \* history: mappings reported as saved that should still stand
  raced,     \* history: two commands were about to create a folder at once
  used       \* how often commands, starts and trashings happened (bounded)
vars == <<file, editor, adc, folder, db, server, lock, reported, raced, used>>

-----------------------------------------------------------------------------
(* Configurations.                                                          *)

Given(value, old) == IF value = None THEN old ELSE value

EmptyConfig == [providers |-> {}, storages |-> <<>>, repositories |-> <<>>]

RepositoryIds(c) == {c.repositories[i].id : i \in DOMAIN c.repositories}

(* What each part of the file must satisfy on its own: the identifiers and  *)
(* route components are well formed and environment references resolve.     *)
RepositoryMappingFromRaw(m) == m.identity \notin Malformed

(* GitHub's identities ignore case, and so do the routes made of them.      *)
RouteKeyExact(m) == m.identity
RouteKey(m) == Lower[m.identity]

(* References name existing entries; IDs and routes are unique.             *)
validate_references(c) ==
  LET R == c.repositories
  IN  /\ \A i \in DOMAIN R : /\ R[i].provider \in c.providers
                             /\ R[i].storage \in DOMAIN c.storages
      /\ \A i, j \in DOMAIN R :
           i # j => R[i].id # R[j].id /\ RouteKey(R[i]) # RouteKey(R[j])

from_raw(c) ==
  /\ \A i \in DOMAIN c.repositories : RepositoryMappingFromRaw(c.repositories[i])
  /\ validate_references(c)

(* The edits of the document in memory.  Each yields the set of documents   *)
(* to save: none when a new entry misses a required value or the entry to   *)
(* remove is not there.  Fields that no property is about (URLs, display    *)
(* names) are left out: an edit of one of them saves an equal document.     *)

upsert_repository_provider(c, id) ==
  {[c EXCEPT !.providers = @ \cup {id}]}

remove_repository_provider(c, id) ==
  {[c EXCEPT !.providers = @ \ {id}] : x \in c.providers \cap {id}}

upsert_storage_provider(c, id, v) ==
  LET existed == id \in DOMAIN c.storages
      old == IF existed THEN c.storages[id] ELSE [dir |-> None, root |-> None]
      new == [dir |-> Given(v.dir, old.dir), root |-> Given(v.root, old.root)]
  IN  IF None \in {new.dir, new.root} THEN {}
      ELSE {[c EXCEPT !.storages =
              [s \in DOMAIN @ \cup {id} |-> IF s = id THEN new ELSE @[s]]]}

remove_storage_provider(c, id) ==
  {[c EXCEPT !.storages = [s \in DOMAIN @ \ {id} |-> @[s]]] :
     x \in DOMAIN c.storages \cap {id}}

Positions(c, id) == {i \in DOMAIN c.repositories : c.repositories[i].id = id}

upsert_repository(c, id, v) ==
  LET at == Positions(c, id)
      old == IF at # {} THEN c.repositories[CHOOSE i \in at : TRUE]
             ELSE [provider |-> None, identity |-> None, storage |-> None]
      new == [id |-> id,
              provider |-> Given(v.provider, old.provider),
              identity |-> Given(v.identity, old.identity),
              storage |-> Given(v.storage, old.storage)]
  IN  IF None \in {new.provider, new.identity, new.storage} THEN {}
      ELSE {[c EXCEPT !.repositories =
              IF at # {} THEN [@ EXCEPT ![CHOOSE i \in at : TRUE] = new]
              ELSE Append(@, new)]}

remove_repository_last(c, id) ==
  {[c EXCEPT !.repositories = RemoveAt(@, Len(@))] : i \in Positions(c, id)}
remove_repository(c, id) ==
  {[c EXCEPT !.repositories = RemoveAt(@, i)] : i \in Positions(c, id)}

Edited(c, cmd) ==
  CASE cmd.op = "repository_provider_add" -> upsert_repository_provider(c, cmd.id)
    [] cmd.op = "repository_provider_remove" -> remove_repository_provider(c, cmd.id)
    [] cmd.op = "storage_provider_add" -> upsert_storage_provider(c, cmd.id, cmd.values)
    [] cmd.op = "storage_provider_remove" -> remove_storage_provider(c, cmd.id)
    [] cmd.op = "repository_add" -> upsert_repository(c, cmd.id, cmd.values)
    [] cmd.op = "repository_remove" -> remove_repository(c, cmd.id)

-----------------------------------------------------------------------------
(* The commands an operator may give on the document c.                     *)

(* Flags name any ID and may omit what an update keeps.                     *)
FlaggedRepositories ==
  [op : {"repository_add"}, id : MappingIds,
   values : [provider : Providers \cup {None},
             identity : Identities \cup {None},
             storage : Storages \cup {None}]]

(* GitHub is asked for the numeric ID of a well-formed identity only.       *)
resolve_github_repository_id(identity) == identity \notin Malformed

(* The prompts offer the providers of the document and ask for the rest.    *)
prompt_repository(c) ==
  [op : {"repository_add"}, id : MappingIds,
   values : [provider : c.providers, storage : DOMAIN c.storages,
             identity : {i \in Identities : resolve_github_repository_id(i)}]]

(* A removal names an entry, or is offered those of the document.           *)
select_remove_id(c) ==
  [op : {"repository_provider_remove"}, id : c.providers]
    \cup [op : {"storage_provider_remove"}, id : DOMAIN c.storages]
    \cup [op : {"repository_remove"}, id : RepositoryIds(c)]

prompt_repository_provider == [op : {"repository_provider_add"}, id : Providers]

StorageCommand(id, dir, root) ==
  [op |-> "storage_provider_add", id |-> id,
   values |-> [dir |-> dir, root |-> root]]

(* Flags without a client secret: a directory that replaces another one     *)
(* must already hold credentials.                                           *)
validate_changed_gcloud_config_directory(c, cmd) ==
  (/\ cmd.values.dir # None
   /\ cmd.id \in DOMAIN c.storages
   /\ c.storages[cmd.id].dir # cmd.values.dir) => adc[cmd.values.dir] # None

(* Flags with a client secret: a new provider gets the default directory    *)
(* and, without a root, the default folder.                                 *)
into_prepared(c, id, dir, root) ==
  LET new == id \notin DOMAIN c.storages
  IN  [cmd |-> StorageCommand(id, IF new THEN Given(dir, DefaultDir) ELSE dir, root),
       provision |-> new /\ root = None]

(* The prompts always ask for a directory and a root; the default of a new  *)
(* provider is the name of the default folder.                              *)
prompt_storage_provider(c, id, dir, root) ==
  [cmd |-> StorageCommand(id, dir, root),
   provision |-> id \notin DOMAIN c.storages /\ root = DefaultName]

Prepared(c) ==
  {into_prepared(c, id, dir, root) :
     id \in Storages, dir \in Dirs \cup {None}, root \in OfferedRoots \cup {None}}
  \cup {prompt_storage_provider(c, id, dir, root) :
     id \in Storages, dir \in Dirs, root \in OfferedRoots \cup {DefaultName}}

(* with_effective_values: the directory that the login writes to.           *)
EffectiveDir(c, cmd) ==
  IF cmd.values.dir # None THEN cmd.values.dir ELSE c.storages[cmd.id].dir

-----------------------------------------------------------------------------
Idle == [pc |-> "idle", doc |-> EmptyConfig, alone |-> TRUE, cmd |-> None,
         account |-> None]
Down == [pc |-> "down", config |-> EmptyConfig]

Init ==
  /\ \E setup \in InitialSetups : /\ file = setup.file
                                  /\ adc = setup.adc
                                  /\ folder = setup.folder
                                  /\ db = setup.db
  /\ editor = [e \in Editors |-> Idle]
  /\ server = [p \in Servers |-> Down]
  /\ lock = None
  /\ reported = {}
  /\ raced = FALSE
  /\ used = [commands |-> 0, starts |-> 0, trashed |-> 0]

-----------------------------------------------------------------------------
(* The editing commands.                                                    *)

(* EditableServerConfig::load: the command reads the file (which is created *)
(* when it is missing) and works on its copy.  No lock is taken.            *)
Load(e) ==
  /\ editor[e].pc = "idle"
  /\ used.commands < MaxCommands
  /\ LET alone == \A o \in Editors : editor[o].pc = "idle"
     IN  editor' = [o \in Editors |->
           IF o = e THEN [Idle EXCEPT !.pc = "loaded", !.doc = file, !.alone = alone]
           ELSE [editor[o] EXCEPT !.alone = @ /\ editor[o].pc = "idle"]]
  /\ used' = [used EXCEPT !.commands = @ + 1]
  /\ UNCHANGED <<file, adc, folder, db, server, lock, reported, raced>>

(* The command ends: its copy of the file is gone.                          *)
Ended(e) == editor' = [editor EXCEPT ![e] = Idle]

(* What the operator may rely on after a command saved the file: a mapping  *)
(* that was reported, unless this command changed it or ran at the same     *)
(* time as another one.                                                     *)
Standing(e, cmd, new) ==
  LET entries == ToSet(new.repositories)
      kept == {m \in reported : cmd.op \in {"repository_add", "repository_remove"}
                                  => m.id # cmd.id}
      added == IF cmd.op = "repository_add"
               THEN {m \in entries : m.id = cmd.id} ELSE {}
  IN  IF editor[e].alone THEN kept \cup added ELSE (kept \cup added) \cap entries

(* save: the new document is validated as a server would load it, written   *)
(* to a temporary file, synced and renamed over the old one.                *)
Save(e, cmd) ==
  \E new \in Edited(editor[e].doc, cmd) :
    /\ from_raw(new)
    /\ file' = new
    /\ reported' = Standing(e, cmd, new)

(* A command that needs no authorization.                                   *)
EditConfiguration(e, cmd) ==
  /\ editor[e].pc = "loaded"
  /\ cmd.op = "storage_provider_add" =>
       validate_changed_gcloud_config_directory(editor[e].doc, cmd)
  /\ Save(e, cmd)
  /\ Ended(e)
  /\ UNCHANGED <<adc, folder, db, server, lock, raced, used>>

(* authorize_google_drive_adc: the operator logs in and gcloud writes the   *)
(* credentials into the directory.                                          *)
AuthorizeGoogleDrive(e, prepared, account) ==
  /\ editor[e].pc = "loaded"
  /\ prepared.cmd.values.dir = None => prepared.cmd.id \in DOMAIN editor[e].doc.storages
  /\ adc' = [adc EXCEPT ![EffectiveDir(editor[e].doc, prepared.cmd)] = account]
  /\ editor' = [editor EXCEPT ![e].cmd = prepared.cmd,
                              ![e].pc = IF prepared.provision THEN "lookup" ELSE "save"]
  /\ UNCHANGED <<file, folder, db, server, lock, reported, raced, used>>

(* The default root folders of an account: found by name, kind and private  *)
(* property, not in the trash.                                              *)
DefaultRootFolders(account) ==
  {f \in FolderIds : folder[f] = [owner |-> account, live |-> TRUE]}

Least(S) == CHOOSE x \in S : \A y \in S : x <= y

(* ensure_default_root_folder, its lookup, with a token of the directory.   *)
(* Several folders are possible: the first in the order of their IDs.       *)
LookupNothing(e) ==
  /\ editor[e].pc = "lookup"
  /\ LET account == adc[EffectiveDir(editor[e].doc, editor[e].cmd)]
     IN  editor' = [editor EXCEPT ![e].pc = "create", ![e].account = account]
  /\ UNCHANGED <<file, adc, folder, db, server, lock, reported, raced, used>>
LookupDefaultRoot(e) ==
  /\ editor[e].pc = "lookup"
  /\ LET account == adc[EffectiveDir(editor[e].doc, editor[e].cmd)]
         found == DefaultRootFolders(account)
     IN  editor' =
           IF found # {}
           THEN [editor EXCEPT ![e].pc = "save",
                               ![e].cmd.values.root = Least(found)]
           ELSE [editor EXCEPT ![e].pc = "create", ![e].account = account]
  /\ UNCHANGED <<file, adc, folder, db, server, lock, reported, raced, used>>

(* ensure_default_root_folder, the creation.  Its answer may be lost.       *)
CreateDefaultRoot(e, f) ==
  /\ editor[e].pc = "create"
  /\ folder[f].owner = None
  /\ folder' = [folder EXCEPT ![f] = [owner |-> editor[e].account, live |-> TRUE]]
  /\ raced' = (raced \/ \E o \in Editors \ {e} :
                          /\ editor[o].pc = "create"
                          /\ editor[o].account = editor[e].account)
  /\ \/ editor' = [editor EXCEPT ![e].pc = "save", ![e].cmd.values.root = f]
     \/ Ended(e)
  /\ UNCHANGED <<file, adc, db, server, lock, reported, used>>

(* The storage provider is entered once Drive is authorized.                *)
SaveStorageProvider(e) ==
  /\ editor[e].pc = "save"
  /\ Save(e, editor[e].cmd)
  /\ Ended(e)
  /\ UNCHANGED <<adc, folder, db, server, lock, raced, used>>

(* A command is cancelled or killed, fails, is refused, changes nothing or  *)
(* only lists: the file stays as it is, and so does what Drive and gcloud   *)
(* already did.                                                             *)
EndWithoutSaving(e) ==
  /\ editor[e].pc # "idle"
  /\ Ended(e)
  /\ UNCHANGED <<file, adc, folder, db, server, lock, reported, raced, used>>

(* Somebody moves a folder to the trash.                                    *)
TrashFolder(f) ==
  /\ folder[f].live
  /\ used.trashed < MaxTrashed
  /\ folder' = [folder EXCEPT ![f].live = FALSE]
  /\ used' = [used EXCEPT !.trashed = @ + 1]
  /\ UNCHANGED <<file, editor, adc, db, server, lock, reported, raced>>

-----------------------------------------------------------------------------
(* The metadata database.  A database of version v was written by the       *)
(* release whose schema that is; its sessions are sealed with the key of    *)
(* that release.                                                            *)

(* What a migration adds to the schema.                                     *)
Adds(v) ==
  CASE v = 3 -> {"session_tokens"}
    [] v = 4 -> {"is_active"}
    [] v = 7 -> {"server_properties"}
    [] OTHER -> {}

DeletesSessions(v) == v \in {5, 6}

(* What a database may hold.                                                *)
Databases ==
  [version : Nat, schema : SUBSET UNION {Adds(v) : v \in 1..SchemaVersion},
   sessions : {"none", "current", "retired"},
   storages : UNION {[S -> FolderIds \cup OfferedRoots \cup {DefaultName}] :
                       S \in SUBSET Storages},
   rows : UNION {[I -> [route : Identities \cup MappingIds, storage : Storages,
                        active : BOOLEAN]] : I \in SUBSET MappingIds}]

(* A database is as a release left it: it has nothing that a later          *)
(* migration adds, and its sessions are of that release.  The file beside   *)
(* it is one that a server loads.                                           *)
ASSUME DatabaseAssumption ==
  /\ None \notin Servers /\ MappingIds \cap Identities = {}
  /\ \A setup \in InitialSetups :
       /\ from_raw(setup.file) /\ setup.db \in Databases
       /\ \A v \in 1..SchemaVersion :
            v > setup.db.version => Adds(v) \cap setup.db.schema = {}
       /\ setup.db.version >= 6 => setup.db.sessions # "retired"

(* run_migrations: every migration above the version of the database, in    *)
(* order and in one transaction.  SQLite refuses all of them when one adds  *)
(* a column or a table that is there, or that one before it added.          *)
Pending(d) == {v \in 2..SchemaVersion : v > d.version}

SchemaBefore(d, v) ==
  d.schema \cup UNION {Adds(w) : w \in {x \in Pending(d) : x < v}}

MigrationRefused(d) == \E v \in Pending(d) : Adds(v) \cap SchemaBefore(d, v) # {}

run_migrations(d) ==
  [d EXCEPT !.version = SchemaVersion,
            !.schema = @ \cup UNION {Adds(v) : v \in Pending(d)},
            !.sessions = IF \E v \in Pending(d) : DeletesSessions(v) THEN "none" ELSE @]

(* Rows of repository_mappings.  'inactive:' and an ID is a route no        *)
(* repository has; the ID stands for it.                                    *)
InactiveRoute(id) == id

ConfiguredRoute(c, id) ==
  {c.repositories[i].identity : i \in Positions(c, id)}

(* A mapping that is not configured, or not under that route any more,      *)
(* gives its route up.                                                      *)
release_removed_routes(rows, c) ==
  [id \in DOMAIN rows |->
     IF Positions(c, id) # {} THEN rows[id]
     ELSE [rows[id] EXCEPT !.route = InactiveRoute(id), !.active = FALSE]]
release_inactive_repository_routes(rows, c) ==
  [id \in DOMAIN rows |->
     IF rows[id].route \in ConfiguredRoute(c, id) THEN rows[id]
     ELSE [rows[id] EXCEPT !.route = InactiveRoute(id), !.active = FALSE]]

(* The upserts of the mappings R, one after the other: the rows after the   *)
(* first n.                                                                 *)
LatestOf(R, n, id) ==
  CHOOSE i \in 1..n : R[i].id = id /\ \A j \in (i + 1)..n : R[j].id # id

upsert_repository_mapping(rows, R, n) ==
  LET ids == {R[i].id : i \in 1..n}
      Upserted(m) == [route |-> m.identity, storage |-> m.storage, active |-> TRUE]
  IN  [id \in DOMAIN rows \cup ids |->
         IF id \in ids THEN Upserted(R[LatestOf(R, n, id)]) ELSE rows[id]]

(* The UNIQUE route, or the foreign key of the storage provider, refuses m. *)
MappingRefused(rows, storages, m) ==
  \/ m.storage \notin storages
  \/ \E id \in DOMAIN rows \ {m.id} : rows[id].route = m.identity

StorageRows(d, c) ==
  [s \in DOMAIN d.storages \cup DOMAIN c.storages |->
     IF s \in DOMAIN c.storages THEN c.storages[s].root ELSE d.storages[s]]

(* sync_config: one transaction, refused as a whole.                        *)
SyncRefused(d, c) ==
  LET R == c.repositories
      released == release_inactive_repository_routes(d.rows, c)
  IN  \E n \in DOMAIN R :
        MappingRefused(upsert_repository_mapping(released, R, n - 1),
                       DOMAIN StorageRows(d, c), R[n])

sync_config(d, c) ==
  LET R == c.repositories
      released == release_inactive_repository_routes(d.rows, c)
  IN  [d EXCEPT !.storages = StorageRows(d, c),
                !.rows = upsert_repository_mapping(released, R, Len(R))]

-----------------------------------------------------------------------------
(* The start of a server, in the order of ServerBuilder::serve.             *)

At(p, pc) == server[p].pc = pc

(* The file is loaded, and validated, before the lock is taken.             *)
LoadConfiguration(p) ==
  /\ At(p, "down")
  /\ used.starts < MaxStarts
  /\ used' = [used EXCEPT !.starts = @ + 1]
  /\ server' = [server EXCEPT ![p] =
       IF from_raw(file) THEN [pc |-> "loaded", config |-> file]
       ELSE [pc |-> "broken", config |-> file]]
  /\ UNCHANGED <<file, editor, adc, folder, db, lock, reported, raced>>

(* ServerProcessLock::acquire, without waiting.                             *)
AcquireLock(p) ==
  /\ At(p, "loaded")
  /\ IF lock = None
     THEN lock' = p /\ server' = [server EXCEPT ![p].pc = "locked"]
     ELSE server' = [server EXCEPT ![p] = Down] /\ UNCHANGED lock
  /\ UNCHANGED <<file, editor, adc, folder, db, reported, raced, used>>

(* A start that the database refuses ends, and its lock with it.            *)
Broken(p) ==
  /\ server' = [server EXCEPT ![p].pc = "broken"]
  /\ lock' = None
  /\ UNCHANGED db

(* MetadataDatabase::open: a database of a newer release is left alone.     *)
OpenDatabase(p) ==
  /\ At(p, "locked")
  /\ IF db.version > SchemaVersion
     THEN /\ server' = [server EXCEPT ![p] = Down]
          /\ lock' = None
          /\ UNCHANGED db
     ELSE IF MigrationRefused(db) THEN Broken(p)
     ELSE /\ db' = run_migrations(db)
          /\ server' = [server EXCEPT ![p].pc = "open"]
          /\ UNCHANGED lock
  /\ UNCHANGED <<file, editor, adc, folder, reported, raced, used>>

SyncConfiguration(p) ==
  /\ At(p, "open")
  /\ IF SyncRefused(db, server[p].config) THEN Broken(p)
     ELSE /\ db' = sync_config(db, server[p].config)
          /\ server' = [server EXCEPT ![p].pc = "synced"]
          /\ UNCHANGED lock
  /\ UNCHANGED <<file, editor, adc, folder, reported, raced, used>>

(* single_github_provider: sessions are kept for one GitHub provider.       *)
SingleGitHubProvider(c) == Cardinality(c.providers) <= 1

(* validate_server_readiness: a token of the configured directory reaches   *)
(* the configured root, a folder that lives and takes new files.            *)
validate_root_folder(s) ==
  /\ s.root \in FolderIds
  /\ adc[s.dir] # None
  /\ folder[s.root] = [owner |-> adc[s.dir], live |-> TRUE]

(* ServerStorageProviderFactory::build                                      *)
build(c) == \A s \in DOMAIN c.storages : validate_root_folder(c.storages[s])

(* The session store, the storage providers, the router and the listener.   *)
BuildAndBind(p) ==
  /\ At(p, "synced")
  /\ SingleGitHubProvider(server[p].config) /\ build(server[p].config)
  /\ server' = [server EXCEPT ![p].pc = "serving"]
  /\ UNCHANGED <<file, editor, adc, folder, db, lock, reported, raced, used>>

(* A server that serves records sessions under the key of this release.     *)
RecordSession(p) ==
  /\ At(p, "serving")
  /\ db.sessions = "none"
  /\ db' = [db EXCEPT !.sessions = "current"]
  /\ UNCHANGED <<file, editor, adc, folder, server, lock, reported, raced, used>>

(* The process ends: it is stopped or killed, or a step of its start fails. *)
Stop(p) ==
  /\ server[p].pc \notin {"down", "broken"}
  /\ server' = [server EXCEPT ![p] = Down]
  /\ lock' = IF lock = p THEN None ELSE lock
  /\ UNCHANGED <<file, editor, adc, folder, db, reported, raced, used>>

-----------------------------------------------------------------------------
Next ==
  \/ \E e \in Editors :
       \/ Load(e)
       \/ \E cmd \in FlaggedRepositories \cup prompt_repository(editor[e].doc) :
            EditConfiguration(e, cmd)
       \/ \E cmd \in select_remove_id(editor[e].doc) : EditConfiguration(e, cmd)
       \/ \E cmd \in prompt_repository_provider : EditConfiguration(e, cmd)
       \/ \E id \in Storages, dir \in Dirs \cup {None}, root \in OfferedRoots \cup {None} :
            EditConfiguration(e, StorageCommand(id, dir, root))
       \/ \E prepared \in Prepared(editor[e].doc), account \in Accounts :
            AuthorizeGoogleDrive(e, prepared, account)
       \/ LookupDefaultRoot(e)
       \/ \E f \in FolderIds : CreateDefaultRoot(e, f)
       \/ SaveStorageProvider(e)
       \/ EndWithoutSaving(e)
  \/ \E f \in FolderIds : TrashFolder(f)
  \/ \E p \in Servers :
       \/ LoadConfiguration(p)
       \/ AcquireLock(p)
       \/ OpenDatabase(p)
       \/ SyncConfiguration(p)
       \/ BuildAndBind(p)
       \/ RecordSession(p)
       \/ Stop(p)

Spec == Init /\ [][Next]_vars

-----------------------------------------------------------------------------
(* The routes of a running server.                                          *)

(* LfsRouteResolver::resolve_path: the first configured repository whose    *)
(* identity is the requested one in another case.  All route paths end in   *)
(* the same suffix, so that none is a prefix of another.                    *)
resolve_path(c, identity) ==
  LET hits == {i \in DOMAIN c.repositories :
                 Lower[c.repositories[i].identity] = Lower[identity]}
  IN  IF hits = {} THEN None ELSE c.repositories[Least(hits)].id

-----------------------------------------------------------------------------
(* No start fails on the configuration file or on the database: whatever    *)
(* edits were saved, in whatever order and by however many commands at      *)
(* once, the file loads, the migrations apply and the rows of the database  *)
(* take the new configuration: routes that moved from one repository to     *)
(* another, mappings that were removed and added again.                     *)
StartsClean == \A p \in Servers : ~At(p, "broken")

(* While a server serves, the database is of its schema and says what the   *)
(* server was configured with: the active mappings with their routes and    *)
(* storage, and the storage roots, are those of its configuration and of no *)
(* other; no session of a retired key is left.                              *)
RowsMatchServer ==
  \A p \in Servers : At(p, "serving") =>
    LET c == server[p].config
        active == {id \in DOMAIN db.rows : db.rows[id].active}
    IN  /\ db.version = SchemaVersion
        /\ db.sessions # "retired"
        /\ active = RepositoryIds(c)
        /\ \A i \in DOMAIN c.repositories :
             LET m == c.repositories[i]
             IN  db.rows[m.id] =
                   [route |-> m.identity, storage |-> m.storage, active |-> TRUE]
        /\ \A s \in DOMAIN c.storages : db.storages[s] = c.storages[s].root

(* Whatever was edited and restarted before, a server starts, and serves    *)
(* with a database that is its own.                                         *)
ServedAsConfigured == StartsClean /\ RowsMatchServer

(* Every repository of a running server is reached by its own route: no     *)
(* other mapping answers for it, in whatever case its identity is spelt.    *)
RoutesReachOwn ==
  \A p \in Servers : At(p, "serving") =>
    \A i \in DOMAIN server[p].config.repositories :
      LET m == server[p].config.repositories[i]
      IN  \A spelt \in {x \in Identities : Lower[x] = Lower[m.identity]} :
            resolve_path(server[p].config, spelt) = m.id

(* A mapping that a command reported as saved stands until a command        *)
(* changes or removes it, as long as commands do not overlap: editing       *)
(* another entry never touches it.                                          *)
ReportedStands == reported \subseteq ToSet(file.repositories)

(* Setting storage up again, after the answer to a creation was lost or the *)
(* file was not saved, uses the folder that is there: an account has at     *)
(* most one default root folder unless two commands were about to create it *)
(* at the same time.                                                        *)
OneDefaultRoot ==
  ~raced => \A a \in Accounts : Cardinality(DefaultRootFolders(a)) <= 1
=============================================================================
