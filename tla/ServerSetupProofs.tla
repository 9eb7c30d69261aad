------------------------- MODULE ServerSetupProofs -------------------------
(* Theorems about the setup of a server: its configuration file, the       *)
(* default root folder, the routes, its start and its database, for any    *)
(* number of commands and starts and whatever an operator starts from.     *)
EXTENDS ServerSetup, FiniteSetTheorems, TLAPS

----------------------------------------------------------------------------
(* Configurations and the edits of them.                                   *)

Mappings ==
  [id : MappingIds, provider : Providers, identity : Identities, storage : Storages]

Config(c) ==
  /\ c = [providers |-> c.providers, storages |-> c.storages,
          repositories |-> c.repositories]
  /\ c.providers \subseteq Providers /\ DOMAIN c.storages \subseteq Storages
  /\ c.repositories \in Seq(Mappings)

(* A command on a repository or on something that repositories refer to.   *)
Command(cmd) ==
  /\ cmd.op \in {"repository_provider_add", "repository_provider_remove",
                 "storage_provider_add", "storage_provider_remove",
                 "repository_add", "repository_remove"}
  /\ cmd.op = "repository_provider_add" => cmd.id \in Providers
  /\ cmd.op = "storage_provider_add" => cmd.id \in Storages
  /\ cmd.op = "repository_add" =>
       /\ cmd.id \in MappingIds
       /\ cmd.values.provider \in Providers \cup {None}
       /\ cmd.values.identity \in Identities \cup {None}
       /\ cmd.values.storage \in Storages \cup {None}

(* What an edit leaves alone.                                              *)
Untouched(c, cmd, new) ==
  \A m \in ToSet(c.repositories) :
    \/ cmd.op \in {"repository_add", "repository_remove"} /\ m.id = cmd.id
    \/ m \in ToSet(new.repositories)

LEMMA RemoveAtKeeps ==
  ASSUME NEW S, NEW s \in Seq(S), NEW i \in DOMAIN s
  PROVE  /\ RemoveAt(s, i) \in Seq(S)
         /\ \A j \in DOMAIN s : j # i => s[j] \in ToSet(RemoveAt(s, i))
<1> DEFINE left == SubSeq(s, 1, i - 1)  right == SubSeq(s, i + 1, Len(s))
<1>1. i \in 1..Len(s) /\ Len(s) \in Nat OBVIOUS
<1>2. /\ left \in Seq(S) /\ Len(left) = i - 1
      /\ \A j \in 1..(i - 1) : left[j] = s[j]
  BY <1>1
<1>3. /\ right \in Seq(S) /\ Len(right) = Len(s) - i
      /\ \A j \in 1..(Len(s) - i) : right[j] = s[i + j]
  BY <1>1
<1> HIDE DEF left, right
<1>4. /\ left \o right \in Seq(S) /\ Len(left \o right) = Len(s) - 1
      /\ \A j \in 1..(i - 1) : (left \o right)[j] = left[j]
      /\ \A j \in i..(Len(s) - 1) : (left \o right)[j] = right[j - i + 1]
  <2>1. left \o right \in Seq(S) BY <1>2, <1>3
  <2>2. Len(left \o right) = Len(s) - 1 BY <1>1, <1>2, <1>3
  <2>3. \A j \in 1..(i - 1) : (left \o right)[j] = left[j] BY <1>1, <1>2, <1>3
  <2>4. \A j \in i..(Len(s) - 1) : (left \o right)[j] = right[j - i + 1]
    BY <1>1, <1>2, <1>3
  <2> QED BY <2>1, <2>2, <2>3, <2>4
<1>5. ASSUME NEW j \in DOMAIN s, j # i
      PROVE  \E k \in DOMAIN (left \o right) : (left \o right)[k] = s[j]
  <2>1. j \in 1..Len(s) OBVIOUS
  <2>2. DOMAIN (left \o right) = 1..(Len(s) - 1) BY <1>4
  <2>3. CASE j < i
    <3>1. j \in 1..(i - 1) /\ j \in 1..(Len(s) - 1) BY <1>1, <2>1, <2>3
    <3> QED BY <1>2, <1>4, <2>2, <3>1
  <2>4. CASE j > i
    <3>1. /\ j - 1 \in i..(Len(s) - 1) /\ j - 1 \in 1..(Len(s) - 1)
          /\ j - i \in 1..(Len(s) - i)
      BY <1>1, <2>1, <2>4
    <3>2. (left \o right)[j - 1] = right[(j - 1) - i + 1] BY <1>4, <3>1
    <3>3. (j - 1) - i + 1 = j - i /\ i + (j - i) = j BY <1>1, <2>1
    <3>4. right[j - i] = s[j] BY <1>3, <3>1, <3>3
    <3> QED BY <2>2, <3>1, <3>2, <3>3, <3>4
  <2> QED BY <1>1, <1>5, <2>1, <2>3, <2>4
<1>6. RemoveAt(s, i) = left \o right BY DEF RemoveAt, left, right
<1> QED BY <1>4, <1>5, <1>6 DEF ToSet

LEMMA AddKeeps ==
  ASSUME NEW c, Config(c), NEW cmd, Command(cmd), cmd.op = "repository_add",
         NEW new \in upsert_repository(c, cmd.id, cmd.values)
  PROVE  Config(new) /\ Untouched(c, cmd, new)
<1> DEFINE id == cmd.id  v == cmd.values  R == c.repositories
           at == Positions(c, id)  spot == CHOOSE i \in at : TRUE
           old == IF at # {} THEN R[spot]
                  ELSE [provider |-> None, identity |-> None, storage |-> None]
           m == [id |-> id, provider |-> Given(v.provider, old.provider),
                 identity |-> Given(v.identity, old.identity),
                 storage |-> Given(v.storage, old.storage)]
           S == IF at # {} THEN [R EXCEPT ![spot] = m] ELSE Append(R, m)
<1>1. R \in Seq(Mappings) BY DEF Config
<1>2. at \subseteq DOMAIN R /\ \A i \in at : R[i].id = id BY DEF Positions
<1>3. at # {} => spot \in DOMAIN R /\ R[spot].id = id /\ R[spot] \in Mappings
  BY <1>1, <1>2
<1>4. None \notin {m.provider, m.identity, m.storage} /\ new = [c EXCEPT !.repositories = S]
  BY DEF upsert_repository
<1>5. m \in Mappings
  <2>1. m.provider # None /\ m.identity # None /\ m.storage # None BY <1>4
  <2>2. CASE at # {}
    <3>1. /\ old.provider \in Providers /\ old.identity \in Identities
          /\ old.storage \in Storages
      BY <1>3, <2>2 DEF Mappings
    <3> HIDE DEF old
    <3> QED BY <3>1 DEF Mappings, Command, Given
  <2>3. CASE at = {}
    <3>1. old.provider = None /\ old.identity = None /\ old.storage = None BY <2>3
    <3> HIDE DEF old
    <3> QED BY <2>1, <3>1 DEF Mappings, Command, Given
  <2> QED BY <2>2, <2>3
<1> HIDE DEF m, at, spot
<1>6. /\ S \in Seq(Mappings)
      /\ \A i \in DOMAIN R : R[i].id # id => i \in DOMAIN S /\ S[i] = R[i]
  <2>1. CASE at # {} BY <1>1, <1>3, <1>5, <2>1
  <2>2. CASE at = {} BY <1>1, <1>5, <2>2
  <2> QED BY <2>1, <2>2
<1> HIDE DEF S
<1>7. new = [providers |-> c.providers, storages |-> c.storages, repositories |-> S]
  BY <1>4 DEF Config
<1>8. Config(new) BY <1>6, <1>7 DEF Config
<1> QED BY <1>6, <1>7, <1>8 DEF Untouched, ToSet

LEMMA EditKeeps ==
  ASSUME NEW c, Config(c), NEW cmd, Command(cmd), NEW new \in Edited(c, cmd)
  PROVE  Config(new) /\ Untouched(c, cmd, new)
<1>1. CASE cmd.op = "repository_provider_add"
  <2>1. new = [c EXCEPT !.providers = @ \cup {cmd.id}]
    BY <1>1 DEF Edited, upsert_repository_provider
  <2> QED BY <1>1, <2>1 DEF Config, Command, Untouched
<1>2. CASE cmd.op = "repository_provider_remove"
  <2>1. new = [c EXCEPT !.providers = @ \ {cmd.id}]
    BY <1>2 DEF Edited, remove_repository_provider
  <2> QED BY <1>2, <2>1 DEF Config, Command, Untouched
<1>3. CASE cmd.op = "storage_provider_add"
  <2>1. PICK x : new = [c EXCEPT !.storages = [s \in DOMAIN @ \cup {cmd.id} |-> x[s]]]
    BY <1>3 DEF Edited, upsert_storage_provider
  <2> QED BY <1>3, <2>1 DEF Config, Command, Untouched
<1>4. CASE cmd.op = "storage_provider_remove"
  <2>1. new = [c EXCEPT !.storages = [s \in DOMAIN @ \ {cmd.id} |-> @[s]]]
    BY <1>4 DEF Edited, remove_storage_provider
  <2> QED BY <1>4, <2>1 DEF Config, Command, Untouched
<1>5. CASE cmd.op = "repository_add"
  BY <1>5, AddKeeps DEF Edited
<1>6. CASE cmd.op = "repository_remove"
  <2>1. PICK i \in Positions(c, cmd.id) : new = [c EXCEPT !.repositories = RemoveAt(@, i)]
    BY <1>6 DEF Edited, remove_repository
  <2>2. i \in DOMAIN c.repositories /\ c.repositories[i].id = cmd.id BY <2>1 DEF Positions
  <2>3. /\ RemoveAt(c.repositories, i) \in Seq(Mappings)
        /\ \A j \in DOMAIN c.repositories :
             j # i => c.repositories[j] \in ToSet(RemoveAt(c.repositories, i))
    BY <2>2, RemoveAtKeeps DEF Config
  <2>4. new = [providers |-> c.providers, storages |-> c.storages,
               repositories |-> RemoveAt(c.repositories, i)]
    BY <2>1 DEF Config
  <2>5. Config(new) BY <2>3, <2>4 DEF Config
  <2>6. ASSUME NEW m \in ToSet(c.repositories), m.id # cmd.id PROVE m \in ToSet(new.repositories)
    <3>1. PICK j \in DOMAIN c.repositories : m = c.repositories[j] BY <2>6 DEF ToSet
    <3> QED BY <2>2, <2>3, <2>4, <2>6, <3>1
  <2> QED BY <1>6, <2>5, <2>6 DEF Untouched
<1> QED BY <1>1, <1>2, <1>3, <1>4, <1>5, <1>6 DEF Command

----------------------------------------------------------------------------
(* The inductive invariant, by its parts.                                  *)

Stages == {"idle", "loaded", "lookup", "create", "save"}

EditorShape ==
  editor = [e \in Editors |->
              [pc |-> editor[e].pc, doc |-> editor[e].doc, alone |-> editor[e].alone,
               cmd |-> editor[e].cmd, account |-> editor[e].account]]

(* The file and every copy of it are documents; a command that authorizes  *)
(* Drive is one on a storage provider.                                     *)
DocInv ==
  /\ EditorShape /\ Config(file)
  /\ \A e \in Editors :
       /\ Config(editor[e].doc) /\ editor[e].alone \in BOOLEAN
       /\ editor[e].pc \in Stages
       /\ editor[e].pc \notin {"idle", "loaded"} =>
            /\ Command(editor[e].cmd) /\ editor[e].cmd.op = "storage_provider_add"

(* A command that is alone has the file as it is.                          *)
AloneInv ==
  \A e \in Editors : editor[e].pc # "idle" /\ editor[e].alone =>
    /\ editor[e].doc = file
    /\ \A o \in Editors \ {e} : editor[o].pc = "idle"

ReportInv == ReportedStands

EditInv == DocInv /\ AloneInv /\ ReportInv

(* What an editor's record becomes.                                        *)
Becomes(e, r) == editor' = [editor EXCEPT ![e] = r]

(* One field of an editor's record is set.                                 *)
LEMMA EditorSet ==
  ASSUME NEW r, NEW x,
         r = [pc |-> r.pc, doc |-> r.doc, alone |-> r.alone, cmd |-> r.cmd,
              account |-> r.account]
  PROVE  /\ [r EXCEPT !.pc = x] = [pc |-> x, doc |-> r.doc, alone |-> r.alone,
                                   cmd |-> r.cmd, account |-> r.account]
         /\ [r EXCEPT !.doc = x] = [pc |-> r.pc, doc |-> x, alone |-> r.alone,
                                    cmd |-> r.cmd, account |-> r.account]
         /\ [r EXCEPT !.alone = x] = [pc |-> r.pc, doc |-> r.doc, alone |-> x,
                                      cmd |-> r.cmd, account |-> r.account]
         /\ [r EXCEPT !.cmd = x] = [pc |-> r.pc, doc |-> r.doc, alone |-> r.alone,
                                    cmd |-> x, account |-> r.account]
         /\ [r EXCEPT !.account = x] = [pc |-> r.pc, doc |-> r.doc, alone |-> r.alone,
                                        cmd |-> r.cmd, account |-> x]
<1> DEFINE p == r.pc  d == r.doc  a == r.alone  c == r.cmd  k == r.account
           s == [pc |-> p, doc |-> d, alone |-> a, cmd |-> c, account |-> k]
<1>1. r = s OBVIOUS
<1> HIDE DEF p, d, a, c, k
<1>2. /\ [s EXCEPT !.pc = x] = [pc |-> x, doc |-> d, alone |-> a, cmd |-> c, account |-> k]
      /\ [s EXCEPT !.doc = x] = [pc |-> p, doc |-> x, alone |-> a, cmd |-> c, account |-> k]
      /\ [s EXCEPT !.alone = x] = [pc |-> p, doc |-> d, alone |-> x, cmd |-> c, account |-> k]
      /\ [s EXCEPT !.cmd = x] = [pc |-> p, doc |-> d, alone |-> a, cmd |-> x, account |-> k]
      /\ [s EXCEPT !.account = x] = [pc |-> p, doc |-> d, alone |-> a, cmd |-> c, account |-> x]
  OBVIOUS
<1> HIDE DEF s
<1>3. /\ [r EXCEPT !.pc = x] = [pc |-> x, doc |-> d, alone |-> a, cmd |-> c, account |-> k]
      /\ [r EXCEPT !.doc = x] = [pc |-> p, doc |-> x, alone |-> a, cmd |-> c, account |-> k]
      /\ [r EXCEPT !.alone = x] = [pc |-> p, doc |-> d, alone |-> x, cmd |-> c, account |-> k]
      /\ [r EXCEPT !.cmd = x] = [pc |-> p, doc |-> d, alone |-> a, cmd |-> x, account |-> k]
      /\ [r EXCEPT !.account = x] = [pc |-> p, doc |-> d, alone |-> a, cmd |-> c, account |-> x]
  BY <1>1, <1>2, Zenon
<1> QED BY <1>3 DEF p, d, a, c, k

LEMMA EditorBecomes ==
  ASSUME EditorShape, NEW e \in Editors, NEW r,
         r = [pc |-> r.pc, doc |-> r.doc, alone |-> r.alone, cmd |-> r.cmd,
              account |-> r.account],
         Becomes(e, r)
  PROVE  /\ EditorShape' /\ editor'[e] = r
         /\ \A o \in Editors : o # e => editor'[o] = editor[o]
BY DEF EditorShape, Becomes

LEMMA IdleFields ==
  /\ Idle = [pc |-> Idle.pc, doc |-> Idle.doc, alone |-> Idle.alone, cmd |-> Idle.cmd,
              account |-> Idle.account]
  /\ Idle.pc = "idle" /\ Idle.doc = EmptyConfig /\ Idle.alone = TRUE
BY DEF Idle

(* The parts of DocInv, of the state after a step.                         *)
LEMMA DocNext ==
  ASSUME EditorShape', Config(file'),
         \A o \in Editors :
           /\ Config(editor'[o].doc) /\ editor'[o].alone \in BOOLEAN
           /\ editor'[o].pc \in Stages
           /\ editor'[o].pc \notin {"idle", "loaded"} =>
                Command(editor'[o].cmd) /\ editor'[o].cmd.op = "storage_provider_add"
  PROVE  DocInv'
<1>1. Config(file)' BY DEF Config
<1>2. ASSUME NEW o \in Editors
      PROVE  /\ Config(editor[o].doc)'
             /\ (editor[o].pc \notin {"idle", "loaded"} =>
                   Command(editor[o].cmd) /\ editor[o].cmd.op = "storage_provider_add")'
  BY DEF Config, Command
<1> QED BY <1>1, <1>2 DEF DocInv, Stages

LEMMA EmptyIsConfig == Config(EmptyConfig)
<1>1. DOMAIN << >> = {} OBVIOUS
<1> QED BY <1>1 DEF Config, EmptyConfig

(* A command that ends, with or without saving.                            *)
LEMMA EndKeeps ==
  ASSUME EditInv, NEW e \in Editors, Ended(e), UNCHANGED <<file, reported>>
  PROVE  EditInv'
<1>1. Becomes(e, Idle) BY DEF Ended, Becomes
<1>2. /\ EditorShape' /\ editor'[e] = Idle
      /\ \A o \in Editors : o # e => editor'[o] = editor[o]
  BY <1>1, EditorBecomes, IdleFields DEF EditInv, DocInv
<1>3. DocInv'
  <2>1. Config(file') BY DEF EditInv, DocInv
  <2> QED BY <1>2, <2>1, DocNext, EmptyIsConfig, IdleFields DEF EditInv, DocInv, Stages
<1>4. AloneInv' BY <1>2, IdleFields DEF EditInv, AloneInv
<1> QED BY <1>3, <1>4 DEF EditInv, ReportInv, ReportedStands

LEMMA SaveKeeps ==
  ASSUME EditInv, NEW e \in Editors, editor[e].pc # "idle", NEW cmd, Command(cmd),
         Save(e, cmd), Ended(e)
  PROVE  EditInv'
<1> PICK new \in Edited(editor[e].doc, cmd) :
      file' = new /\ reported' = Standing(e, cmd, new)
  BY DEF Save
<1>1. Config(new) /\ Untouched(editor[e].doc, cmd, new)
  BY EditKeeps DEF EditInv, DocInv
<1>2. Becomes(e, Idle) BY DEF Ended, Becomes
<1>3. /\ EditorShape' /\ editor'[e] = Idle
      /\ \A o \in Editors : o # e => editor'[o] = editor[o]
  BY <1>2, EditorBecomes, IdleFields DEF EditInv, DocInv
<1>4. DocInv' BY <1>1, <1>3, DocNext, EmptyIsConfig, IdleFields DEF EditInv, DocInv, Stages
<1>5. AloneInv' BY <1>3, IdleFields DEF EditInv, AloneInv
<1>6. reported' \subseteq ToSet(new.repositories)
  <2>1. CASE ~editor[e].alone BY <2>1 DEF Standing
  <2>2. CASE editor[e].alone
    <3>1. reported \subseteq ToSet(editor[e].doc.repositories)
      BY <2>2 DEF EditInv, AloneInv, ReportInv, ReportedStands
    <3> SUFFICES ASSUME NEW m \in reported' PROVE m \in ToSet(new.repositories)
      OBVIOUS
    <3>2. \/ m \in reported /\ (cmd.op \in {"repository_add", "repository_remove"}
                                  => m.id # cmd.id)
          \/ m \in ToSet(new.repositories)
      BY <2>2 DEF Standing
    <3> QED BY <1>1, <3>1, <3>2 DEF Untouched
  <2> QED BY <2>1, <2>2 DEF EditInv, DocInv
<1> QED BY <1>4, <1>5, <1>6 DEF EditInv, ReportInv, ReportedStands

(* The commands that the operator can give are commands.                   *)
LEMMA GivenCommands ==
  ASSUME NEW c, Config(c),
         NEW cmd \in FlaggedRepositories \cup prompt_repository(c) \cup select_remove_id(c)
                       \cup prompt_repository_provider
  PROVE  Command(cmd)
BY DEF Config, Command, FlaggedRepositories, prompt_repository, select_remove_id,
       prompt_repository_provider

LEMMA StorageCommands ==
  ASSUME NEW id \in Storages, NEW d, NEW root
  PROVE  /\ Command(StorageCommand(id, d, root))
         /\ StorageCommand(id, d, root).op = "storage_provider_add"
BY DEF Command, StorageCommand

LEMMA PreparedCommands ==
  ASSUME NEW c, NEW prepared \in Prepared(c)
  PROVE  Command(prepared.cmd) /\ prepared.cmd.op = "storage_provider_add"
BY StorageCommands DEF Prepared, into_prepared, prompt_storage_provider

LEMMA LoadKeeps ==
  ASSUME EditInv, NEW e \in Editors, Load(e)
  PROVE  EditInv'
<1> DEFINE alone == \A o \in Editors : editor[o].pc = "idle"
<1>1. /\ editor[e].pc = "idle" /\ UNCHANGED <<file, reported>>
      /\ editor' = [o \in Editors |->
           IF o = e THEN [Idle EXCEPT !.pc = "loaded", !.doc = file, !.alone = alone]
           ELSE [editor[o] EXCEPT !.alone = @ /\ editor[o].pc = "idle"]]
  BY DEF Load
<1>2. alone \in BOOLEAN OBVIOUS
<1>3. /\ editor'[e] = [pc |-> "loaded", doc |-> file, alone |-> alone, cmd |-> None,
                       account |-> None]
      /\ alone => \A o \in Editors : editor[o].pc = "idle"
  BY <1>1 DEF Idle
<1>4. ASSUME NEW o \in Editors, o # e
      PROVE  /\ editor'[o] = [pc |-> editor'[o].pc, doc |-> editor'[o].doc,
                              alone |-> editor'[o].alone, cmd |-> editor'[o].cmd,
                              account |-> editor'[o].account]
             /\ editor'[o].pc = editor[o].pc /\ editor'[o].doc = editor[o].doc
             /\ editor'[o].cmd = editor[o].cmd
             /\ editor'[o].alone \in BOOLEAN
             /\ editor'[o].pc # "idle" => ~editor'[o].alone
  <2> DEFINE a == editor[o].alone /\ editor[o].pc = "idle"
  <2>1. editor'[o] = [editor[o] EXCEPT !.alone = a] BY <1>1, <1>4
  <2>2. a \in BOOLEAN /\ (editor[o].pc # "idle" => ~a) OBVIOUS
  <2> HIDE DEF a
  <2>3. editor[o] = [pc |-> editor[o].pc, doc |-> editor[o].doc, alone |-> editor[o].alone,
                     cmd |-> editor[o].cmd, account |-> editor[o].account]
    BY DEF EditInv, DocInv, EditorShape
  <2> QED BY <2>1, <2>2, <2>3
<1> HIDE DEF alone
<1>5. EditorShape' BY <1>1, <1>3, <1>4 DEF EditorShape
<1>6. DocInv'
  <2>1. Config(file') BY <1>1 DEF EditInv, DocInv
  <2>2. /\ Config(editor'[e].doc) /\ editor'[e].alone \in BOOLEAN /\ editor'[e].pc = "loaded"
    BY <1>2, <1>3 DEF EditInv, DocInv
  <2>3. ASSUME NEW o \in Editors, o # e
        PROVE  /\ Config(editor'[o].doc) /\ editor'[o].alone \in BOOLEAN
               /\ editor'[o].pc \in Stages
               /\ editor'[o].pc \notin {"idle", "loaded"} =>
                    Command(editor'[o].cmd) /\ editor'[o].cmd.op = "storage_provider_add"
    BY <1>4, <2>3 DEF EditInv, DocInv
  <2> QED BY <1>5, <2>1, <2>2, <2>3, DocNext DEF Stages
<1>7. AloneInv'
  <2> SUFFICES ASSUME NEW o \in Editors, editor'[o].pc # "idle", editor'[o].alone
               PROVE  /\ editor'[o].doc = file'
                      /\ \A q \in Editors \ {o} : editor'[q].pc = "idle"
    BY DEF AloneInv
  <2>1. o = e BY <1>4
  <2>2. alone BY <1>2, <1>3, <2>1
  <2>3. \A q \in Editors \ {e} : editor'[q].pc = "idle" BY <1>3, <1>4, <2>2
  <2> QED BY <1>1, <1>3, <2>1, <2>3
<1> QED BY <1>1, <1>6, <1>7 DEF EditInv, ReportInv, ReportedStands

(* The steps of a command that authorizes Drive, up to its save.           *)
LEMMA StageKeeps ==
  ASSUME EditInv, NEW e \in Editors, editor[e].pc # "idle", UNCHANGED <<file, reported>>,
         NEW r, Becomes(e, r),
         r = [pc |-> r.pc, doc |-> editor[e].doc, alone |-> editor[e].alone, cmd |-> r.cmd,
              account |-> r.account],
         r.pc \in Stages \ {"idle"}, Command(r.cmd), r.cmd.op = "storage_provider_add"
  PROVE  EditInv'
<1>1. /\ EditorShape' /\ editor'[e] = r
      /\ \A o \in Editors : o # e => editor'[o] = editor[o]
      /\ r.doc = editor[e].doc /\ r.alone = editor[e].alone
  BY EditorBecomes DEF EditInv, DocInv
<1>2. DocInv' BY <1>1, DocNext DEF EditInv, DocInv
<1>3. AloneInv' BY <1>1 DEF EditInv, AloneInv, Stages
<1> QED BY <1>2, <1>3 DEF EditInv, ReportInv, ReportedStands

(* Two fields of an editor's record are set.                               *)
LEMMA CmdPcSet ==
  ASSUME NEW r, NEW c, NEW p,
         r = [pc |-> r.pc, doc |-> r.doc, alone |-> r.alone, cmd |-> r.cmd,
              account |-> r.account]
  PROVE  [[r EXCEPT !.cmd = c] EXCEPT !.pc = p]
           = [pc |-> p, doc |-> r.doc, alone |-> r.alone,
              cmd |-> c, account |-> r.account]
<1> DEFINE s == [r EXCEPT !.cmd = c]
<1>1. s = [pc |-> r.pc, doc |-> r.doc, alone |-> r.alone,
           cmd |-> c, account |-> r.account]
  BY EditorSet
<1> HIDE DEF s
<1>2. /\ s = [pc |-> s.pc, doc |-> s.doc, alone |-> s.alone, cmd |-> s.cmd,
              account |-> s.account]
      /\ s.cmd = c /\ s.doc = r.doc /\ s.alone = r.alone /\ s.account = r.account
  BY <1>1
<1>3. [s EXCEPT !.pc = p]
        = [pc |-> p, doc |-> s.doc, alone |-> s.alone,
           cmd |-> s.cmd, account |-> s.account]
  BY <1>2, EditorSet
<1>4. [s EXCEPT !.pc = p]
        = [pc |-> p, doc |-> r.doc, alone |-> r.alone,
           cmd |-> c, account |-> r.account]
  BY <1>2, <1>3
<1> QED BY <1>4, Zenon DEF s

LEMMA PcAccountSet ==
  ASSUME NEW r, NEW p, NEW k,
         r = [pc |-> r.pc, doc |-> r.doc, alone |-> r.alone, cmd |-> r.cmd,
              account |-> r.account]
  PROVE  [[r EXCEPT !.pc = p] EXCEPT !.account = k]
           = [pc |-> p, doc |-> r.doc, alone |-> r.alone,
              cmd |-> r.cmd, account |-> k]
<1> DEFINE s == [r EXCEPT !.pc = p]
<1>1. s = [pc |-> p, doc |-> r.doc, alone |-> r.alone,
           cmd |-> r.cmd, account |-> r.account]
  BY EditorSet
<1> HIDE DEF s
<1>2. /\ s = [pc |-> s.pc, doc |-> s.doc, alone |-> s.alone, cmd |-> s.cmd,
              account |-> s.account]
      /\ s.pc = p /\ s.doc = r.doc /\ s.alone = r.alone /\ s.cmd = r.cmd
  BY <1>1
<1>3. [s EXCEPT !.account = k]
        = [pc |-> s.pc, doc |-> s.doc, alone |-> s.alone,
           cmd |-> s.cmd, account |-> k]
  BY <1>2, EditorSet
<1>4. [s EXCEPT !.account = k]
        = [pc |-> p, doc |-> r.doc, alone |-> r.alone,
           cmd |-> r.cmd, account |-> k]
  BY <1>2, <1>3
<1> QED BY <1>4, Zenon DEF s

(* The root of a command's values is set and the command goes on.          *)
LEMMA RootKeeps ==
  ASSUME EditInv, NEW e \in Editors, editor[e].pc \in {"lookup", "create"},
         UNCHANGED <<file, reported>>, NEW root,
         editor' = [editor EXCEPT ![e].pc = "save", ![e].cmd.values.root = root]
  PROVE  EditInv'
<1> DEFINE cmd == [editor[e].cmd EXCEPT !.values.root = root]
           r == [editor[e] EXCEPT !.pc = "save", !.cmd.values.root = root]
<1>1. editor[e] = [pc |-> editor[e].pc, doc |-> editor[e].doc, alone |-> editor[e].alone,
                   cmd |-> editor[e].cmd, account |-> editor[e].account]
  BY DEF EditInv, DocInv, EditorShape
<1>2. Command(editor[e].cmd) /\ editor[e].cmd.op = "storage_provider_add"
  BY DEF EditInv, DocInv
<1>3. cmd.op = editor[e].cmd.op /\ cmd.id = editor[e].cmd.id OBVIOUS
<1>4. Command(cmd) /\ cmd.op = "storage_provider_add" BY <1>2, <1>3 DEF Command
<1>5. r = [pc |-> "save", doc |-> editor[e].doc, alone |-> editor[e].alone,
           cmd |-> cmd, account |-> editor[e].account]
  <2> DEFINE s == [editor[e] EXCEPT !.pc = "save"]
  <2>1. s = [pc |-> "save", doc |-> editor[e].doc, alone |-> editor[e].alone,
             cmd |-> editor[e].cmd, account |-> editor[e].account]
    BY <1>1, EditorSet
  <2>2. s.cmd = editor[e].cmd BY <2>1
  <2>3. r = [s EXCEPT !.cmd = cmd] BY <2>2
  <2> HIDE DEF r, s, cmd
  <2>4. /\ s = [pc |-> s.pc, doc |-> s.doc, alone |-> s.alone, cmd |-> s.cmd,
                account |-> s.account]
        /\ s.pc = "save" /\ s.doc = editor[e].doc /\ s.alone = editor[e].alone
        /\ s.account = editor[e].account
    BY <2>1
  <2>5. [s EXCEPT !.cmd = cmd] = [pc |-> s.pc, doc |-> s.doc, alone |-> s.alone,
                                  cmd |-> cmd, account |-> s.account]
    BY <2>4, EditorSet
  <2> QED BY <2>3, <2>4, <2>5
<1>6. Becomes(e, r) BY DEF Becomes
<1> HIDE DEF r, cmd
<1>7. r.pc = "save" /\ r.cmd = cmd /\ r.account = editor[e].account BY <1>5
<1> QED BY <1>4, <1>5, <1>6, <1>7, StageKeeps DEF Stages

LEMMA AuthorizeKeeps ==
  ASSUME EditInv, NEW e \in Editors, NEW prepared \in Prepared(editor[e].doc), NEW account,
         AuthorizeGoogleDrive(e, prepared, account)
  PROVE  EditInv'
<1> DEFINE pc == IF prepared.provision THEN "lookup" ELSE "save"
           r == [pc |-> pc, doc |-> editor[e].doc, alone |-> editor[e].alone,
                 cmd |-> prepared.cmd, account |-> editor[e].account]
<1>1. editor[e] = [pc |-> editor[e].pc, doc |-> editor[e].doc, alone |-> editor[e].alone,
                   cmd |-> editor[e].cmd, account |-> editor[e].account]
  BY DEF EditInv, DocInv, EditorShape
<1>2. editor' = [editor EXCEPT ![e].cmd = prepared.cmd, ![e].pc = pc]
  BY DEF AuthorizeGoogleDrive
<1>3. pc \in Stages \ {"idle"} BY DEF Stages
<1> HIDE DEF pc
<1>4. [editor[e] EXCEPT !.cmd = prepared.cmd, !.pc = pc] = r BY <1>1, CmdPcSet
<1>5. Becomes(e, r)
  BY <1>2, <1>4 DEF Becomes
<1> QED BY <1>3, <1>5, PreparedCommands, StageKeeps DEF AuthorizeGoogleDrive

LEMMA LookupKeeps ==
  ASSUME EditInv, NEW e \in Editors, LookupDefaultRoot(e)
  PROVE  EditInv'
<1> DEFINE account == adc[EffectiveDir(editor[e].doc, editor[e].cmd)]
           root == Least(DefaultRootFolders(account))
<1>1. editor[e] = [pc |-> editor[e].pc, doc |-> editor[e].doc, alone |-> editor[e].alone,
                   cmd |-> editor[e].cmd, account |-> editor[e].account]
  BY DEF EditInv, DocInv, EditorShape
<1>2. /\ editor[e].pc = "lookup" /\ UNCHANGED <<file, reported>>
      /\ \/ editor' = [editor EXCEPT ![e].pc = "save", ![e].cmd.values.root = root]
         \/ editor' = [editor EXCEPT ![e].pc = "create", ![e].account = account]
  BY DEF LookupDefaultRoot
<1> HIDE DEF account, root
<1>3. Command(editor[e].cmd) /\ editor[e].cmd.op = "storage_provider_add"
  BY <1>2 DEF EditInv, DocInv
<1>4. CASE editor' = [editor EXCEPT ![e].pc = "save", ![e].cmd.values.root = root]
  BY <1>2, <1>4, RootKeeps
<1>5. CASE editor' = [editor EXCEPT ![e].pc = "create", ![e].account = account]
  <2> DEFINE r == [editor[e] EXCEPT !.pc = "create", !.account = account]
  <2>1. r = [pc |-> "create", doc |-> editor[e].doc, alone |-> editor[e].alone,
             cmd |-> editor[e].cmd, account |-> account]
    BY <1>1, PcAccountSet
  <2>2. Becomes(e, r) BY <1>5 DEF Becomes
  <2> HIDE DEF r
  <2>3. /\ r.pc = "create" /\ r.cmd = editor[e].cmd /\ r.account = account
    BY <2>1
  <2> QED BY <1>2, <1>3, <2>1, <2>2, <2>3, StageKeeps DEF Stages
<1> QED BY <1>2, <1>4, <1>5

LEMMA CreateKeeps ==
  ASSUME EditInv, NEW e \in Editors, NEW f \in FolderIds, CreateDefaultRoot(e, f)
  PROVE  EditInv'
<1>1. editor[e].pc = "create" /\ UNCHANGED <<file, reported>> BY DEF CreateDefaultRoot
<1>2. CASE editor' = [editor EXCEPT ![e].pc = "save", ![e].cmd.values.root = f]
  BY <1>1, <1>2, RootKeeps
<1>3. CASE Ended(e)
  BY <1>1, <1>3, EndKeeps
<1> QED BY <1>2, <1>3 DEF CreateDefaultRoot

LEMMA InitEdit ==
  ASSUME Init
  PROVE  EditInv
<1> PICK setup \in InitialSetups : file = setup.file BY DEF Init
<1> DEFINE Store(S) == [S -> [dir : Dirs, root : FolderIds \cup OfferedRoots]]
<1>0. /\ setup.file \in [providers : SUBSET Providers, storages : UNION {Store(S) : S \in SUBSET Storages},
                         repositories : Seq(Mappings)]
      /\ DOMAIN file.storages \subseteq Storages
  <2>1. setup.file \in [providers : SUBSET Providers, storages : UNION {Store(S) : S \in SUBSET Storages},
                        repositories : Seq(Mappings)]
    BY SetupAssumption, Zenon DEF SetupAssumption, Mappings
  <2>2. setup.file.storages \in UNION {Store(S) : S \in SUBSET Storages} BY <2>1
  <2>3. PICK S \in SUBSET Storages : setup.file.storages \in Store(S) BY <2>2
  <2> QED BY <2>1, <2>3
<1> HIDE DEF Store
<1>1. /\ file = [providers |-> file.providers, storages |-> file.storages,
                 repositories |-> file.repositories]
      /\ file.providers \subseteq Providers /\ DOMAIN file.storages \subseteq Storages
      /\ file.repositories \in Seq(Mappings)
  BY <1>0
<1>2. Config(file) BY <1>1 DEF Config
<1>3. editor = [e \in Editors |-> Idle] BY DEF Init
<1>4. \A e \in Editors : editor[e] = Idle BY <1>3
<1>5. EditorShape BY <1>3, <1>4, IdleFields DEF EditorShape
<1>6. DocInv BY <1>2, <1>4, <1>5, EmptyIsConfig, IdleFields DEF DocInv, Stages
<1>7. AloneInv BY <1>4, IdleFields DEF AloneInv
<1>8. ReportInv BY DEF ReportInv, ReportedStands, Init
<1> QED BY <1>6, <1>7, <1>8 DEF EditInv

LEMMA NextEdit ==
  ASSUME EditInv, [Next]_vars
  PROVE  EditInv'
<1>1. CASE UNCHANGED <<file, editor, reported>>
  BY <1>1 DEF EditInv, DocInv, EditorShape, AloneInv, ReportInv, ReportedStands, Config, Command
<1>2. ASSUME NEW e \in Editors, NEW cmd, EditConfiguration(e, cmd), Command(cmd)
      PROVE  EditInv'
  BY <1>2, SaveKeeps DEF EditConfiguration
<1>3. ASSUME NEW e \in Editors, Load(e) PROVE EditInv'
  BY <1>3, LoadKeeps
<1>4. ASSUME NEW e \in Editors,
             NEW cmd \in FlaggedRepositories \cup prompt_repository(editor[e].doc)
                           \cup select_remove_id(editor[e].doc) \cup prompt_repository_provider,
             EditConfiguration(e, cmd)
      PROVE  EditInv'
  BY <1>2, <1>4, GivenCommands DEF EditInv, DocInv
<1>5. ASSUME NEW e \in Editors, NEW id \in Storages, NEW dir, NEW root,
             EditConfiguration(e, StorageCommand(id, dir, root))
      PROVE  EditInv'
  BY <1>2, <1>5, StorageCommands
<1>6. ASSUME NEW e \in Editors, NEW prepared \in Prepared(editor[e].doc),
             NEW account \in Accounts, AuthorizeGoogleDrive(e, prepared, account)
      PROVE  EditInv'
  BY <1>6, AuthorizeKeeps
<1>7. ASSUME NEW e \in Editors, LookupDefaultRoot(e) PROVE EditInv'
  BY <1>7, LookupKeeps
<1>8. ASSUME NEW e \in Editors, NEW f \in FolderIds, CreateDefaultRoot(e, f) PROVE EditInv'
  BY <1>8, CreateKeeps
<1>9. ASSUME NEW e \in Editors, SaveStorageProvider(e) PROVE EditInv'
  <2>1. editor[e].pc = "save" /\ Command(editor[e].cmd)
    BY <1>9 DEF EditInv, DocInv, SaveStorageProvider
  <2> QED BY <1>9, <2>1, SaveKeeps DEF SaveStorageProvider
<1>10. ASSUME NEW e \in Editors, EndWithoutSaving(e) PROVE EditInv'
  BY <1>10, EndKeeps DEF EndWithoutSaving
<1>11. ASSUME NEW f \in FolderIds, TrashFolder(f) PROVE EditInv'
  BY <1>1, <1>11 DEF TrashFolder
<1>12. ASSUME NEW p \in Servers,
              \/ LoadConfiguration(p) \/ AcquireLock(p) \/ OpenDatabase(p)
              \/ SyncConfiguration(p) \/ BuildAndBind(p) \/ RecordSession(p) \/ Stop(p)
       PROVE  EditInv'
  BY <1>1, <1>12 DEF LoadConfiguration, AcquireLock, OpenDatabase, SyncConfiguration,
     BuildAndBind, RecordSession, Stop
<1>13. CASE UNCHANGED vars BY <1>1, <1>13 DEF vars
<1>14. CASE Next
  <2>1. CASE \E e \in Editors : Load(e) BY <1>3, <2>1
  <2>2. ASSUME NEW e \in Editors,
               \/ \E cmd \in FlaggedRepositories \cup prompt_repository(editor[e].doc) :
                    EditConfiguration(e, cmd)
               \/ \E cmd \in select_remove_id(editor[e].doc) : EditConfiguration(e, cmd)
               \/ \E cmd \in prompt_repository_provider : EditConfiguration(e, cmd)
        PROVE  EditInv'
    BY <1>4, <2>2
  <2> QED BY <1>3, <1>5, <1>6, <1>7, <1>8, <1>9, <1>10, <1>11, <1>12, <1>14, <2>2 DEF Next
<1> QED BY <1>13, <1>14

(* A mapping that a command reported as saved is in the file as it was     *)
(* reported, until a command changes or removes it or commands overlap:    *)
(* no edit, save, prompt, authorization or failure of another entry's      *)
(* command loses it.                                                       *)
THEOREM MappingsStand == Spec => []ReportedStands
<1>1. Init => EditInv BY InitEdit
<1>2. EditInv /\ [Next]_vars => EditInv' BY NextEdit
<1>3. EditInv => ReportedStands BY DEF EditInv, ReportInv
<1> QED BY <1>1, <1>2, <1>3, PTL DEF Spec

----------------------------------------------------------------------------
(* The default root folder of an account.                                  *)

FolderShape ==
  folder = [f \in FolderIds |-> [owner |-> folder[f].owner, live |-> folder[f].live]]

(* Unless two commands were about to create it at once, an account has one *)
(* default root folder, and none while a command is about to create it.    *)
RootInv ==
  ~raced =>
    /\ \A a \in Accounts, f, g \in FolderIds :
         f \in DefaultRootFolders(a) /\ g \in DefaultRootFolders(a) => f = g
    /\ \A e \in Editors :
         editor[e].pc = "create" /\ editor[e].account \in Accounts =>
           DefaultRootFolders(editor[e].account) = {}

FolderInv == EditorShape /\ raced \in BOOLEAN /\ FolderShape /\ RootInv

(* The steps that create no folder, after which no command is about to     *)
(* create one that was not before, unless it found none.                   *)
LEMMA FoldersKept ==
  ASSUME FolderInv, EditorShape', FolderShape', raced' = raced,
         \A f \in FolderIds : folder'[f] = folder[f] \/ ~folder'[f].live,
         \A e \in Editors : editor'[e].pc = "create" =>
           \/ editor[e].pc = "create" /\ editor'[e].account = editor[e].account
           \/ DefaultRootFolders(editor'[e].account) = {}
  PROVE  FolderInv'
<1>1. ASSUME NEW a
      PROVE  {f \in FolderIds : folder'[f] = [owner |-> a, live |-> TRUE]}
               \subseteq DefaultRootFolders(a)
  <2> SUFFICES ASSUME NEW f \in FolderIds, folder'[f] = [owner |-> a, live |-> TRUE]
               PROVE  folder[f] = [owner |-> a, live |-> TRUE]
    BY DEF DefaultRootFolders
  <2>1. folder'[f].live OBVIOUS
  <2> QED BY <2>1
<1>2. CASE raced BY <1>2 DEF FolderInv, RootInv
<1>3. CASE ~raced
  <2>1. ASSUME NEW a \in Accounts, NEW f \in FolderIds, NEW g \in FolderIds,
               folder'[f] = [owner |-> a, live |-> TRUE],
               folder'[g] = [owner |-> a, live |-> TRUE]
        PROVE  f = g
    <3>1. f \in DefaultRootFolders(a) /\ g \in DefaultRootFolders(a) BY <1>1, <2>1
    <3> QED BY <1>3, <3>1 DEF FolderInv, RootInv
  <2>2. ASSUME NEW e \in Editors, editor'[e].pc = "create", editor'[e].account \in Accounts
        PROVE  {f \in FolderIds : folder'[f] = [owner |-> editor'[e].account, live |-> TRUE]} = {}
    <3>1. DefaultRootFolders(editor'[e].account) = {}
      BY <1>3, <2>2 DEF FolderInv, RootInv
    <3> QED BY <1>1, <3>1
  <2>3. RootInv' BY <2>1, <2>2 DEF RootInv, DefaultRootFolders
  <2> QED BY <2>3 DEF FolderInv
<1> QED BY <1>2, <1>3 DEF FolderInv

(* A command's record stays one about to create only for its account.      *)
LEMMA EndFolders ==
  ASSUME FolderInv, NEW e \in Editors, Ended(e), UNCHANGED <<folder, raced>>
  PROVE  FolderInv'
<1>1. Becomes(e, Idle) BY DEF Ended, Becomes
<1>2. /\ EditorShape' /\ editor'[e] = Idle
      /\ \A o \in Editors : o # e => editor'[o] = editor[o]
  BY <1>1, EditorBecomes, IdleFields DEF FolderInv
<1>3. FolderShape' BY DEF FolderInv, FolderShape
<1> QED BY <1>2, <1>3, IdleFields, FoldersKept

LEMMA CreateFolders ==
  ASSUME FolderInv, NEW e \in Editors, NEW f \in FolderIds, CreateDefaultRoot(e, f),
         EditorShape'
  PROVE  FolderInv'
<1> DEFINE a == editor[e].account
           others == \E o \in Editors \ {e} : editor[o].pc = "create" /\ editor[o].account = a
<1>1. /\ editor[e].pc = "create" /\ folder[f].owner = None
      /\ folder' = [folder EXCEPT ![f] = [owner |-> a, live |-> TRUE]]
      /\ raced' = (raced \/ others)
  BY DEF CreateDefaultRoot
<1>2. /\ folder'[f] = [owner |-> a, live |-> TRUE]
      /\ \A g \in FolderIds : g # f => folder'[g] = folder[g]
      /\ FolderShape'
  BY <1>1 DEF FolderInv, FolderShape
<1>3. /\ editor'[e].pc # "create"
      /\ \A o \in Editors : o # e => editor'[o] = editor[o]
  <2>1. CASE editor' = [editor EXCEPT ![e].pc = "save", ![e].cmd.values.root = f]
    <3> DEFINE r == [editor[e] EXCEPT !.pc = "save", !.cmd.values.root = f]
    <3>1. editor' = [editor EXCEPT ![e] = r] BY <2>1
    <3>2. r.pc = "save" BY DEF FolderInv, EditorShape
    <3> HIDE DEF r
    <3> QED BY <3>1, <3>2 DEF FolderInv, EditorShape
  <2>2. CASE Ended(e)
    <3>1. Becomes(e, Idle) BY <2>2 DEF Ended, Becomes
    <3> QED BY <3>1, EditorBecomes, IdleFields DEF FolderInv
  <2> QED BY <2>1, <2>2 DEF CreateDefaultRoot
<1>4. raced' \in BOOLEAN BY <1>1 DEF FolderInv
<1>5. CASE raced \/ others BY <1>1, <1>2, <1>4, <1>5 DEF FolderInv, RootInv
<1>6. CASE ~raced /\ ~others
  <2>1. ASSUME NEW b, b # a
        PROVE  \A g \in FolderIds : folder'[g] = [owner |-> b, live |-> TRUE] =>
                 g \in DefaultRootFolders(b)
    BY <1>2, <2>1 DEF DefaultRootFolders
  <2>2. ASSUME a \in Accounts
        PROVE  \A g \in FolderIds : folder'[g] = [owner |-> a, live |-> TRUE] => g = f
    <3>1. DefaultRootFolders(a) = {} BY <1>1, <1>6, <2>2 DEF FolderInv, RootInv
    <3> QED BY <1>2, <3>1 DEF DefaultRootFolders
  <2>3. ASSUME NEW b \in Accounts, NEW g \in FolderIds, NEW h \in FolderIds,
               folder'[g] = [owner |-> b, live |-> TRUE],
               folder'[h] = [owner |-> b, live |-> TRUE]
        PROVE  g = h
    <3>1. CASE b = a BY <2>2, <2>3, <3>1
    <3>2. CASE b # a BY <1>6, <2>1, <2>3, <3>2 DEF FolderInv, RootInv
    <3> QED BY <3>1, <3>2
  <2>4. ASSUME NEW o \in Editors, editor'[o].pc = "create", editor'[o].account \in Accounts
        PROVE  {g \in FolderIds : folder'[g] = [owner |-> editor'[o].account, live |-> TRUE]} = {}
    <3>1. o # e /\ editor'[o] = editor[o] BY <1>3, <2>4
    <3>2. editor[o].account # a BY <1>6, <2>4, <3>1
    <3>3. DefaultRootFolders(editor[o].account) = {}
      BY <1>6, <2>4, <3>1 DEF FolderInv, RootInv
    <3> QED BY <2>1, <3>1, <3>2, <3>3
  <2>5. RootInv' BY <2>3, <2>4 DEF RootInv, DefaultRootFolders
  <2> QED BY <1>2, <1>4, <2>5 DEF FolderInv
<1> QED BY <1>5, <1>6

LEMMA InitFolders ==
  ASSUME Init
  PROVE  FolderInv
<1> PICK setup \in InitialSetups : folder = setup.folder BY DEF Init
<1>1. /\ folder \in [FolderIds -> [owner : Accounts \cup {None}, live : BOOLEAN]]
      /\ \A f, g \in FolderIds, a \in Accounts :
           folder[f] = [owner |-> a, live |-> TRUE] /\ folder[g] = folder[f] => f = g
  BY SetupAssumption, Zenon DEF SetupAssumption
<1>2. FolderShape BY <1>1 DEF FolderShape
<1>3. \A e \in Editors : editor[e].pc # "create" BY DEF Init, Idle
<1>4. \A a \in Accounts, f, g \in FolderIds :
        f \in DefaultRootFolders(a) /\ g \in DefaultRootFolders(a) => f = g
  BY <1>1 DEF DefaultRootFolders
<1>5. RootInv BY <1>3, <1>4 DEF RootInv
<1>6. EditorShape /\ raced \in BOOLEAN BY InitEdit DEF EditInv, DocInv, Init
<1> QED BY <1>2, <1>5, <1>6 DEF FolderInv

LEMMA NextFolders ==
  ASSUME EditInv, FolderInv, [Next]_vars
  PROVE  FolderInv'
<1>1. EditorShape' BY NextEdit DEF EditInv, DocInv
<1>2. ASSUME UNCHANGED <<folder, raced>>,
             \A e \in Editors : editor'[e].pc = "create" =>
               \/ editor[e].pc = "create" /\ editor'[e].account = editor[e].account
               \/ DefaultRootFolders(editor'[e].account) = {}
      PROVE  FolderInv'
  <2>1. FolderShape' BY <1>2 DEF FolderInv, FolderShape
  <2> QED BY <1>1, <1>2, <2>1, FoldersKept
<1>3. CASE UNCHANGED <<folder, raced, editor>> BY <1>2, <1>3
<1>4. ASSUME NEW e \in Editors, Load(e) PROVE FolderInv'
  <2>1. ASSUME NEW o \in Editors, editor'[o].pc = "create"
        PROVE  editor[o].pc = "create" /\ editor'[o].account = editor[o].account
    <3> DEFINE alone == \A q \in Editors : editor[q].pc = "idle"
               a == editor[o].alone /\ editor[o].pc = "idle"
    <3>1. CASE o = e
      <4>1. editor'[e] = [Idle EXCEPT !.pc = "loaded", !.doc = file, !.alone = alone]
        BY <1>4 DEF Load
      <4>2. editor'[e].pc = "loaded" BY <4>1 DEF Idle
      <4> QED BY <2>1, <3>1, <4>2
    <3>2. CASE o # e
      <4>1. editor'[o] = [editor[o] EXCEPT !.alone = a] BY <1>4, <3>2 DEF Load
      <4> HIDE DEF a
      <4>2. /\ editor'[o].pc = editor[o].pc /\ editor'[o].account = editor[o].account
        BY <4>1 DEF FolderInv, EditorShape
      <4> QED BY <2>1, <4>2
    <3> QED BY <3>1, <3>2
  <2> QED BY <1>2, <1>4, <2>1 DEF Load
<1>5. ASSUME NEW e \in Editors, NEW prepared, NEW account,
             AuthorizeGoogleDrive(e, prepared, account)
      PROVE  FolderInv'
  <2> DEFINE pc == IF prepared.provision THEN "lookup" ELSE "save"
             r == [editor[e] EXCEPT !.cmd = prepared.cmd, !.pc = pc]
  <2>1. editor' = [editor EXCEPT ![e] = r] BY <1>5 DEF AuthorizeGoogleDrive
  <2>2. pc # "create" OBVIOUS
  <2> HIDE DEF pc
  <2>3. r.pc # "create" BY <2>2 DEF FolderInv, EditorShape
  <2> HIDE DEF r
  <2>4. \A o \in Editors : editor'[o] = IF o = e THEN r ELSE editor[o]
    BY <2>1 DEF FolderInv, EditorShape
  <2> QED BY <1>2, <1>5, <2>3, <2>4 DEF AuthorizeGoogleDrive
<1>6. ASSUME NEW e \in Editors, LookupDefaultRoot(e) PROVE FolderInv'
  <2> DEFINE account == adc[EffectiveDir(editor[e].doc, editor[e].cmd)]
             found == DefaultRootFolders(account)
             root == Least(found)
             r == [editor[e] EXCEPT !.pc = "save", !.cmd.values.root = root]
             s == [editor[e] EXCEPT !.pc = "create", !.account = account]
  <2>1. \/ editor' = [editor EXCEPT ![e] = r]
        \/ found = {} /\ editor' = [editor EXCEPT ![e] = s]
    BY <1>6 DEF LookupDefaultRoot
  <2> HIDE DEF account, root
  <2>2. r.pc = "save" /\ s.account = account BY DEF FolderInv, EditorShape
  <2> HIDE DEF r, s
  <2>3. \/ \A o \in Editors : editor'[o] = IF o = e THEN r ELSE editor[o]
        \/ found = {} /\ \A o \in Editors : editor'[o] = IF o = e THEN s ELSE editor[o]
    BY <2>1 DEF FolderInv, EditorShape
  <2>4. ASSUME NEW o \in Editors, editor'[o].pc = "create"
        PROVE  \/ editor[o].pc = "create" /\ editor'[o].account = editor[o].account
               \/ DefaultRootFolders(editor'[o].account) = {}
    BY <2>2, <2>3, <2>4
  <2> QED BY <1>2, <1>6, <2>4 DEF LookupDefaultRoot
<1>7. ASSUME NEW e \in Editors, Ended(e), UNCHANGED <<folder, raced>> PROVE FolderInv'
  BY <1>7, EndFolders
<1>8. ASSUME NEW e \in Editors, NEW f \in FolderIds, CreateDefaultRoot(e, f)
      PROVE  FolderInv'
  BY <1>1, <1>8, CreateFolders
<1>9. ASSUME NEW f \in FolderIds, TrashFolder(f) PROVE FolderInv'
  <2> DEFINE r == [folder[f] EXCEPT !.live = FALSE]
  <2>1. folder' = [folder EXCEPT ![f] = r] BY <1>9 DEF TrashFolder
  <2>2. r = [owner |-> folder[f].owner, live |-> FALSE]
    <3> DEFINE o == folder[f].owner  l == folder[f].live  x == FALSE
    <3>1. folder[f] = [owner |-> o, live |-> l] BY DEF FolderInv, FolderShape
    <3> HIDE DEF o, l, x
    <3>2. [[owner |-> o, live |-> l] EXCEPT !.live = x] = [owner |-> o, live |-> x]
      OBVIOUS
    <3>3. [folder[f] EXCEPT !.live = x] = [owner |-> o, live |-> x] BY <3>1, <3>2, Zenon
    <3> QED BY <3>3, Zenon DEF o, x
  <2> HIDE DEF r
  <2>3. /\ folder'[f] = r /\ ~r.live
        /\ \A g \in FolderIds : g # f => folder'[g] = folder[g]
        /\ FolderShape'
    BY <2>1, <2>2 DEF FolderInv, FolderShape
  <2>4. UNCHANGED <<editor, raced>> BY <1>9 DEF TrashFolder
  <2> QED BY <1>1, <2>3, <2>4, FoldersKept
<1>10. ASSUME NEW e \in Editors, NEW cmd, EditConfiguration(e, cmd) PROVE FolderInv'
  BY <1>7, <1>10 DEF EditConfiguration
<1>11. ASSUME NEW e \in Editors, SaveStorageProvider(e) \/ EndWithoutSaving(e)
       PROVE  FolderInv'
  BY <1>7, <1>11 DEF SaveStorageProvider, EndWithoutSaving
<1>12. ASSUME NEW p \in Servers,
              \/ LoadConfiguration(p) \/ AcquireLock(p) \/ OpenDatabase(p)
              \/ SyncConfiguration(p) \/ BuildAndBind(p) \/ RecordSession(p) \/ Stop(p)
       PROVE  FolderInv'
  BY <1>3, <1>12 DEF LoadConfiguration, AcquireLock, OpenDatabase, SyncConfiguration,
     BuildAndBind, RecordSession, Stop
<1>13. CASE UNCHANGED vars BY <1>3, <1>13 DEF vars
<1>14. CASE Next
  BY <1>4, <1>5, <1>6, <1>8, <1>9, <1>10, <1>11, <1>12, <1>14 DEF Next
<1> QED BY <1>13, <1>14

(* An account has at most one default root folder, however often storage   *)
(* is set up again after the answer to a creation was lost or its command  *)
(* failed, unless two commands were about to create it at the same time.   *)
THEOREM RootsSingle == Spec => []OneDefaultRoot
<1>1. Init => EditInv /\ FolderInv BY InitEdit, InitFolders
<1>2. EditInv /\ FolderInv /\ [Next]_vars => EditInv' /\ FolderInv'
  BY NextEdit, NextFolders
<1>3. FolderInv => OneDefaultRoot
  <2> SUFFICES ASSUME FolderInv, ~raced, NEW a \in Accounts
               PROVE  Cardinality(DefaultRootFolders(a)) <= 1
    BY DEF OneDefaultRoot
  <2>1. CASE DefaultRootFolders(a) = {} BY <2>1, FS_EmptySet
  <2>2. CASE DefaultRootFolders(a) # {}
    <3>1. PICK f : f \in DefaultRootFolders(a) BY <2>2
    <3>2. DefaultRootFolders(a) = {f} BY <3>1 DEF FolderInv, RootInv, DefaultRootFolders
    <3>3. Cardinality({f}) = 1 BY FS_Singleton
    <3> QED BY <3>2, <3>3
  <2> QED BY <2>1, <2>2
<1> QED BY <1>1, <1>2, <1>3, PTL DEF Spec

----------------------------------------------------------------------------
(* The routes of a server.                                                 *)

ServerShape == server = [p \in Servers |-> [pc |-> server[p].pc, config |-> server[p].config]]

(* A server that was not refused has a configuration that loads.           *)
Sound(c) == from_raw(c) /\ Config(c)
RouteInv ==
  /\ ServerShape
  /\ \A p \in Servers : server[p].pc \notin {"down", "broken"} => Sound(server[p].config)

LEMMA RouteNext ==
  ASSUME ServerShape',
         \A p \in Servers : server'[p].pc \notin {"down", "broken"} => Sound(server'[p].config)
  PROVE  RouteInv'
<1>1. ASSUME NEW p \in Servers, server'[p].pc \notin {"down", "broken"}
      PROVE  Sound(server[p].config)'
  <2>1. Sound(server'[p].config) BY <1>1
  <2>2. Config(server[p].config)' BY <2>1 DEF Sound, Config
  <2>3. from_raw(server[p].config)'
    BY <2>1 DEF Sound, from_raw, validate_references, RepositoryMappingFromRaw, RouteKey
  <2> QED BY <2>2, <2>3 DEF Sound
<1> QED BY <1>1 DEF RouteInv

(* A server's phase is set.                                                *)
LEMMA PcSet ==
  ASSUME ServerShape, NEW p \in Servers, NEW pc, server' = [server EXCEPT ![p].pc = pc]
  PROVE  /\ ServerShape' /\ server'[p].pc = pc /\ server'[p].config = server[p].config
         /\ \A o \in Servers : o # p => server'[o] = server[o]
<1> DEFINE r == [server[p] EXCEPT !.pc = pc]  c == server[p].config  q == server[p].pc
<1>1. server' = [server EXCEPT ![p] = r] OBVIOUS
<1>2. r = [pc |-> pc, config |-> c]
  <2>1. server[p] = [pc |-> q, config |-> c] BY DEF ServerShape
  <2> HIDE DEF q, c
  <2>2. [[pc |-> q, config |-> c] EXCEPT !.pc = pc] = [pc |-> pc, config |-> c] OBVIOUS
  <2> QED BY <2>1, <2>2, Zenon
<1> HIDE DEF r
<1> QED BY <1>1, <1>2 DEF ServerShape

LEMMA ServerSet ==
  ASSUME RouteInv, NEW p \in Servers, NEW pc,
         pc \in {"down", "broken"} \/ server[p].pc \notin {"down", "broken"},
         server' = [server EXCEPT ![p].pc = pc]
  PROVE  RouteInv'
<1>1. /\ ServerShape' /\ server'[p].pc = pc /\ server'[p].config = server[p].config
      /\ \A o \in Servers : o # p => server'[o] = server[o]
  BY PcSet DEF RouteInv
<1>2. \A o \in Servers : server'[o].pc \notin {"down", "broken"} => Sound(server'[o].config)
  BY <1>1 DEF RouteInv
<1> QED BY <1>1, <1>2, RouteNext

LEMMA ServerDown ==
  ASSUME RouteInv, NEW p \in Servers, NEW r, r.pc \in {"down", "broken"} \/ Sound(r.config),
         r = [pc |-> r.pc, config |-> r.config], server' = [server EXCEPT ![p] = r]
  PROVE  RouteInv'
<1>1. /\ ServerShape' /\ server'[p] = r
      /\ \A o \in Servers : o # p => server'[o] = server[o]
  BY DEF RouteInv, ServerShape
<1>2. \A o \in Servers : server'[o].pc \notin {"down", "broken"} => Sound(server'[o].config)
  BY <1>1 DEF RouteInv
<1> QED BY <1>1, <1>2, RouteNext

LEMMA NextRoutes ==
  ASSUME EditInv, RouteInv, [Next]_vars
  PROVE  RouteInv'
<1>1. CASE UNCHANGED server
  <2>1. ServerShape' BY <1>1 DEF RouteInv, ServerShape
  <2>2. \A p \in Servers : server'[p].pc \notin {"down", "broken"} => Sound(server'[p].config)
    BY <1>1 DEF RouteInv
  <2> QED BY <2>1, <2>2, RouteNext
<1>2. ASSUME NEW p \in Servers, server' = [server EXCEPT ![p] = Down] PROVE RouteInv'
  <2>1. Down = [pc |-> Down.pc, config |-> Down.config] /\ Down.pc = "down" BY DEF Down
  <2> QED BY <1>2, <2>1, ServerDown
<1>3. ASSUME NEW p \in Servers, LoadConfiguration(p) PROVE RouteInv'
  <2>1. Config(file) BY DEF EditInv, DocInv
  <2>2. CASE from_raw(file)
    <3> DEFINE r == [pc |-> "loaded", config |-> file]
    <3>1. server' = [server EXCEPT ![p] = r] BY <1>3, <2>2 DEF LoadConfiguration
    <3>2. r = [pc |-> r.pc, config |-> r.config] /\ r.config = file OBVIOUS
    <3>3. Sound(r.config) BY <2>1, <2>2, <3>2 DEF Sound
    <3> HIDE DEF r
    <3> QED BY <3>1, <3>2, <3>3, ServerDown
  <2>3. CASE ~from_raw(file)
    <3> DEFINE r == [pc |-> "broken", config |-> file]
    <3>1. server' = [server EXCEPT ![p] = r] BY <1>3, <2>3 DEF LoadConfiguration
    <3>2. r = [pc |-> r.pc, config |-> r.config] /\ r.pc = "broken" OBVIOUS
    <3> HIDE DEF r
    <3> QED BY <3>1, <3>2, ServerDown
  <2> QED BY <2>2, <2>3
<1>4. ASSUME NEW p \in Servers, AcquireLock(p) PROVE RouteInv'
  BY <1>2, <1>4, ServerSet DEF AcquireLock, At
<1>5. ASSUME NEW p \in Servers, OpenDatabase(p) PROVE RouteInv'
  BY <1>2, <1>5, ServerSet DEF OpenDatabase, At, Broken
<1>6. ASSUME NEW p \in Servers, SyncConfiguration(p) PROVE RouteInv'
  BY <1>6, ServerSet DEF SyncConfiguration, At, Broken
<1>7. ASSUME NEW p \in Servers, BuildAndBind(p) PROVE RouteInv'
  BY <1>7, ServerSet DEF BuildAndBind, At
<1>8. ASSUME NEW p \in Servers, RecordSession(p) PROVE RouteInv'
  BY <1>1, <1>8 DEF RecordSession
<1>9. ASSUME NEW p \in Servers, Stop(p) PROVE RouteInv'
  BY <1>2, <1>9 DEF Stop
<1>10. ASSUME NEW e \in Editors, NEW cmd, EditConfiguration(e, cmd) PROVE RouteInv'
  BY <1>1, <1>10 DEF EditConfiguration
<1>11. ASSUME NEW e \in Editors, NEW prepared, NEW account,
              AuthorizeGoogleDrive(e, prepared, account)
       PROVE  RouteInv'
  BY <1>1, <1>11 DEF AuthorizeGoogleDrive
<1>12. ASSUME NEW e \in Editors,
              \/ Load(e) \/ LookupDefaultRoot(e) \/ SaveStorageProvider(e)
              \/ EndWithoutSaving(e) \/ \E f \in FolderIds : CreateDefaultRoot(e, f)
       PROVE  RouteInv'
  BY <1>1, <1>12 DEF Load, LookupDefaultRoot, CreateDefaultRoot, SaveStorageProvider,
     EndWithoutSaving
<1>13. ASSUME NEW f \in FolderIds, TrashFolder(f) PROVE RouteInv'
  BY <1>1, <1>13 DEF TrashFolder
<1>14. CASE UNCHANGED vars BY <1>1, <1>14 DEF vars
<1>15. CASE Next
  BY <1>3, <1>4, <1>5, <1>6, <1>7, <1>8, <1>9, <1>10, <1>11, <1>12, <1>13, <1>15
  DEF Next
<1> QED BY <1>14, <1>15

(* Each repository of a running server is reached by its own route and     *)
(* none other is, in whatever case its identity is spelt: what was edited  *)
(* and saved by however many commands, and what the file held before any,  *)
(* passes the validation of the server that loads it.                      *)
THEOREM RoutesOwned == Spec => []RoutesReachOwn
<1>1. Init => EditInv /\ RouteInv
  <2> SUFFICES ASSUME Init PROVE RouteInv BY InitEdit
  <2>1. server = [p \in Servers |-> Down] BY DEF Init
  <2>2. Down = [pc |-> Down.pc, config |-> Down.config] /\ Down.pc = "down" BY DEF Down
  <2> QED BY <2>1, <2>2 DEF RouteInv, ServerShape
<1>2. EditInv /\ RouteInv /\ [Next]_vars => EditInv' /\ RouteInv'
  BY NextEdit, NextRoutes
<1>3. RouteInv => RoutesReachOwn
  <2> SUFFICES ASSUME RouteInv, NEW p \in Servers, At(p, "serving"),
                      NEW i \in DOMAIN server[p].config.repositories,
                      NEW spelt \in Identities,
                      Lower[spelt] = Lower[server[p].config.repositories[i].identity]
               PROVE  resolve_path(server[p].config, spelt)
                        = server[p].config.repositories[i].id
    BY DEF RoutesReachOwn
  <2> DEFINE R == server[p].config.repositories
             hits == {j \in DOMAIN R : Lower[R[j].identity] = Lower[spelt]}
  <2>1. Sound(server[p].config) BY DEF RouteInv, At
  <2>2. \A j \in DOMAIN R : j # i => Lower[R[j].identity] # Lower[R[i].identity]
    BY <2>1 DEF Sound, from_raw, validate_references, RouteKey
  <2>3. hits = {i} BY <2>2
  <2>4. i \in Nat BY <2>1 DEF Sound, Config
  <2>5. Least({i}) = i BY <2>4 DEF Least
  <2> QED BY <2>3, <2>5 DEF resolve_path
<1> QED BY <1>1, <1>2, <1>3, PTL DEF Spec

----------------------------------------------------------------------------
(* The database of a server.                                               *)

RowRecords ==
  [route : Identities \cup MappingIds, storage : Storages, active : BOOLEAN]

(* The record of the database.                                            *)
Fields(d) ==
  d = [version |-> d.version, schema |-> d.schema, sessions |-> d.sessions,
       storages |-> d.storages, rows |-> d.rows]

(* A database as this release or an older one left it, or a newer one.     *)
Database(d) ==
  /\ Fields(d) /\ d.version \in Nat
  /\ DOMAIN d.rows \subseteq MappingIds
  /\ \A id \in DOMAIN d.rows : d.rows[id] \in RowRecords
  /\ \A v \in 2..SchemaVersion : v > d.version => Adds(v) \cap d.schema = {}
  /\ d.version >= 6 => d.sessions # "retired"

(* What a server that has opened it relies on, and what one that serves    *)
(* does: its rows are those of the configuration.                          *)
Current(d) == d.version = SchemaVersion /\ d.sessions # "retired"

Agrees(d, c) ==
  LET R == c.repositories
  IN  /\ {id \in DOMAIN d.rows : d.rows[id].active} = RepositoryIds(c)
      /\ \A i \in DOMAIN R :
           d.rows[R[i].id] =
             [route |-> R[i].identity, storage |-> R[i].storage, active |-> TRUE]
      /\ \A s \in DOMAIN c.storages : d.storages[s] = c.storages[s].root

(* One field of the database's record is set, and several are.             *)
LEMMA FieldSet ==
  ASSUME NEW d, NEW x, Fields(d)
  PROVE  /\ [d EXCEPT !.version = x]
              = [version |-> x, schema |-> d.schema, sessions |-> d.sessions,
                 storages |-> d.storages, rows |-> d.rows]
         /\ [d EXCEPT !.schema = x]
              = [version |-> d.version, schema |-> x, sessions |-> d.sessions,
                 storages |-> d.storages, rows |-> d.rows]
         /\ [d EXCEPT !.sessions = x]
              = [version |-> d.version, schema |-> d.schema, sessions |-> x,
                 storages |-> d.storages, rows |-> d.rows]
         /\ [d EXCEPT !.storages = x]
              = [version |-> d.version, schema |-> d.schema, sessions |-> d.sessions,
                 storages |-> x, rows |-> d.rows]
         /\ [d EXCEPT !.rows = x]
              = [version |-> d.version, schema |-> d.schema, sessions |-> d.sessions,
                 storages |-> d.storages, rows |-> x]
<1> DEFINE v == d.version  h == d.schema  q == d.sessions  s == d.storages  w == d.rows
           e == [version |-> v, schema |-> h, sessions |-> q, storages |-> s, rows |-> w]
<1>1. d = e BY DEF Fields
<1> HIDE DEF v, h, q, s, w
<1>2. /\ [e EXCEPT !.version = x]
           = [version |-> x, schema |-> h, sessions |-> q, storages |-> s, rows |-> w]
      /\ [e EXCEPT !.schema = x]
           = [version |-> v, schema |-> x, sessions |-> q, storages |-> s, rows |-> w]
      /\ [e EXCEPT !.sessions = x]
           = [version |-> v, schema |-> h, sessions |-> x, storages |-> s, rows |-> w]
      /\ [e EXCEPT !.storages = x]
           = [version |-> v, schema |-> h, sessions |-> q, storages |-> x, rows |-> w]
      /\ [e EXCEPT !.rows = x]
           = [version |-> v, schema |-> h, sessions |-> q, storages |-> s, rows |-> x]
  OBVIOUS
<1> HIDE DEF e
<1>3. /\ [d EXCEPT !.version = x]
           = [version |-> x, schema |-> h, sessions |-> q, storages |-> s, rows |-> w]
      /\ [d EXCEPT !.schema = x]
           = [version |-> v, schema |-> x, sessions |-> q, storages |-> s, rows |-> w]
      /\ [d EXCEPT !.sessions = x]
           = [version |-> v, schema |-> h, sessions |-> x, storages |-> s, rows |-> w]
      /\ [d EXCEPT !.storages = x]
           = [version |-> v, schema |-> h, sessions |-> q, storages |-> x, rows |-> w]
      /\ [d EXCEPT !.rows = x]
           = [version |-> v, schema |-> h, sessions |-> q, storages |-> s, rows |-> x]
  BY <1>1, <1>2, Zenon
<1> QED BY <1>3 DEF v, h, q, s, w

LEMMA MigrationSet ==
  ASSUME NEW d, NEW x, NEW y, NEW z, Fields(d)
  PROVE  [d EXCEPT !.version = x, !.schema = y, !.sessions = z]
           = [version |-> x, schema |-> y, sessions |-> z,
              storages |-> d.storages, rows |-> d.rows]
<1> DEFINE d1 == [d EXCEPT !.version = x]  d2 == [d1 EXCEPT !.schema = y]
           d3 == [d2 EXCEPT !.sessions = z]
<1>1. d1 = [version |-> x, schema |-> d.schema, sessions |-> d.sessions,
            storages |-> d.storages, rows |-> d.rows]
  BY FieldSet
<1>2. [d EXCEPT !.version = x, !.schema = y, !.sessions = z] = d3 OBVIOUS
<1> HIDE DEF d1
<1>3. Fields(d1) BY <1>1 DEF Fields
<1>4. d2 = [version |-> d1.version, schema |-> y, sessions |-> d1.sessions,
            storages |-> d1.storages, rows |-> d1.rows]
  BY <1>3, FieldSet
<1> HIDE DEF d2
<1>5. Fields(d2) BY <1>4 DEF Fields
<1>6. d3 = [version |-> d2.version, schema |-> d2.schema, sessions |-> z,
            storages |-> d2.storages, rows |-> d2.rows]
  BY <1>5, FieldSet
<1> HIDE DEF d3
<1> QED BY <1>1, <1>2, <1>4, <1>6

LEMMA SyncSet ==
  ASSUME NEW d, NEW x, NEW y, Fields(d)
  PROVE  [d EXCEPT !.storages = x, !.rows = y]
           = [version |-> d.version, schema |-> d.schema, sessions |-> d.sessions,
              storages |-> x, rows |-> y]
<1> DEFINE d1 == [d EXCEPT !.storages = x]  d2 == [d1 EXCEPT !.rows = y]
<1>1. d1 = [version |-> d.version, schema |-> d.schema, sessions |-> d.sessions,
            storages |-> x, rows |-> d.rows]
  BY FieldSet
<1>2. [d EXCEPT !.storages = x, !.rows = y] = d2 OBVIOUS
<1> HIDE DEF d1
<1>3. Fields(d1) BY <1>1 DEF Fields
<1>4. d2 = [version |-> d1.version, schema |-> d1.schema, sessions |-> d1.sessions,
            storages |-> d1.storages, rows |-> y]
  BY <1>3, FieldSet
<1> HIDE DEF d2
<1> QED BY <1>1, <1>2, <1>4

(* No two migrations add the same.                                        *)
LEMMA AddsDiffer ==
  \A v, w \in 2..SchemaVersion : v # w => Adds(v) \cap Adds(w) = {}
<1>1. /\ Adds(3) = {"session_tokens"} /\ Adds(4) = {"is_active"}
      /\ Adds(7) = {"server_properties"}
      /\ Adds(2) = {} /\ Adds(5) = {} /\ Adds(6) = {}
  BY DEF Adds
<1>2. \A v \in 2..SchemaVersion : v \in {2, 3, 4, 5, 6, 7} BY DEF SchemaVersion
<1>3. ASSUME NEW v \in 2..SchemaVersion, NEW x \in Adds(v)
      PROVE  \/ (v = 3 /\ x = "session_tokens")
             \/ (v = 4 /\ x = "is_active")
             \/ (v = 7 /\ x = "server_properties")
  BY <1>1, <1>2
<1> QED BY <1>3

(* The migrations of a database that a release of this schema or an older  *)
(* one left apply, and leave no session under a retired key.               *)
LEMMA MigrationsApply ==
  ASSUME NEW d, Database(d), d.version <= SchemaVersion
  PROVE  /\ ~MigrationRefused(d)
         /\ Database(run_migrations(d)) /\ Current(run_migrations(d))
<1>1. \A v, w \in 2..SchemaVersion : v # w => Adds(v) \cap Adds(w) = {}
  BY AddsDiffer
<1>2. ~MigrationRefused(d)
  <2> SUFFICES ASSUME NEW v \in Pending(d), NEW x \in Adds(v) \cap SchemaBefore(d, v)
               PROVE  FALSE
    BY DEF MigrationRefused
  <2>1. v \in 2..SchemaVersion /\ Adds(v) \cap d.schema = {} BY DEF Database, Pending
  <2>2. PICK w \in Pending(d) : w < v /\ x \in Adds(w) BY <2>1 DEF SchemaBefore
  <2>3. w \in 2..SchemaVersion /\ w # v BY <2>1, <2>2 DEF Pending, SchemaVersion
  <2> QED BY <1>1, <2>1, <2>2, <2>3
<1> DEFINE m == run_migrations(d)
           schema == d.schema \cup UNION {Adds(v) : v \in Pending(d)}
           sessions == IF \E v \in Pending(d) : DeletesSessions(v) THEN "none"
                       ELSE d.sessions
<1>3. m = [version |-> SchemaVersion, schema |-> schema, sessions |-> sessions,
           storages |-> d.storages, rows |-> d.rows]
  <2>1. m = [d EXCEPT !.version = SchemaVersion, !.schema = schema, !.sessions = sessions]
    BY DEF run_migrations
  <2> HIDE DEF m, schema, sessions
  <2>2. Fields(d) BY DEF Database
  <2> QED BY <2>1, <2>2, MigrationSet
<1>4. sessions # "retired"
  <2>1. CASE d.version >= 6 BY <2>1 DEF Database
  <2>2. CASE ~(d.version >= 6)
    <3>1. 6 \in Pending(d) /\ DeletesSessions(6)
      BY <2>2 DEF Database, Pending, SchemaVersion, DeletesSessions
    <3> QED BY <3>1
  <2> QED BY <2>1, <2>2
<1> HIDE DEF m, schema, sessions
<1>5. Database(m) BY <1>3, <1>4 DEF Database, Fields, SchemaVersion
<1>6. Current(m) BY <1>3, <1>4 DEF Current
<1> QED BY <1>2, <1>5, <1>6 DEF m

(* A row that is not configured under its route gives the route up.        *)
Released(c, id, r, x) ==
  \/ r.route \in ConfiguredRoute(c, id) /\ x = r
  \/ /\ r.route \notin ConfiguredRoute(c, id)
     /\ x = [route |-> id, storage |-> r.storage, active |-> FALSE]

LEMMA RowReleased ==
  ASSUME NEW d, Database(d), NEW c, NEW id \in DOMAIN d.rows
  PROVE  Released(c, id, d.rows[id], release_inactive_repository_routes(d.rows, c)[id])
<1> DEFINE r == d.rows[id]  s == [r EXCEPT !.route = id]  t == [s EXCEPT !.active = FALSE]
<1>1. r \in RowRecords BY DEF Database
<1>2. release_inactive_repository_routes(d.rows, c)[id]
        = IF r.route \in ConfiguredRoute(c, id) THEN r
          ELSE [r EXCEPT !.route = id, !.active = FALSE]
  BY DEF release_inactive_repository_routes, InactiveRoute
<1>3. [r EXCEPT !.route = id, !.active = FALSE] = t OBVIOUS
<1>4. s = [route |-> id, storage |-> r.storage, active |-> r.active] BY <1>1 DEF RowRecords
<1> HIDE DEF s
<1>5. t = [route |-> id, storage |-> r.storage, active |-> FALSE]
  <2> DEFINE o == r.storage  a == r.active  x == FALSE
  <2>1. s = [route |-> id, storage |-> o, active |-> a] BY <1>4
  <2> HIDE DEF o, a, x
  <2>2. [[route |-> id, storage |-> o, active |-> a] EXCEPT !.active = x]
          = [route |-> id, storage |-> o, active |-> x]
    OBVIOUS
  <2>3. [s EXCEPT !.active = x] = [route |-> id, storage |-> o, active |-> x]
    BY <2>1, <2>2, Zenon
  <2> QED BY <2>3, Zenon DEF o, x
<1> HIDE DEF r, t
<1> QED BY <1>2, <1>3, <1>5 DEF Released, r

(* The IDs and the routes of a configuration that loads are unique.        *)
LEMMA SoundMappings ==
  ASSUME NEW c, Sound(c), NEW i \in DOMAIN c.repositories
  PROVE  /\ c.repositories[i] \in Mappings
         /\ c.repositories[i].storage \in DOMAIN c.storages
         /\ \A j \in DOMAIN c.repositories :
              j # i => /\ c.repositories[j].id # c.repositories[i].id
                       /\ c.repositories[j].identity # c.repositories[i].identity
BY DEF Sound, Config, from_raw, validate_references, RouteKey

LEMMA LatestIsOnly ==
  ASSUME NEW R, NEW n \in Nat, NEW i \in 1..n,
         \A j \in 1..n : j # i => R[j].id # R[i].id
  PROVE  LatestOf(R, n, R[i].id) = i
<1> DEFINE P(k) == R[k].id = R[i].id /\ \A j \in (k + 1)..n : R[j].id # R[i].id
<1>1. P(i)
  <2>1. \A j \in (i + 1)..n : j \in 1..n /\ j # i OBVIOUS
  <2> QED BY <2>1
<1>2. \A k \in 1..n : P(k) => k = i OBVIOUS
<1> HIDE DEF P
<1>3. (CHOOSE k \in 1..n : P(k)) = i BY <1>1, <1>2
<1> QED BY <1>3 DEF LatestOf, P

(* The rows after the first n upserts: those of the first n mappings, and  *)
(* the others as the release of routes left them.                          *)
FirstIds(R, n) == {R[i].id : i \in 1..n}
Row(m) == [route |-> m.identity, storage |-> m.storage, active |-> TRUE]

AreUpserted(R, rows, n, W) ==
  /\ W = [id \in DOMAIN rows \cup FirstIds(R, n) |-> W[id]]
  /\ \A i \in 1..n : W[R[i].id] = Row(R[i])
  /\ \A id \in DOMAIN rows \ FirstIds(R, n) : W[id] = rows[id]

LEMMA RowsUpserted ==
  ASSUME NEW c, Sound(c), NEW rows, NEW n \in 0..Len(c.repositories)
  PROVE  AreUpserted(c.repositories, rows, n,
                     upsert_repository_mapping(rows, c.repositories, n))
<1> DEFINE R == c.repositories  W == upsert_repository_mapping(rows, R, n)
           ids == FirstIds(R, n)
<1>1. W = [id \in DOMAIN rows \cup ids |->
             IF id \in ids THEN Row(R[LatestOf(R, n, id)]) ELSE rows[id]]
  BY DEF upsert_repository_mapping, Row, FirstIds
<1>2. n \in Nat /\ 1..n \subseteq DOMAIN R BY DEF Sound, Config
<1>3. ASSUME NEW i \in 1..n PROVE W[R[i].id] = Row(R[i])
  <2>1. \A j \in 1..n : j # i => R[j].id # R[i].id BY <1>2, SoundMappings
  <2>2. LatestOf(R, n, R[i].id) = i BY <1>2, <2>1, LatestIsOnly
  <2>3. R[i].id \in ids BY DEF FirstIds
  <2> HIDE DEF W, ids
  <2> QED BY <1>1, <2>2, <2>3
<1> HIDE DEF W, ids
<1>4. W = [id \in DOMAIN rows \cup ids |-> W[id]] BY <1>1
<1>5. \A id \in DOMAIN rows \ ids : W[id] = rows[id] BY <1>1
<1> QED BY <1>3, <1>4, <1>5 DEF AreUpserted, W, ids

(* A configuration that loads is taken by every database: no mapping's     *)
(* route is that of another row, which is configured under another route   *)
(* or has given its own up.  After it the rows are the configured ones.    *)
LEMMA SyncApplies ==
  ASSUME NEW d, Database(d), NEW c, Sound(c)
  PROVE  /\ ~SyncRefused(d, c)
         /\ Database(sync_config(d, c)) /\ Agrees(sync_config(d, c), c)
         /\ Current(d) => Current(sync_config(d, c))
<1> DEFINE R == c.repositories
           released == release_inactive_repository_routes(d.rows, c)
           After(n) == upsert_repository_mapping(released, R, n)
           ids(n) == FirstIds(R, n)
           storages == StorageRows(d, c)
<1>1. /\ DOMAIN R = 1..Len(R) /\ Len(R) \in Nat
      /\ \A i \in DOMAIN R : R[i] \in Mappings
  BY DEF Sound, Config
<1>2. DOMAIN released = DOMAIN d.rows BY DEF release_inactive_repository_routes
<1>3. \A id \in DOMAIN d.rows : Released(c, id, d.rows[id], released[id])
  BY RowReleased
<1> HIDE DEF released
<1>4. ASSUME NEW n \in 0..Len(R)
      PROVE  /\ After(n) = [id \in DOMAIN d.rows \cup ids(n) |-> After(n)[id]]
             /\ \A i \in 1..n : After(n)[R[i].id] = Row(R[i])
             /\ \A id \in DOMAIN d.rows \ ids(n) : After(n)[id] = released[id]
  <2>1. AreUpserted(R, released, n, After(n)) BY RowsUpserted
  <2> HIDE DEF After
  <2> QED BY <1>2, <2>1 DEF AreUpserted
<1> HIDE DEF After
<1>5. \A s \in DOMAIN c.storages : s \in DOMAIN storages /\ storages[s] = c.storages[s].root
  BY DEF StorageRows
<1> HIDE DEF storages
<1>6. ASSUME NEW n \in DOMAIN R, NEW id \in DOMAIN After(n - 1) \ {R[n].id}
      PROVE  After(n - 1)[id].route # R[n].identity
  <2>1. n - 1 \in 0..Len(R) /\ 1..(n - 1) \subseteq DOMAIN R /\ n \notin 1..(n - 1)
    BY <1>1
  <2>2. CASE id \in ids(n - 1)
    <3>1. PICK i \in 1..(n - 1) : id = R[i].id BY <2>2 DEF FirstIds
    <3>2. After(n - 1)[R[i].id] = Row(R[i]) BY <1>4, <2>1, <3>1
    <3>3. Row(R[i]).route = R[i].identity BY DEF Row
    <3>4. i \in DOMAIN R /\ i # n BY <2>1, <3>1
    <3>5. R[i].identity # R[n].identity BY <3>4, SoundMappings
    <3> QED BY <3>1, <3>2, <3>3, <3>5
  <2>3. CASE id \notin ids(n - 1)
    <3>1. id \in DOMAIN d.rows /\ After(n - 1)[id] = released[id]
      BY <1>4, <1>6, <2>1, <2>3
    <3>2. CASE released[id].route \in ConfiguredRoute(c, id)
      <4>1. PICK i \in DOMAIN R : R[i].id = id /\ released[id].route = R[i].identity
        BY <3>2 DEF ConfiguredRoute, Positions
      <4>2. i # n BY <1>6, <4>1
      <4> QED BY <3>1, <4>1, <4>2, SoundMappings
    <3>3. CASE released[id].route = id
      <4>1. id \in MappingIds BY <3>1 DEF Database
      <4>2. R[n].identity \in Identities BY <1>1 DEF Mappings
      <4>3. MappingIds \cap Identities = {} BY DatabaseAssumption DEF DatabaseAssumption
      <4> QED BY <3>1, <3>3, <4>1, <4>2, <4>3
    <3>4. Released(c, id, d.rows[id], released[id]) BY <1>3, <3>1
    <3>5. released[id].route \in ConfiguredRoute(c, id) \/ released[id].route = id
      BY <3>4 DEF Released
    <3> QED BY <3>2, <3>3, <3>5
  <2> QED BY <2>2, <2>3
<1>7. ~SyncRefused(d, c)
  <2>1. ASSUME NEW n \in DOMAIN R
        PROVE  ~MappingRefused(After(n - 1), DOMAIN storages, R[n])
    BY <1>5, <1>6, SoundMappings DEF MappingRefused
  <2> QED BY <2>1 DEF SyncRefused, After, released, storages
<1> DEFINE W == After(Len(R))  D == sync_config(d, c)
<1>8. D = [version |-> d.version, schema |-> d.schema, sessions |-> d.sessions,
           storages |-> storages, rows |-> W]
  <2>1. D = [d EXCEPT !.storages = storages, !.rows = W]
    BY DEF sync_config, After, released, storages
  <2> HIDE DEF D, W
  <2>2. Fields(d) BY DEF Database
  <2> QED BY <2>1, <2>2, SyncSet
<1>9. /\ DOMAIN W = DOMAIN d.rows \cup ids(Len(R))
      /\ \A i \in DOMAIN R : W[R[i].id] = Row(R[i])
      /\ \A id \in DOMAIN d.rows \ ids(Len(R)) : W[id] = released[id]
  <2>1. Len(R) \in 0..Len(R) BY <1>1
  <2>2. /\ W = [id \in DOMAIN d.rows \cup ids(Len(R)) |-> W[id]]
        /\ \A i \in 1..Len(R) : W[R[i].id] = Row(R[i])
        /\ \A id \in DOMAIN d.rows \ ids(Len(R)) : W[id] = released[id]
    BY <1>4, <2>1
  <2> HIDE DEF W
  <2> QED BY <1>1, <2>2
<1> HIDE DEF W
<1>10. ASSUME NEW id \in DOMAIN W
       PROVE  /\ id \in MappingIds /\ W[id] \in RowRecords
              /\ W[id].active <=> id \in ids(Len(R))
  <2>1. CASE id \in ids(Len(R))
    <3>1. PICK i \in DOMAIN R : id = R[i].id BY <1>1, <2>1 DEF FirstIds
    <3>2. W[id] = Row(R[i]) BY <1>9, <3>1
    <3>3. R[i] \in Mappings BY <1>1
    <3>4. id \in MappingIds BY <3>1, <3>3 DEF Mappings
    <3>5. Row(R[i]) \in RowRecords /\ Row(R[i]).active = TRUE
      BY <3>3 DEF Mappings, RowRecords, Row
    <3> QED BY <2>1, <3>2, <3>4, <3>5
  <2>2. CASE id \notin ids(Len(R))
    <3>1. id \in DOMAIN d.rows /\ W[id] = released[id] BY <1>9, <1>10, <2>2
    <3>2. ConfiguredRoute(c, id) = {} BY <1>1, <2>2 DEF ConfiguredRoute, Positions, FirstIds
    <3>3. W[id] = [route |-> id, storage |-> d.rows[id].storage, active |-> FALSE]
      BY <1>3, <3>1, <3>2 DEF Released
    <3>4. id \in MappingIds /\ d.rows[id].storage \in Storages
      BY <3>1 DEF Database, RowRecords
    <3> QED BY <2>2, <3>3, <3>4 DEF RowRecords
  <2> QED BY <2>1, <2>2
<1> HIDE DEF D
<1>11. Database(D) BY <1>8, <1>10 DEF Database, Fields
<1>12. Agrees(D, c)
  <2>1. ids(Len(R)) = RepositoryIds(c) BY <1>1 DEF RepositoryIds, FirstIds
  <2>2. {id \in DOMAIN W : W[id].active} = RepositoryIds(c) BY <1>9, <1>10, <2>1
  <2> QED BY <1>5, <1>8, <1>9, <2>2 DEF Agrees, Row
<1>13. Current(d) => Current(D) BY <1>8 DEF Current
<1> QED BY <1>7, <1>11, <1>12, <1>13 DEF D

(* A server r named p, with the lock at k and the database d: what it has  *)
(* brought the database to stays, because it holds the lock.               *)
Phases == {"down", "loaded", "locked", "open", "synced", "serving"}
Idles == {"down", "loaded"}
Phase(p, r, k, d) ==
  /\ r.pc \in Phases
  /\ r.pc \notin Idles => k = p
  /\ r.pc \in {"open", "synced", "serving"} => Current(d)
  /\ r.pc \in {"synced", "serving"} => Agrees(d, r.config)

ServedInv ==
  /\ from_raw(file) /\ Database(db)
  /\ \A p \in Servers : Phase(p, server[p], lock, db)

LEMMA ServedNext ==
  ASSUME from_raw(file'), Database(db'),
         \A p \in Servers : Phase(p, server'[p], lock', db')
  PROVE  ServedInv'
<1>1. from_raw(file)'
  BY DEF from_raw, validate_references, RepositoryMappingFromRaw, RouteKey
<1>2. Database(db)' BY DEF Database, Fields
<1>3. ASSUME NEW p \in Servers PROVE Phase(p, server[p], lock, db)'
  <2>1. Phase(p, server'[p], lock', db') OBVIOUS
  <2>2. Current(db') => Current(db)' BY DEF Current
  <2>3. Agrees(db', server'[p].config) => Agrees(db, server[p].config)'
    BY DEF Agrees, RepositoryIds
  <2> QED BY <2>1, <2>2, <2>3 DEF Phase
<1> QED BY <1>1, <1>2, <1>3 DEF ServedInv

(* While a server has the lock, or nobody, every other one has yet to      *)
(* begin with the database.                                                *)
LEMMA OthersIdle ==
  ASSUME ServedInv, NEW p, lock \in {p, None}, NEW o \in Servers, o # p
  PROVE  server[o].pc \in Idles
BY DatabaseAssumption DEF DatabaseAssumption, ServedInv, Phase

(* A server goes on in its start, with the lock.                           *)
LEMMA StepServed ==
  ASSUME ServedInv, ServerShape, NEW p \in Servers, NEW pc \in Phases \ Idles,
         lock \in {p, None}, lock' = p, server' = [server EXCEPT ![p].pc = pc],
         UNCHANGED file, Database(db'),
         pc \in {"open", "synced", "serving"} => Current(db'),
         pc \in {"synced", "serving"} => Agrees(db', server[p].config)
  PROVE  ServedInv'
<1>1. /\ server'[p].pc = pc /\ server'[p].config = server[p].config
      /\ \A o \in Servers : o # p => server'[o] = server[o]
  BY PcSet
<1>2. Phase(p, server'[p], lock', db') BY <1>1 DEF Phase
<1>3. ASSUME NEW o \in Servers, o # p PROVE Phase(o, server'[o], lock', db')
  <2>1. server'[o].pc \in Idles BY <1>1, <1>3, OthersIdle
  <2> QED BY <2>1 DEF Phase, Phases, Idles
<1>4. from_raw(file') BY DEF ServedInv
<1> QED BY <1>2, <1>3, <1>4, ServedNext

(* A server is down, or has loaded its file, and may have given the lock   *)
(* back.                                                                   *)
LEMMA IdleServed ==
  ASSUME ServedInv, ServerShape, NEW p \in Servers, NEW r, r.pc \in Idles,
         server' = [server EXCEPT ![p] = r], UNCHANGED <<file, db>>,
         lock' = lock \/ lock = p
  PROVE  ServedInv'
<1>1. server'[p] = r /\ \A o \in Servers : o # p => server'[o] = server[o]
  BY DEF ServerShape
<1>2. Phase(p, server'[p], lock', db') BY <1>1 DEF Phase, Phases, Idles
<1>3. ASSUME NEW o \in Servers, o # p PROVE Phase(o, server'[o], lock', db')
  <2>1. Phase(o, server[o], lock, db) BY DEF ServedInv
  <2>2. CASE lock' = lock BY <1>1, <1>3, <2>1, <2>2
  <2>3. CASE lock = p
    <3>1. server'[o].pc \in Idles BY <1>1, <1>3, <2>3, OthersIdle
    <3> QED BY <3>1 DEF Phase, Phases, Idles
  <2> QED BY <2>2, <2>3
<1>4. from_raw(file') /\ Database(db') BY DEF ServedInv
<1> QED BY <1>2, <1>3, <1>4, ServedNext

LEMMA NextServed ==
  ASSUME RouteInv, ServedInv, [Next]_vars
  PROVE  ServedInv'
<1>1. ServerShape /\ Database(db) /\ from_raw(file) BY DEF RouteInv, ServedInv
<1>2. Down.pc \in Idles BY DEF Down, Idles
<1>3. ASSUME UNCHANGED <<db, server, lock>>, from_raw(file') PROVE ServedInv'
  <2>1. Database(db') BY <1>1, <1>3
  <2>2. \A p \in Servers : Phase(p, server'[p], lock', db') BY <1>3 DEF ServedInv
  <2> QED BY <1>3, <2>1, <2>2, ServedNext
<1>4. ASSUME NEW p \in Servers, LoadConfiguration(p) PROVE ServedInv'
  <2> DEFINE r == [pc |-> "loaded", config |-> file]
  <2>1. server' = [server EXCEPT ![p] = r] /\ UNCHANGED <<file, db, lock>>
    BY <1>1, <1>4 DEF LoadConfiguration
  <2>2. r.pc \in Idles BY DEF Idles
  <2> HIDE DEF r
  <2> QED BY <1>1, <2>1, <2>2, IdleServed
<1>5. ASSUME NEW p \in Servers, AcquireLock(p) PROVE ServedInv'
  <2>1. CASE lock = None
    BY <1>1, <1>5, <2>1, StepServed DEF AcquireLock, Phases, Idles
  <2>2. CASE lock # None
    BY <1>1, <1>2, <1>5, <2>2, IdleServed DEF AcquireLock
  <2> QED BY <2>1, <2>2
<1>6. ASSUME NEW p \in Servers, OpenDatabase(p) PROVE ServedInv'
  <2>1. lock = p BY <1>6 DEF OpenDatabase, At, ServedInv, Phase, Idles
  <2>2. CASE db.version > SchemaVersion
    BY <1>1, <1>2, <1>6, <2>1, <2>2, IdleServed DEF OpenDatabase
  <2>3. CASE ~(db.version > SchemaVersion)
    <3>1. db.version <= SchemaVersion BY <1>1, <2>3 DEF Database, SchemaVersion
    <3>2. /\ ~MigrationRefused(db)
          /\ Database(run_migrations(db)) /\ Current(run_migrations(db))
      BY <1>1, <3>1, MigrationsApply
    <3>3. /\ db' = run_migrations(db) /\ server' = [server EXCEPT ![p].pc = "open"]
          /\ UNCHANGED <<lock, file>>
      BY <1>6, <2>3, <3>2 DEF OpenDatabase
    <3>4. "open" \in Phases \ Idles BY DEF Phases, Idles
    <3> QED BY <1>1, <2>1, <3>2, <3>3, <3>4, StepServed
  <2> QED BY <2>2, <2>3
<1>7. ASSUME NEW p \in Servers, SyncConfiguration(p) PROVE ServedInv'
  <2> DEFINE c == server[p].config
  <2>1. lock = p /\ Current(db)
    BY <1>7 DEF SyncConfiguration, At, ServedInv, Phase, Idles
  <2>2. Sound(c) BY <1>7 DEF SyncConfiguration, At, RouteInv
  <2> HIDE DEF c
  <2>3. /\ ~SyncRefused(db, c) /\ Database(sync_config(db, c))
        /\ Agrees(sync_config(db, c), c) /\ Current(sync_config(db, c))
    BY <1>1, <2>1, <2>2, SyncApplies
  <2>4. /\ db' = sync_config(db, c) /\ server' = [server EXCEPT ![p].pc = "synced"]
        /\ UNCHANGED <<lock, file>>
    BY <1>7, <2>3 DEF SyncConfiguration, c
  <2>5. "synced" \in Phases \ Idles BY DEF Phases, Idles
  <2> QED BY <1>1, <2>1, <2>3, <2>4, <2>5, StepServed DEF c
<1>8. ASSUME NEW p \in Servers, BuildAndBind(p) PROVE ServedInv'
  <2>1. lock = p /\ Current(db) /\ Agrees(db, server[p].config)
    BY <1>8 DEF BuildAndBind, At, ServedInv, Phase, Idles
  <2>2. /\ server' = [server EXCEPT ![p].pc = "serving"] /\ UNCHANGED <<lock, file, db>>
    BY <1>8 DEF BuildAndBind
  <2>3. "serving" \in Phases \ Idles BY DEF Phases, Idles
  <2> QED BY <1>1, <2>1, <2>2, <2>3, StepServed
<1>9. ASSUME NEW p \in Servers, RecordSession(p) PROVE ServedInv'
  <2>1. lock = p BY <1>9 DEF RecordSession, At, ServedInv, Phase, Idles
  <2>2. db' = [version |-> db.version, schema |-> db.schema, sessions |-> "current",
               storages |-> db.storages, rows |-> db.rows]
    BY <1>1, <1>9, FieldSet DEF RecordSession, Database
  <2>3. Database(db') BY <1>1, <2>2 DEF Database, Fields
  <2>4. Current(db) => Current(db') BY <2>2 DEF Current
  <2>5. ASSUME NEW c, Agrees(db, c) PROVE Agrees(db', c) BY <2>2, <2>5 DEF Agrees
  <2>6. \A o \in Servers : Phase(o, server'[o], lock', db')
    BY <1>9, <2>4, <2>5 DEF RecordSession, ServedInv, Phase
  <2> QED BY <1>1, <1>9, <2>3, <2>6, ServedNext DEF RecordSession
<1>10. ASSUME NEW p \in Servers, Stop(p) PROVE ServedInv'
  BY <1>1, <1>2, <1>10, IdleServed DEF Stop
<1>11. ASSUME NEW e \in Editors, NEW cmd, EditConfiguration(e, cmd) PROVE ServedInv'
  BY <1>3, <1>11 DEF EditConfiguration, Save
<1>12. ASSUME NEW e \in Editors, SaveStorageProvider(e) PROVE ServedInv'
  BY <1>3, <1>12 DEF SaveStorageProvider, Save
<1>13. ASSUME NEW e \in Editors, NEW prepared, NEW account,
              AuthorizeGoogleDrive(e, prepared, account)
       PROVE  ServedInv'
  BY <1>1, <1>3, <1>13 DEF AuthorizeGoogleDrive
<1>14. ASSUME NEW e \in Editors,
              \/ Load(e) \/ LookupDefaultRoot(e) \/ EndWithoutSaving(e)
              \/ \E f \in FolderIds : CreateDefaultRoot(e, f)
       PROVE  ServedInv'
  BY <1>1, <1>3, <1>14 DEF Load, LookupDefaultRoot, CreateDefaultRoot, EndWithoutSaving
<1>15. ASSUME NEW f \in FolderIds, TrashFolder(f) PROVE ServedInv'
  BY <1>1, <1>3, <1>15 DEF TrashFolder
<1>16. CASE UNCHANGED vars BY <1>1, <1>3, <1>16 DEF vars
<1>17. CASE Next
  BY <1>4, <1>5, <1>6, <1>7, <1>8, <1>9, <1>10, <1>11, <1>12, <1>13, <1>14, <1>15, <1>17
  DEF Next
<1> QED BY <1>16, <1>17

LEMMA InitServed ==
  ASSUME Init
  PROVE  RouteInv /\ ServedInv
<1> PICK setup \in InitialSetups : file = setup.file /\ db = setup.db BY DEF Init
<1>1. server = [p \in Servers |-> Down] BY DEF Init
<1>2. Down = [pc |-> Down.pc, config |-> Down.config] /\ Down.pc = "down" BY DEF Down
<1>3. RouteInv BY <1>1, <1>2 DEF RouteInv, ServerShape
<1>4. /\ from_raw(file) /\ db \in Databases
      /\ \A v \in 1..SchemaVersion : v > db.version => Adds(v) \cap db.schema = {}
      /\ db.version >= 6 => db.sessions # "retired"
  BY DatabaseAssumption, Zenon DEF DatabaseAssumption
<1>5. Database(db)
  <2>1. PICK I \in SUBSET MappingIds : db.rows \in [I -> RowRecords]
    BY <1>4 DEF Databases, RowRecords
  <2>2. Fields(db) /\ db.version \in Nat BY <1>4 DEF Databases, Fields
  <2>3. \A v \in 2..SchemaVersion : v \in 1..SchemaVersion BY DEF SchemaVersion
  <2> QED BY <1>4, <2>1, <2>2, <2>3 DEF Database
<1>6. \A p \in Servers : Phase(p, server[p], lock, db)
  BY <1>1, <1>2 DEF Phase, Phases, Idles
<1> QED BY <1>3, <1>4, <1>5, <1>6 DEF ServedInv

(* No start fails on the file or on the database, and the database of a    *)
(* server that serves says what it was configured with: whatever releases  *)
(* the database comes from, whatever was edited, saved and restarted       *)
(* before, and however many servers are started at once.                   *)
THEOREM StartsServe == Spec => []ServedAsConfigured
<1>1. Init => EditInv /\ RouteInv /\ ServedInv BY InitEdit, InitServed
<1>2. EditInv /\ RouteInv /\ ServedInv /\ [Next]_vars => EditInv' /\ RouteInv' /\ ServedInv'
  BY NextEdit, NextRoutes, NextServed
<1>3. ServedInv => ServedAsConfigured
  <2> SUFFICES ASSUME ServedInv, NEW p \in Servers
               PROVE  /\ ~At(p, "broken")
                      /\ At(p, "serving") => Current(db) /\ Agrees(db, server[p].config)
    BY DEF ServedAsConfigured, StartsClean, RowsMatchServer, Current, Agrees
  <2> QED BY DEF ServedInv, Phase, Phases, At
<1> QED BY <1>1, <1>2, <1>3, PTL DEF Spec
============================================================================
