---------------------------- MODULE HistoryScan ----------------------------
(***************************************************************************)
(* The scan of a repository's history for LFS pointers                     *)
(* (migration/history.rs, migration/attributes.rs).  Commits, trees and    *)
(* blobs are immutable and named by their content, so the tree and the     *)
(* blob cache of the scanner are the functions Summary and PointerOf.  The *)
(* caches that a wrong key could break are kept: which paths Git's         *)
(* attributes give to LFS, and what each commit holds.                     *)
(***************************************************************************)
EXTENDS Naturals, Sequences, FiniteSets, SequencesExt

CONSTANTS
  Commits, Trees, Blobs, Objects,
  NoObject,      \* a blob that is not a usable pointer
  Attributes,    \* the name .gitattributes
  RevList,       \* commit -> its ancestors and itself, newest first
  TreeOf,        \* commit -> tree
  EntriesOf,     \* tree -> set of [mode, name, id]
  PointerOf,     \* blob -> the object its pointer names, or NoObject
  RulesOf        \* blob -> function from names to "lfs" or "unset"

Modes == {"tree", "file", "submodule"}

(* GitBatchObjectReader: what `git cat-file --batch` returns for a tree.    *)
contents(t) == EntriesOf[t]

(* parse_raw_git_tree, without the entries of a mode it does not know.      *)
parse_raw_git_tree(t) == {e \in contents(t) : e.mode \in Modes}

(* A blob that is too large for a pointer is not read; one that does not    *)
(* parse, or names the empty object, is skipped.                            *)
read_pointer_blob_candidate(b) == PointerOf[b]

rev_list_commits(c) == RevList[c]

(* tree_summary: the pointer blobs and the attribute files of a tree, with  *)
(* the paths of subtrees prefixed.  A submodule contributes nothing.        *)
Prefixed(e, child) ==
  [pointer_blobs   |-> {[path |-> <<e.name>> \o b.path, id |-> b.id] :
                           b \in child.pointer_blobs},
   attribute_blobs |-> {[path |-> <<e.name>> \o b.path, id |-> b.id] :
                           b \in child.attribute_blobs}]

Summary[t \in Trees] ==
  LET entries == parse_raw_git_tree(t)
      files == {e \in entries : e.mode = "file"}
      children == {Prefixed(e, Summary[e.id]) : e \in {x \in entries : x.mode = "tree"}}
      At(e) == [path |-> <<e.name>>, id |-> e.id]
  IN [pointer_blobs   |-> {At(e) : e \in {x \in files : read_pointer_blob_candidate(x.id) # NoObject}}
                            \cup UNION {c.pointer_blobs : c \in children},
      attribute_blobs |-> {At(e) : e \in {x \in files : x.name = Attributes}}
                            \cup UNION {c.attribute_blobs : c \in children}]

(* Git (external): the attribute of a path in a tree.  Of the attribute     *)
(* files in the directories above the path the deepest that has a rule for  *)
(* its name decides.                                                        *)
Deciding(attributes, path) ==
  {a \in attributes :
     /\ Front(a.path) = SubSeq(path, 1, Len(a.path) - 1)
     /\ Len(a.path) =< Len(path)
     /\ Last(path) \in DOMAIN RulesOf[a.id]}

git_check_attr(c, paths) ==
  {p \in paths :
     \E a \in Deciding(Summary[TreeOf[c]].attribute_blobs, p) :
        /\ RulesOf[a.id][Last(p)] = "lfs"
        /\ \A b \in Deciding(Summary[TreeOf[c]].attribute_blobs, p) :
              Len(b.path) =< Len(a.path)}

(***************************************************************************)
(* The scanner: a record of its caches, and of the objects found.           *)
(***************************************************************************)
NewScanner ==
  [attribute_cache |-> [k \in {} |-> {}],
   commit_cache    |-> [c \in {} |-> {}],
   pointers        |-> {}]

Extend(f, k, v) == [x \in DOMAIN f \cup {k} |-> IF x = k THEN v ELSE f[x]]

Paths(summary) == {b.path : b \in summary.pointer_blobs}

(* mutant: the attribute files are left out of the key of a query           *)
QueryKeyByPath(summary) ==
  [attribute_blobs |-> {}, pointer_paths |-> Paths(summary)]

HistoryAttributeQueryKey(summary) ==
  [attribute_blobs |-> summary.attribute_blobs, pointer_paths |-> Paths(summary)]

(* scan_commit: the pointers of a commit on paths that belong to LFS.       *)
scan_commit(s, c) ==
  LET summary == Summary[TreeOf[c]]
      key == HistoryAttributeQueryKey(summary)
      lfs_paths == IF key \in DOMAIN s.attribute_cache
                     THEN s.attribute_cache[key]
                     ELSE git_check_attr(c, Paths(summary))
  IN IF summary.pointer_blobs = {}
       THEN [s EXCEPT !.commit_cache = Extend(@, c, {})]
       ELSE [s EXCEPT
               !.attribute_cache = Extend(@, key, lfs_paths),
               !.commit_cache =
                  Extend(@, c, {PointerOf[b.id] :
                                  b \in {x \in summary.pointer_blobs :
                                           x.path \in lfs_paths}})]

(* scan_ref, once per commit of the list: a commit is scanned once.         *)
VisitCommit(s, c) ==
  LET t == IF c \in DOMAIN s.commit_cache THEN s ELSE scan_commit(s, c)
  IN [t EXCEPT !.pointers = @ \cup t.commit_cache[c]]

scan_ref(s, c) == FoldLeft(VisitCommit, s, rev_list_commits(c))

(* scan_resolved_history_refs, for the commits of the refs in order.        *)
ScannedObjects(tips) == FoldLeft(scan_ref, NewScanner, tips).pointers

(* enumerate_current_checkout_lfs_pointers, for an index and a worktree     *)
(* that hold commit c.                                                      *)
CheckedOutObjects(c) ==
  LET summary == Summary[TreeOf[c]]
      lfs_paths == git_check_attr(c, Paths(summary))
  IN {PointerOf[b.id] : b \in {x \in summary.pointer_blobs : x.path \in lfs_paths}}

(***************************************************************************)
(* The reference: an object belongs to a history when some commit of it     *)
(* holds the object's pointer at a path that Git gives to LFS there.        *)
(***************************************************************************)
FilesOf[t \in Trees] ==
  {[path |-> <<e.name>>, id |-> e.id] :
     e \in {x \in EntriesOf[t] : x.mode = "file"}}
  \cup
  UNION {{[path |-> <<e.name>> \o f.path, id |-> f.id] : f \in FilesOf[e.id]} :
           e \in {x \in EntriesOf[t] : x.mode = "tree"}}

Referenced(tips) ==
  {PointerOf[f.id] : f \in UNION {
     {f \in FilesOf[TreeOf[c]] :
        PointerOf[f.id] # NoObject /\ f.path \in git_check_attr(c, {f.path})} :
     c \in UNION {Range(RevList[t]) : t \in tips}}}
=============================================================================
