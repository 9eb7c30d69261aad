------------------------- MODULE MCMigrationCommand -------------------------
(***************************************************************************)
(* An instance of MigrationCommand: five commits.  k2 and k3 have the same *)
(* pointers as k1 under another .gitattributes, k4 adds a directory with   *)
(* rules of its own and a submodule, k5 is a second root.                  *)
(***************************************************************************)
EXTENDS MigrationCommand

CONSTANTS
  k1, k2, k3, k4, k5, t1, t2, t3, t4, t5, td, bA, bB, bC, all, both, text,
  o1, o2, o3, attributes, n1, n2, dir, sub, main, side, head, gone,
  here, alias, old, implied, unset

File(name, id) == [mode |-> "file", name |-> name, id |-> id]

MCCommits == {k1, k2, k3, k4, k5}
MCTrees == {t1, t2, t3, t4, t5, td}
MCBlobs == {bA, bB, bC, all, both, text}
MCObjects == {o1, o2, o3}

MCRevList ==
  (k1 :> <<k1>>) @@ (k2 :> <<k2, k1>>) @@ (k3 :> <<k3, k2, k1>>)
    @@ (k4 :> <<k4, k2, k1>>) @@ (k5 :> <<k5>>)
MCTreeOf == (k1 :> t1) @@ (k2 :> t2) @@ (k3 :> t3) @@ (k4 :> t4) @@ (k5 :> t5)
MCEntriesOf ==
     (t1 :> {File(n1, bA), File(n2, bB)})
  @@ (t2 :> {File(n1, bA), File(n2, bB), File(attributes, all)})
  @@ (t3 :> {File(n1, text), File(attributes, both)})
  @@ (t4 :> {File(n1, bA), File(n2, bB), File(attributes, all),
             [mode |-> "tree", name |-> dir, id |-> td],
             [mode |-> "submodule", name |-> sub, id |-> k5]})
  @@ (td :> {File(n1, bB), File(n2, bC), File(attributes, both)})
  @@ (t5 :> {File(n1, bA), File(n2, bB), File(attributes, both)})
MCPointerOf ==
  (bA :> o1) @@ (bB :> o2) @@ (bC :> o3) @@ (all :> gone)
    @@ (both :> gone) @@ (text :> gone)
MCRulesOf ==
  (all :> (n1 :> "lfs")) @@ (both :> ((n1 :> "unset") @@ (n2 :> "lfs")))
    @@ (bA :> <<>>) @@ (bB :> <<>>) @@ (bC :> <<>>) @@ (text :> <<>>)

MCBranches == {main, side}
MCRefOrder == <<head, main, side>>
MCObjectOrder == <<o1, o2, o3>>
MCRoutes == {here, alias}
MCLegacy == {old, implied}

Urls(local_remote, file_remote, local_url, file_url) ==
  [local_remote |-> local_remote, file_remote |-> file_remote,
   local_url |-> local_url, file_url |-> file_url]

Clone(urls, h, m, s, media_state, in_cache, in_target, not_ready) ==
  [remote |-> (main :> m) @@ (side :> s),
   refs |-> (head :> h) @@ (main :> k1) @@ (side :> NoCommit),
   media |-> media_state, cached |-> in_cache, target |-> in_target,
   config |-> urls, unready |-> not_ready]

Media(a, b, c) == (o1 :> a) @@ (o2 :> b) @@ (o3 :> c)

MCClones ==
  {Clone(Urls(unset, unset, unset, old), k2, k4, k5,
         Media("good", "bad", "absent"), {o2}, {}, {"lfs-filters"}),
   Clone(Urls(old, unset, here, unset), k1, k2, NoCommit,
         Media("bad", "absent", "absent"), {}, {}, {}),
   Clone(Urls(unset, unset, unset, here), k1, k1, NoCommit,
         Media("absent", "absent", "absent"), {}, {}, {"git-lfs", "complete-history"}),
   Clone(Urls(unset, unset, unset, unset), k2, k2, NoCommit,
         Media("good", "absent", "absent"), {}, {}, {})}

Command(dry_run, all_refs, selected, server) ==
  [dry_run |-> dry_run, all_refs |-> all_refs, refs |-> selected, server |-> server,
   purge |-> dry_run]

MCOptions ==
  {Command(FALSE, TRUE, <<>>, here), Command(FALSE, TRUE, <<>>, unset),
   Command(FALSE, FALSE, <<>>, here), Command(TRUE, TRUE, <<>>, alias),
   Command(TRUE, FALSE, <<main>>, here), Command(TRUE, FALSE, <<>>, unset)}
=============================================================================
