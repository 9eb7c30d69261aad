--------------------------- MODULE MCServerSetup ---------------------------
(* A small instance of ServerSetup for TLC.                                 *)
EXTENDS ServerSetup

CONSTANTS gh, s1, r1, r2, dir, g1

(* Two spellings of one repository, another one and one no route can carry. *)
MCIdentities == {"Team/app", "team/app", "team/lib", "team/x.git"}
MCLower == [i \in MCIdentities |-> IF i = "Team/app" THEN "team/app" ELSE i]
MCMalformed == {"team/x.git"}

Mapping(id, identity) ==
  [id |-> id, provider |-> gh, identity |-> identity, storage |-> s1]

(* Nothing set up yet; and a server with two repositories on a folder of    *)
(* its own, whose database is of this, an older or a newer release.         *)
Configured ==
  [providers |-> {gh}, storages |-> s1 :> [dir |-> dir, root |-> 1],
   repositories |-> <<Mapping(r1, "team/app"), Mapping(r2, "team/lib")>>]

Row(identity) == [route |-> identity, storage |-> s1, active |-> TRUE]
Database(version, schema, sessions) ==
  [version |-> version, schema |-> schema, sessions |-> sessions,
   storages |-> s1 :> 1, rows |-> r1 :> Row("team/app") @@ r2 :> Row("team/lib")]
NewDatabase ==
  [version |-> 0, schema |-> {}, sessions |-> "none", storages |-> <<>>, rows |-> <<>>]

MCInitialSetups ==
  {[file |-> EmptyConfig, adc |-> dir :> None, db |-> NewDatabase,
    folder |-> [f \in FolderIds |-> [owner |-> None, live |-> FALSE]]]}
  \cup
  {[file |-> Configured, adc |-> dir :> g1, db |-> d,
    folder |-> [f \in FolderIds |-> IF f = 1 THEN [owner |-> g1, live |-> TRUE]
                                    ELSE [owner |-> None, live |-> FALSE]]] :
     d \in {Database(7, {"session_tokens", "is_active", "server_properties"}, "current"),
            Database(4, {"session_tokens", "is_active"}, "retired"),
            Database(8, {"session_tokens", "is_active", "server_properties"}, "current")}}

Symmetry == Permutations(Editors) \cup Permutations(Servers)
=============================================================================
