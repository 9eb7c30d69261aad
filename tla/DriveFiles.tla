----------------------------- MODULE DriveFiles -----------------------------
(***************************************************************************)
(* How objects are kept on Google Drive: what a file of an object and the  *)
(* folder of a shard are named and tagged, the queries that ask Drive for  *)
(* them, and the checks of what Drive answers.  Drive lets many files have *)
(* one name, and people put, move and trash files in the same folders.     *)
(*                                                                         *)
(* A key is the identity of an object in a repository: [namespace, oid,    *)
(* size].  A file has a field of that nobody but Drive's users can see:    *)
(* the key of the object whose bytes it holds.                             *)
(***************************************************************************)
EXTENDS Naturals, FiniteSets

CONSTANTS
  Root,     \* the configured folder, root_folder_id
  Prefix,   \* Prefix[oid]: the first digits of an object id, its shard
  Fitting,  \* the namespaces that fit in a property of a Drive file
  Sha256    \* Sha256[n]: the digest of a namespace that does not

(* No two namespaces have one digest, and no repository is named like the  *)
(* digest of another: nothing in the code prevents the latter, because the *)
(* format of a namespace is only looked at for those that need a digest.   *)
ASSUME DigestAssumption ==
  /\ \A m, n \in DOMAIN Sha256 : Sha256[m] = Sha256[n] => m = n
  /\ \A n \in DOMAIN Sha256 : Sha256[n] \notin Fitting

Keys == [namespace : Fitting \cup DOMAIN Sha256, oid : DOMAIN Prefix, size : Nat]

file_name(key) == <<"sha256", key.oid, key.size>>
shard_folder_name(key) == <<"lfscloud-sha256", Prefix[key.oid]>>

GoogleDriveRepositoryNamespaceProperty(n) ==
  IF n \in Fitting THEN [namespace |-> n]
  ELSE [namespace |-> Sha256[n], format |-> "sha256"]

expected_app_properties(key) ==
  LET object == [version |-> 1, oid |-> key.oid, size |-> key.size]
      tag == GoogleDriveRepositoryNamespaceProperty(key.namespace)
  IN  [p \in DOMAIN object \cup DOMAIN tag |->
         IF p \in DOMAIN object THEN object[p] ELSE tag[p]]

shard_properties(key) == [kind |-> "object-shard", prefix |-> Prefix[key.oid]]

(* The file that an upload makes, and the folder made for it.              *)
drive_upload_metadata(id, parent, key) ==
  [id |-> id, name |-> file_name(key), mime |-> "octet-stream",
   parents |-> {parent}, trashed |-> FALSE, size |-> key.size,
   properties |-> expected_app_properties(key), of |-> key]

drive_shard_folder_metadata(id, key) ==
  [id |-> id, name |-> shard_folder_name(key), mime |-> "folder",
   parents |-> {Root}, trashed |-> FALSE, size |-> 0,
   properties |-> shard_properties(key), of |-> key]

-----------------------------------------------------------------------------
Has(file, properties) ==
  \A p \in DOMAIN properties :
    p \in DOMAIN file.properties /\ file.properties[p] = properties[p]

(* What Drive finds by a query.                                            *)
drive_object_lookup_query(files, parent, key) ==
  {f \in files : /\ parent \in f.parents /\ ~f.trashed
                 /\ f.name = file_name(key)
                 /\ Has(f, expected_app_properties(key))}

is_shard_folder(f, key) ==
  /\ Root \in f.parents /\ ~f.trashed
  /\ f.name = shard_folder_name(key) /\ f.mime = "folder"
  /\ Has(f, shard_properties(key))

drive_shard_folder_lookup_query(files, key) ==
  {f \in files : is_shard_folder(f, key)}

(* What the server checks of a file that Drive names to it.                *)
verify_drive_object_file(f, key) ==
  CASE f.name # file_name(key) \/ f.trashed
         \/ ~Has(f, expected_app_properties(key)) -> "Conflict"
    [] OTHER -> IF f.size # key.size THEN "IntegrityMismatch" ELSE "Ok"

(* The folder a file was moved to is as good as the shard's only if it is  *)
(* one of the shard's.                                                     *)
shard_folder_id_matches_key(files, folder, key) ==
  \E f \in files : f.id = folder /\ is_shard_folder(f, key)

(* The id itself, if its file is still the object's and in its place.      *)
lookup_object_by_backend_id(files, id, key) ==
  LET named == {f \in files : f.id = id /\ verify_drive_object_file(f, key) # "Conflict"}
      placed == {f \in named : \E p \in f.parents :
                   /\ f.parents = {p}
                   /\ p = Root \/ shard_folder_id_matches_key(files, p, key)}
  IN  [error |-> \E f \in named : verify_drive_object_file(f, key) # "Ok",
       found |-> {f.id : f \in placed}]
=============================================================================
