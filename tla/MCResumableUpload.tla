-------------------------- MODULE MCResumableUpload --------------------------
(* A small instance of ResumableUpload for TLC: an object of two chunks     *)
(* and an empty one, which race for the folder of their shard.              *)
EXTENDS ResumableUpload, TLC

CONSTANTS u1, u2

MCRoot == 0
MCPrefix == [a |-> "0", b |-> "0", c |-> "1"]
(* The digest of a long namespace, which no repository is called by.        *)
MCSha256 == "long" :> "digest of long" @@ "other long" :> "digest of other long"
MCKey == u1 :> [namespace |-> "long", oid |-> "a", size |-> 3]
      @@ u2 :> [namespace |-> "long", oid |-> "b", size |-> 0]
MCFileId == u1 :> 10 @@ u2 :> 11

(* The object of u1, of other repositories, with another size, of another   *)
(* shard, in the trash, copied by hand with and without its properties,     *)
(* changed by hand, and moved; an old copy in the root; and folders of the  *)
(* shard's name that are in the trash or that a person made.                *)
K == MCKey[u1]
Copy(id, folder, key) == drive_upload_metadata(id, folder, key)
Folder(id) == drive_shard_folder_metadata(id, K)
MCOtherFiles ==
  LET other == [K EXCEPT !.namespace = "other long"]
      short == [K EXCEPT !.namespace = "short"]
  IN  {Copy(20, MCRoot, other), Copy(21, 1, other), Copy(22, 1, short),
       Copy(23, 1, [K EXCEPT !.size = 2]), Copy(24, 3, [K EXCEPT !.oid = "c"]),
       [Copy(25, 1, K) EXCEPT !.trashed = TRUE],
       [Copy(26, 2, other) EXCEPT !.name = file_name(K), !.properties = <<>>],
       [Copy(27, 2, K) EXCEPT !.name = <<"a copy">>],
       [Copy(28, 3, K) EXCEPT !.size = 5, !.of = other],
       Copy(29, MCRoot, K),
       [Folder(3) EXCEPT !.trashed = TRUE],
       [Folder(4) EXCEPT !.properties = <<>>]}
=============================================================================
