-------------------------- MODULE MCServerRequests --------------------------
(* The edge of the server, the staging of its uploads, the bytes of its     *)
(* downloads and its token cache, which share no state, side by side: a     *)
(* behaviour is one of one part, and the others stay as they start.         *)
EXTENDS TokenCache, LfsRequests, StagedDownload, UploadStaging

VARIABLE part

CONSTANTS a1, a2, b1, alice, bob

MCProviderOf == [c \in Callers |-> CHOOSE p \in Providers : TRUE]
(* One object id, with the size an upload may have and with one beyond it,  *)
(* and another object.                                                      *)
Small == [oid |-> "a", size |-> 1]
Large == [oid |-> "a", size |-> 2]
Other == [oid |-> "b", size |-> 1]
MCObjects == {Small, Large, Other}
MCBatchLists ==
  {<<>>, <<Small>>, <<Large>>, <<Small, Small>>, <<Small, Large>>,
   <<Other, Small, Other>>, <<Large, Other, Small>>, <<Small, Small, Other, Other>>}

(* Two users compete for slots and for a volume that fits two uploads.      *)
MCUserOf == [u \in Uploads |-> IF u = b1 THEN bob ELSE alice]
MCDeclared == [u \in Uploads |-> IF u = a1 THEN 2 ELSE 1]

MCInit ==
  /\ part \in {"tokens", "requests", "downloads", "staging"}
  /\ Init /\ LfsInit /\ DownloadInit /\ StagingInit
  /\ part # "requests" => stored = {}

MCNext ==
  /\ UNCHANGED part
  /\ \/ part = "tokens" /\ Next /\ UNCHANGED <<lfsVars, downloadVars, stagingVars>>
     \/ part = "requests" /\ LfsNext /\ UNCHANGED <<vars, downloadVars, stagingVars>>
     \/ part = "downloads" /\ DownloadNext /\ UNCHANGED <<vars, lfsVars, stagingVars>>
     \/ part = "staging" /\ StagingNext /\ UNCHANGED <<vars, lfsVars, downloadVars>>

others == <<part, lfsVars, downloadVars, stagingVars>>

MCSpec ==
  /\ MCInit /\ [][MCNext]_<<vars, others>>
  /\ \A c \in Callers :
       /\ WF_vars(part = "tokens" /\ Enqueue(c) /\ UNCHANGED others)
       /\ WF_vars(part = "tokens" /\ Answer(c) /\ UNCHANGED others)
=============================================================================
