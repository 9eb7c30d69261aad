-------------------------- MODULE GitHubPermission --------------------------
(***************************************************************************)
(* What the server makes of GitHub's answers to the two requests of a      *)
(* permission check: whom the configured repository name belongs to, and   *)
(* which permission the login name of the session has there.  Names can    *)
(* pass to others, so both answers carry an identity that never changes,   *)
(* and both are compared with what was configured or seen at login.        *)
(***************************************************************************)
CONSTANT None    \* null value

(* An answer with a status other than success.                             *)
Failed(status) == [status |-> status, id |-> None, permission |-> None]
Ok(id, permission) == [status |-> "ok", id |-> id, permission |-> permission]

FailureStatuses ==
  {"unauthorized", "not found", "forbidden: sso", "forbidden: token",
   "forbidden: other", "unavailable", "no answer"}

(* The statuses that mean the same for both requests.                      *)
RequestError(status, notFound) ==
  CASE status \in {"unauthorized", "forbidden: token"} -> "AuthenticationRequired"
    [] status = "not found" -> notFound
    [] status = "forbidden: sso" -> "SsoRequired"
    [] OTHER -> "Upstream"

(* GET /repos/{owner}/{name}: only the id that was configured will do.     *)
verify_repository_identity(reply) ==
  CASE reply.status # "ok" -> RequestError(reply.status, "RepositoryNotFound")
    [] reply.id = None -> "Upstream"
    [] reply.id # "own" -> "RepositoryNotFound"
    [] OTHER -> "verified"

github_permission_satisfies(granted, write) ==
  granted \in IF write THEN {"write", "admin"} ELSE {"read", "write", "admin"}

(* GET .../collaborators/{login}/permission: enough of a permission, and   *)
(* of the user who logged in.                                              *)
check_permission(reply, write) ==
  CASE reply.status # "ok" -> RequestError(reply.status, "PermissionDenied")
    [] ~github_permission_satisfies(reply.permission, write) -> "PermissionDenied"
    [] reply.id = None -> "Upstream"
    [] reply.id # "own" -> "PermissionDenied"
    [] OTHER -> "granted"

(* What the rest of the server tells apart.                                *)
Outcome(result) ==
  CASE result = "granted" -> "yes"
    [] result = "AuthenticationRequired" -> "rejected"
    [] result = "Upstream" -> "error"
    [] OTHER -> "no"
=============================================================================
