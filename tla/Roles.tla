-------------------------------- MODULE Roles --------------------------------
(***************************************************************************)
(* Who may do what to a shared link (internal/models/user.go and the       *)
(* canModerate, canManageLink and canDelete checks of the handlers).       *)
(*                                                                         *)
(* A handler works on the user row its middleware read, and a link never   *)
(* changes its scope, so a check that succeeded stays true for the request *)
(* unless it is about the status or the author of the link.                *)
(***************************************************************************)
CONSTANTS
  Users,         \* rows of users
  Orgs,          \* rows of organizations
  Global,        \* the scope of a link that belongs to no organization
  Nobody,        \* a NULL user or organization
  Role,          \* role of each user: user, org_mod, global_mod or admin
  Organization   \* organization of each user, or Nobody

Scopes == Orgs \cup {Global}

ASSUME RolesAssumption ==
  /\ Role \in [Users -> {"user", "org_mod", "global_mod", "admin"}]
  /\ Organization \in [Users -> Orgs \cup {Nobody}]
  /\ Nobody \notin Users \cup Scopes
  /\ Global \notin Orgs

IsAdmin(u)     == Role[u] = "admin"
IsGlobalMod(u) == Role[u] \in {"global_mod", "admin"}
IsOrgMod(u)    == Role[u] \in {"org_mod", "global_mod", "admin"}

CanModerateOrg(u, o) == IsGlobalMod(u) \/ (Role[u] = "org_mod" /\ Organization[u] = o)

\* canModerate: global moderators moderate every link, others that of their org.
CanModerate(u, scope) ==
  IF scope = Global THEN IsGlobalMod(u) ELSE CanModerateOrg(u, scope)

\* Only admins create organization links outside their own organization.
CanCreateIn(u, o) == IsAdmin(u) \/ Organization[u] = o

\* GetGlobalModeratorIDs and GetOrgModeratorIDs: who is told about a new link.
Moderators(scope) == {u \in Users : CanModerate(u, scope)}
=============================================================================
