------------------------------- MODULE Accounts -------------------------------
(***************************************************************************)
(* Users, their roles and their organizations: the OIDC callback           *)
(* (internal/handlers/auth.go), GetOrCreateOrganization, and the changes   *)
(* that administrators make (internal/handlers/users.go and api/users.go). *)
(*                                                                         *)
(* The callback is a sequence of statements, each a transaction of its     *)
(* own; most of its errors are ignored and the login goes on.  What it     *)
(* knows of the user (the id, the organization) it read or set earlier.    *)
(* An administrator's request acts on the row its middleware read.         *)
(*                                                                         *)
(* Tokens, sessions and profile fields are left out: a login carries an    *)
(* organization claim and groups, which may differ from login to login.    *)
(***************************************************************************)
EXTENDS Integers, FiniteSets

CONSTANTS
  People,       \* OIDC subjects
  Rows,         \* ids of users
  Slugs,        \* values of the organization claim, and rows of organizations
  Handlers,     \* requests served at the same time
  None,         \* NULL
  Founder,      \* the person of a row that is an administrator from the start
  HasGroupRoleMapping,  \* is a group mapped to a role?
  MaxRequests   \* bound on the requests of a behaviour

Roles == {"user", "org_mod", "global_mod", "admin"}

\* What the groups of a login say (column oidc_mapped_role).
MappedRoles == {"admin", "moderator", "user"}

ASSUME AccountsAssumption ==
  /\ None \notin People \cup Rows \cup Slugs \cup MappedRoles
  /\ Founder \in [Rows -> People \cup {None}]
  /\ \E r \in Rows : Founder[r] # None
  /\ \A q, r \in Rows : Founder[q] = Founder[r] /\ Founder[q] # None => q = r
  /\ HasGroupRoleMapping \in BOOLEAN
  /\ MaxRequests \in Nat

VARIABLES
  users,     \* table users, without the profile
  orgs,      \* table organizations
  handler,   \* what is left to do for each request being served
  requests,  \* number of requests begun (bounds the model)
  author,    \* history: who wrote the role of each row last
  lapses,    \* history: ways in which an administrator may have been lost
  adrift     \* history: rows whose role and organization may have come apart

vars == <<users, orgs, handler, requests, author, lapses, adrift>>

\* OIDC groups that are mapped to a role; others say nothing.
Groups == {"admins", "moderators"}

NoUser == [sub |-> None, role |-> "none", org |-> None, mapped |-> None]
Gone   == [NoUser EXCEPT !.role = "gone"]

\* The row that UpsertUser inserts.
NewUser(p) == [sub |-> p, role |-> "user", org |-> None, mapped |-> None]

Idle == [pc |-> "idle", row |-> None, actor |-> None, org |-> None, claim |-> None,
         role |-> None]

Exists(r)  == users[r].role \in Roles
IsAdmin(r) == users[r].role = "admin"

Init ==
  /\ users = [r \in Rows |-> IF Founder[r] = None THEN NoUser
                             ELSE [NewUser(Founder[r]) EXCEPT !.role = "admin"]]
  /\ orgs = {}
  /\ handler = [h \in Handlers |-> Idle]
  /\ requests = 0
  /\ author = [r \in Rows |-> "nobody"]
  /\ lapses = {}
  /\ adrift = {}

-----------------------------------------------------------------------------
(* Helpers.                                                                *)

\* resolveRoleFromGroups: the highest role that the groups imply.
ResolveRoleFromGroups(groups) ==
  CASE "admins" \in groups -> "admin"
    [] "admins" \notin groups /\ "moderators" \in groups -> "moderator"
    [] groups \cap Groups = {} -> "user"

\* finalRoleFromMapped: moderators with an organization moderate only that one.
FinalRoleFromMapped(mapped, org) ==
  CASE mapped = "admin" -> "admin"
    [] mapped = "moderator" -> IF org # None THEN "org_mod" ELSE "global_mod"
    [] mapped = "user" -> "user"

Start(h, task) ==
  /\ handler[h] = Idle
  /\ requests < MaxRequests
  /\ requests' = requests + 1
  /\ handler' = [handler EXCEPT ![h] = task]

At(h, pc)   == handler[h].pc = pc
GoOn(h, pc) == handler' = [handler EXCEPT ![h].pc = pc]
Finish(h)   == handler' = [handler EXCEPT ![h] = Idle]

\* The last part of a login, or its end when roles are not mapped.
RolePart(login) == IF HasGroupRoleMapping THEN [login EXCEPT !.pc = "map role"] ELSE Idle

\* An UPDATE by id of a row that may be gone; by is who decides about the role.
SetRole(r, role, by) ==
  IF Exists(r)
  THEN /\ users' = [users EXCEPT ![r].role = role]
       /\ author' = [author EXCEPT ![r] = by]
  ELSE UNCHANGED <<users, author>>

\* Administrators whose role the step takes away are lost for a reason.
Lose(why) ==
  lapses' = IF \E r \in Rows : IsAdmin(r) /\ users'[r].role # "admin"
            THEN lapses \cup {why} ELSE lapses

\* A login of the row r is under way.
LogsIn(h, r) == handler[h].row = r /\ handler[h].actor = None

\* The organization of r changed without its role, or the role without regard to it.
Drift(r) == adrift' = adrift \cup {r}

-----------------------------------------------------------------------------
(* Login.                                                                  *)

\* UpsertUser finds the row of the subject or inserts one; the role and the
\* organization of an existing row stay as they are and are returned.
UpsertUser(p, r) ==
  \/ Exists(r) /\ users[r].sub = p /\ UNCHANGED users
  \/ /\ users[r] = NoUser
     /\ ~\E q \in Rows : Exists(q) /\ users[q].sub = p
     /\ users' = [users EXCEPT ![r] = NewUser(p)]

Callback(h, p, claim, groups) ==
  /\ \E r \in Rows :
       LET login == [pc |-> "find org", row |-> r, actor |-> None, org |-> users'[r].org,
                     claim |-> claim, role |-> ResolveRoleFromGroups(groups)]
       IN /\ UpsertUser(p, r)
          /\ Start(h, IF claim # None THEN login ELSE RolePart(login))
          /\ IF \E k \in Handlers : LogsIn(k, r) THEN Drift(r) ELSE adrift' = adrift \ {r}
  /\ UNCHANGED <<orgs, author, lapses>>

\* GetOrCreateOrganization: look for the slug ...
GetOrganizationBySlug(h) ==
  /\ At(h, "find org")
  /\ GoOn(h, IF handler[h].claim \in orgs THEN "join" ELSE "create org")
  /\ UNCHANGED <<users, orgs, requests, author, lapses, adrift>>

\* ... insert it, and look again if somebody else was faster.
CreateOrganization(h) ==
  /\ At(h, "create org")
  /\ orgs' = orgs \cup {handler[h].claim}
  /\ GoOn(h, IF handler[h].claim \in orgs THEN "join" ELSE "join new")
  /\ UNCHANGED <<users, requests, author, lapses, adrift>>

\* Any error on the way: the login goes on without an organization.
SkipOrganization(h) ==
  /\ At(h, "find org") \/ At(h, "create org")
  /\ handler' = [handler EXCEPT ![h] = RolePart(@)]
  /\ UNCHANGED <<users, orgs, requests, author, lapses, adrift>>

\* UpdateUserOrganization on the row of a login.
Join(h) ==
  LET r == handler[h].row IN
    users' = IF Exists(r) THEN [users EXCEPT ![r].org = handler[h].claim] ELSE users

\* A login goes on to its role; a new organization first promotes its moderators.
AfterJoin(h, login) ==
  handler' = [handler EXCEPT ![h] = IF At(h, "join new") /\ HasGroupRoleMapping
                                    THEN [login EXCEPT !.pc = "promote"] ELSE RolePart(login)]

\* Mutant of JoinOrganization: user.OrganizationID is not set.
JoinOrganizationForgetting(h) ==
  /\ At(h, "join") \/ At(h, "join new")
  /\ (Join(h) /\ UNCHANGED adrift) \/ (UNCHANGED users /\ Drift(handler[h].row))
  /\ AfterJoin(h, handler[h])
  /\ UNCHANGED <<orgs, requests, author, lapses>>

\* An error of UpdateUserOrganization is ignored: the login believes it anyway.
JoinOrganization(h) ==
  /\ At(h, "join") \/ At(h, "join new")
  /\ (Join(h) /\ UNCHANGED adrift) \/ (UNCHANGED users /\ Drift(handler[h].row))
  /\ AfterJoin(h, [handler[h] EXCEPT !.org = handler[h].claim])
  /\ UNCHANGED <<orgs, requests, author, lapses>>

\* Mutant of Promotable: all members of the organization, whatever their groups.
PromotableMember(r, org) == Exists(r) /\ users[r].org = org

\* Who gets the role org_mod when an organization is new.
Promotable(r, org) == Exists(r) /\ users[r].org = org /\ users[r].mapped = "moderator"

PromoteOrgModerators(h) ==
  /\ At(h, "promote")
  /\ LET P == {r \in Rows : Promotable(r, handler[h].claim)}
     IN \/ /\ users' = [r \in Rows |-> IF r \in P THEN [users[r] EXCEPT !.role = "org_mod"]
                                       ELSE users[r]]
           /\ author' = [r \in Rows |-> IF r \in P THEN "promotion" ELSE author[r]]
        \/ UNCHANGED <<users, author>>
  /\ Lose("groups")
  /\ GoOn(h, "map role")
  /\ UNCHANGED <<orgs, requests, adrift>>

\* Mutant of UpdateUserRoleFromOIDC: the two columns are taken for each other.
UpdateUserRoleSwapped(r, mapped, role) ==
  IF Exists(r)
  THEN /\ users' = [users EXCEPT ![r].role = mapped, ![r].mapped = role]
       /\ author' = [author EXCEPT ![r] = "groups"]
  ELSE UNCHANGED <<users, author>>

\* UpdateUserRoleFromOIDC: the mapped role and the final role, in one statement.
UpdateUserRoleFromOIDC(r, mapped, role) ==
  IF Exists(r)
  THEN /\ users' = [users EXCEPT ![r].role = role, ![r].mapped = mapped]
       /\ author' = [author EXCEPT ![r] = "groups"]
  ELSE UNCHANGED <<users, author>>

\* The end of the callback; an error is logged.
MapRole(h) ==
  /\ At(h, "map role")
  /\ LET t == handler[h] IN
       \/ /\ UpdateUserRoleFromOIDC(t.row, t.role, FinalRoleFromMapped(t.role, t.org))
          /\ UNCHANGED adrift
       \/ UNCHANGED <<users, author>> /\ Drift(t.row)
  /\ Lose("groups")
  /\ Finish(h)
  /\ UNCHANGED <<orgs, requests>>

-----------------------------------------------------------------------------
(* Administration.                                                         *)

\* The middleware has read the row of an administrator.
Administer(h, a, task) ==
  /\ IsAdmin(a)
  /\ Exists(task.row)
  /\ Start(h, task)
  /\ UNCHANGED <<users, orgs, author, lapses, adrift>>

\* Mutant of RequestRole: an administrator may take any role, and anyone's.
RequestAnyRole(h, a, r, role) ==
  Administer(h, a, [Idle EXCEPT !.pc = "set role", !.row = r, !.actor = a, !.role = role])

\* UpdateUserRole: nobody demotes himself.
RequestRole(h, a, r, role) ==
  /\ r # a \/ role = "admin"
  /\ Administer(h, a, [Idle EXCEPT !.pc = "set role", !.row = r, !.actor = a, !.role = role])

RequestOrg(h, a, r, org) ==
  Administer(h, a, [Idle EXCEPT !.pc = "set org", !.row = r, !.actor = a, !.org = org])

\* DeleteUser: nobody deletes himself.
RequestDeletion(h, a, r) ==
  /\ r # a
  /\ Administer(h, a, [Idle EXCEPT !.pc = "delete", !.row = r, !.actor = a])

\* The actor is no longer an administrator when his statement runs.
Stale(h) == ~IsAdmin(handler[h].actor)

UpdateUserRole(h) ==
  /\ At(h, "set role")
  /\ SetRole(handler[h].row, handler[h].role, "admin")
  /\ IF Stale(h) THEN Lose("stale") ELSE UNCHANGED lapses
  /\ Finish(h)
  /\ UNCHANGED <<orgs, requests, adrift>>

UpdateUserOrganization(h) ==
  /\ At(h, "set org")
  /\ users' = IF Exists(handler[h].row)
              THEN [users EXCEPT ![handler[h].row].org = handler[h].org] ELSE users
  /\ Drift(handler[h].row)
  /\ Finish(h)
  /\ UNCHANGED <<orgs, requests, author, lapses>>

DeleteUser(h) ==
  /\ At(h, "delete")
  /\ users' = IF Exists(handler[h].row) THEN [users EXCEPT ![handler[h].row] = Gone] ELSE users
  /\ IF Stale(h) THEN Lose("stale") ELSE UNCHANGED lapses
  /\ Finish(h)
  /\ UNCHANGED <<orgs, requests, author, adrift>>

-----------------------------------------------------------------------------

\* The process stops, or a statement fails and ends the request (a user whom
\* links refer to cannot be deleted).
Fail(h) ==
  /\ handler[h] # Idle
  /\ IF LogsIn(h, handler[h].row) THEN Drift(handler[h].row) ELSE UNCHANGED adrift
  /\ Finish(h)
  /\ UNCHANGED <<users, orgs, requests, author, lapses>>

Login(h) ==
  \/ \E p \in People, claim \in Slugs \cup {None}, groups \in SUBSET Groups :
       Callback(h, p, claim, groups)
  \/ GetOrganizationBySlug(h) \/ CreateOrganization(h) \/ SkipOrganization(h)
  \/ JoinOrganization(h) \/ PromoteOrgModerators(h) \/ MapRole(h)

Administration(h) ==
  \/ \E a, r \in Rows :
       \/ \E role \in Roles : RequestRole(h, a, r, role)
       \/ \E org \in orgs \cup {None} : RequestOrg(h, a, r, org)
       \/ RequestDeletion(h, a, r)
  \/ UpdateUserRole(h) \/ UpdateUserOrganization(h) \/ DeleteUser(h)

Next == \E h \in Handlers : Login(h) \/ Administration(h) \/ Fail(h)

Spec == Init /\ [][Next]_vars

-----------------------------------------------------------------------------
(* Properties.                                                             *)

UserRows ==
  [sub : People, role : Roles, org : Slugs \cup {None},
   mapped : MappedRoles \cup {None}]

Logins ==
  [pc : {"find org", "create org", "join", "join new", "promote", "map role"},
   row : Rows, actor : {None}, org : Slugs \cup {None}, claim : Slugs \cup {None},
   role : MappedRoles]

Administrations ==
  [pc : {"set role", "set org", "delete"}, row : Rows, actor : Rows,
   org : Slugs \cup {None}, claim : {None}, role : Roles \cup {None}]

\* Every variable has its type, and an organization that a user or a request
\* refers to exists.
TypeOK ==
  /\ users \in [Rows -> {NoUser, Gone} \cup UserRows]
  /\ orgs \subseteq Slugs
  /\ handler \in [Handlers -> {Idle} \cup Logins \cup Administrations]
  /\ requests \in Nat
  /\ author \in [Rows -> {"nobody", "groups", "promotion", "admin"}]
  /\ lapses \subseteq {"groups", "stale"}
  /\ adrift \subseteq Rows
  /\ \A r \in Rows : users[r].org \in orgs \cup {None}

\* However logins of one person, promotions by others and edits interleave, a
\* role that groups decided is the one of the groups recorded with it.
RoleAgreesWithGroups ==
  \A r \in Rows : Exists(r) /\ author[r] \in {"groups", "promotion"} =>
    /\ users[r].mapped # None
    /\ \E org \in Slugs \cup {None} : users[r].role = FinalRoleFromMapped(users[r].mapped, org)

\* Between logins a role that groups decided is the one for the organization that the
\* user is in, so that no moderator of an organization is without one and none of all
\* links is in one.  The two come apart where an UPDATE of a login fails or never
\* comes, logins of one user overlap, or an administrator moves him; the next login
\* that nothing of the kind befalls mends it.
RoleFitsOrganization ==
  \A r \in Rows \ adrift :
    Exists(r) /\ author[r] \in {"groups", "promotion"} /\ (~\E h \in Handlers : LogsIn(h, r)) =>
      users[r].role = FinalRoleFromMapped(users[r].mapped, users[r].org)

\* "Prevent admins from demoting themselves": an administrator is left unless
\* groups took the role away or a request acted on a role lost meanwhile.
AnAdminRemains == lapses = {} => \E r \in Rows : IsAdmin(r)
=============================================================================
