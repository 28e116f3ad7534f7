---------------------------- MODULE AccountsProofs ----------------------------
(***************************************************************************)
(* Proofs about Accounts, for every value of its constants.                *)
(***************************************************************************)
EXTENDS Accounts, TLAPS

\* A request under way refers to organizations that exist, has a claim as long
\* as it needs one, and kept its promise not to act on the actor himself.
SoundTask(t, O) ==
  /\ t \in {Idle} \cup Logins \cup Administrations
  /\ t.org \in O \cup {None}
  /\ t.pc \in {"find org", "create org", "join", "join new", "promote"} => t.claim \in Slugs
  /\ t.pc \in {"join", "join new"} => t.claim \in O
  /\ t.pc = "set role" => t.role \in Roles /\ (t.row # t.actor \/ t.role = "admin")
  /\ t.pc = "delete" => t.row # t.actor

Agrees(u, by) ==
  u.role \in Roles /\ by \in {"groups", "promotion"} =>
    /\ u.mapped # None
    /\ \E org \in Slugs \cup {None} : u.role = FinalRoleFromMapped(u.mapped, org)

\* A row and who wrote its role last.
SoundRow(u, by, O) ==
  /\ u \in {NoUser, Gone} \cup UserRows
  /\ u.org \in O \cup {None}
  /\ by \in {"nobody", "groups", "promotion", "admin"}
  /\ u = NoUser => by = "nobody"
  /\ Agrees(u, by)

SoundTasks == /\ handler = [h \in Handlers |-> handler[h]]
              /\ \A h \in Handlers : SoundTask(handler[h], orgs)
SoundRows  == /\ users = [r \in Rows |-> users[r]]
              /\ author = [r \in Rows |-> author[r]]
              /\ \A r \in Rows : SoundRow(users[r], author[r], orgs)

\* The inductive invariant.
IInv ==
  /\ SoundTasks
  /\ SoundRows
  /\ orgs \subseteq Slugs
  /\ requests \in Nat
  /\ lapses \subseteq {"groups", "stale"}
  /\ AnAdminRemains

LEMMA IInvImplies == IInv /\ adrift \subseteq Rows => TypeOK /\ RoleAgreesWithGroups /\ AnAdminRemains
<1> SUFFICES ASSUME IInv, adrift \subseteq Rows
             PROVE  TypeOK /\ RoleAgreesWithGroups /\ AnAdminRemains
  OBVIOUS
<1>1. users \in [Rows -> {NoUser, Gone} \cup UserRows]
  BY DEF IInv, SoundRows, SoundRow
<1>2. author \in [Rows -> {"nobody", "groups", "promotion", "admin"}]
  BY DEF IInv, SoundRows, SoundRow
<1>3. handler \in [Handlers -> {Idle} \cup Logins \cup Administrations]
  BY DEF IInv, SoundTasks, SoundTask
<1>4. \A r \in Rows : users[r].org \in orgs \cup {None}
  BY DEF IInv, SoundRows, SoundRow
<1>5. RoleAgreesWithGroups
  BY DEF IInv, SoundRows, SoundRow, Agrees, RoleAgreesWithGroups, Exists
<1> QED
  BY <1>1, <1>2, <1>3, <1>4, <1>5 DEF IInv, TypeOK

LEMMA NoneIsNoId ==
  None \notin People /\ None \notin Rows /\ None \notin Slugs /\ None \notin MappedRoles
  BY AccountsAssumption

LEMMA ExistingRow ==
  ASSUME IInv, NEW r \in Rows, Exists(r)
  PROVE  users[r] \in UserRows
<1>1. users[r] \in {NoUser, Gone} \cup UserRows
  BY DEF IInv, SoundRows, SoundRow
<1>2. NoUser.role \notin Roles /\ Gone.role \notin Roles
  BY DEF NoUser, Gone, Roles
<1> QED
  BY <1>1, <1>2 DEF Exists

LEMMA SoundIdle == \A O : SoundTask(Idle, O)
  BY DEF SoundTask, Idle

\* One request goes on; organizations are only added.
LEMMA TaskStep ==
  ASSUME IInv, NEW h \in Handlers, NEW t, handler' = [handler EXCEPT ![h] = t],
         orgs \subseteq orgs', SoundTask(t, orgs')
  PROVE  SoundTasks'
<1>1. ASSUME NEW k \in Handlers PROVE SoundTask(handler'[k], orgs')
  <2>1. SoundTask(handler[k], orgs)
    BY DEF IInv, SoundTasks
  <2>2. SoundTask(handler[k], orgs')
    BY <2>1 DEF SoundTask
  <2> QED
    BY <2>2 DEF IInv, SoundTasks
<1>2. handler' = [k \in Handlers |-> handler'[k]]
  BY DEF IInv, SoundTasks
<1> QED
  BY <1>1, <1>2 DEF SoundTasks

\* Rows stay as they are.
LEMMA SameRows ==
  ASSUME IInv, UNCHANGED <<users, author>>, orgs \subseteq orgs'
  PROVE  SoundRows'
<1>1. \A r \in Rows : SoundRow(users[r], author[r], orgs)
  BY DEF IInv, SoundRows
<1>2. \A r \in Rows : SoundRow(users[r], author[r], orgs')
  BY <1>1 DEF SoundRow
<1> QED
  BY <1>2 DEF IInv, SoundRows

\* One row and its author change.
LEMMA RowStep ==
  ASSUME IInv, NEW r \in Rows, NEW u, NEW by, orgs' = orgs,
         users' = [users EXCEPT ![r] = u], author' = [author EXCEPT ![r] = by],
         SoundRow(u, by, orgs)
  PROVE  SoundRows'
  BY DEF IInv, SoundRows

\* An administrator is left when none is lost.
LEMMA NobodyLost ==
  ASSUME IInv, \A r \in Rows : IsAdmin(r) => users'[r].role = "admin", lapses' = lapses
  PROVE  AnAdminRemains'
  BY DEF IInv, AnAdminRemains, IsAdmin

LEMMA LossOnRecord ==
  ASSUME IInv, NEW why \in {"groups", "stale"}, Lose(why)
  PROVE  AnAdminRemains' /\ lapses' \subseteq {"groups", "stale"}
  BY DEF IInv, AnAdminRemains, IsAdmin, Lose

-----------------------------------------------------------------------------
(* Login.                                                                  *)

LEMMA MappedIsRole == \A groups \in SUBSET Groups : ResolveRoleFromGroups(groups) \in MappedRoles
<1> SUFFICES ASSUME NEW groups \in SUBSET Groups
             PROVE  ResolveRoleFromGroups(groups) \in MappedRoles
  OBVIOUS
<1>1. CASE "admins" \in groups
  BY <1>1 DEF ResolveRoleFromGroups, MappedRoles
<1>2. CASE "admins" \notin groups /\ "moderators" \in groups
  BY <1>2 DEF ResolveRoleFromGroups, MappedRoles
<1>3. CASE groups \cap Groups = {}
  BY <1>3 DEF ResolveRoleFromGroups, MappedRoles, Groups
<1> QED
  BY <1>1, <1>2, <1>3 DEF Groups

LEMMA FinalIsRole ==
  \A mapped \in MappedRoles, org \in Slugs \cup {None} : FinalRoleFromMapped(mapped, org) \in Roles
  BY DEF MappedRoles, FinalRoleFromMapped, Roles

\* A login keeps to its invariant when it skips what is left of its organization.
LEMMA RolePartType ==
  ASSUME NEW O, NEW t \in Logins, t.org \in O \cup {None}
  PROVE  SoundTask(RolePart(t), O)
<1>1. [t EXCEPT !.pc = "map role"] \in Logins
  BY DEF Logins
<1>2. SoundTask([t EXCEPT !.pc = "map role"], O)
  BY <1>1 DEF SoundTask, Logins
<1> QED
  BY <1>2, SoundIdle DEF RolePart

LEMMA LoginTask ==
  ASSUME IInv, NEW h \in Handlers,
         handler[h].pc \in {"find org", "create org", "join", "join new", "promote", "map role"}
  PROVE  handler[h] \in Logins /\ SoundTask(handler[h], orgs)
<1>1. SoundTask(handler[h], orgs)
  BY DEF IInv, SoundTasks
<1>2. Idle.pc = "idle"
  BY DEF Idle
<1>3. \A t \in Administrations : t.pc \in {"set role", "set org", "delete"}
  BY DEF Administrations
<1> QED
  BY <1>1, <1>2, <1>3 DEF SoundTask

\* A login moves on to another of its steps, keeping what it knows.
LEMMA NextTask ==
  ASSUME NEW O, NEW t \in Logins, SoundTask(t, O), t.claim \in Slugs,
         NEW pc \in {"create org", "join", "join new", "promote", "map role"},
         pc \in {"join", "join new"} => t.claim \in O
  PROVE  SoundTask([t EXCEPT !.pc = pc], O)
<1>1. [t EXCEPT !.pc = pc] \in Logins
  BY DEF Logins
<1> QED
  BY <1>1 DEF SoundTask, Logins

LEMMA CallbackStep ==
  ASSUME IInv, NEW h \in Handlers, NEW p \in People, NEW claim \in Slugs \cup {None},
         NEW groups \in SUBSET Groups, Callback(h, p, claim, groups)
  PROVE  IInv'
<1> DEFINE login(r) == [pc |-> "find org", row |-> r, actor |-> None, org |-> users'[r].org,
                        claim |-> claim, role |-> ResolveRoleFromGroups(groups)]
<1>1. PICK r \in Rows : /\ UpsertUser(p, r)
                        /\ Start(h, IF claim # None THEN login(r) ELSE RolePart(login(r)))
  BY DEF Callback
<1> HIDE DEF login
<1>2. UNCHANGED <<orgs, author, lapses>>
  BY DEF Callback
<1>3. SoundRows'
  <2>1. CASE UNCHANGED users
    BY <2>1, <1>2, SameRows
  <2>2. CASE users[r] = NoUser /\ users' = [users EXCEPT ![r] = NewUser(p)]
    <3>1. author[r] = "nobody"
      BY <2>2 DEF IInv, SoundRows, SoundRow
    <3>2. NewUser(p) \in UserRows /\ NewUser(p).org = None
      BY DEF NewUser, UserRows, Roles
    <3>3. SoundRow(NewUser(p), author[r], orgs)
      BY <3>1, <3>2 DEF SoundRow, Agrees
    <3>4. author' = [author EXCEPT ![r] = author[r]]
      BY <1>2 DEF IInv, SoundRows
    <3> QED
      BY <2>2, <3>3, <3>4, <1>2, RowStep
  <2> QED
    BY <1>1, <2>1, <2>2 DEF UpsertUser
<1>4. users'[r].org \in orgs \cup {None}
  BY <1>3, <1>2 DEF SoundRows, SoundRow
<1>5. login(r) \in Logins /\ login(r).org \in orgs \cup {None}
  BY <1>4, MappedIsRole DEF login, Logins, MappedRoles, IInv
<1>6. claim # None => SoundTask(login(r), orgs)
  BY <1>5 DEF login, SoundTask
<1>7. SoundTask(IF claim # None THEN login(r) ELSE RolePart(login(r)), orgs)
  BY <1>5, <1>6, RolePartType
<1>8. SoundTasks'
  BY <1>1, <1>2, <1>7, TaskStep DEF Start
<1>9. AnAdminRemains'
  <2>1. \A q \in Rows : IsAdmin(q) => users'[q].role = "admin"
    BY <1>1 DEF UpsertUser, IsAdmin, NoUser, IInv, SoundRows
  <2> QED
    BY <2>1, <1>2, NobodyLost
<1> QED
  BY <1>1, <1>2, <1>3, <1>8, <1>9 DEF IInv, Start

LEMMA GetOrganizationBySlugStep ==
  ASSUME IInv, NEW h \in Handlers, GetOrganizationBySlug(h)
  PROVE  IInv'
<1>1. handler[h] \in Logins /\ SoundTask(handler[h], orgs) /\ handler[h].claim \in Slugs
  BY LoginTask DEF GetOrganizationBySlug, At, SoundTask
<1>2. SoundTasks'
  <2> DEFINE pc == IF handler[h].claim \in orgs THEN "join" ELSE "create org"
  <2>1. SoundTask([handler[h] EXCEPT !.pc = pc], orgs)
    BY <1>1, NextTask
  <2>2. handler' = [handler EXCEPT ![h] = [handler[h] EXCEPT !.pc = pc]]
    BY DEF GetOrganizationBySlug, GoOn
  <2> QED
    BY <2>1, <2>2, TaskStep DEF GetOrganizationBySlug
<1> QED
  BY <1>2, SameRows, NobodyLost DEF GetOrganizationBySlug, IInv, IsAdmin

LEMMA CreateOrganizationStep ==
  ASSUME IInv, NEW h \in Handlers, CreateOrganization(h)
  PROVE  IInv'
<1>1. handler[h] \in Logins /\ SoundTask(handler[h], orgs) /\ handler[h].claim \in Slugs
  BY LoginTask DEF CreateOrganization, At, SoundTask
<1>2. orgs' = orgs \cup {handler[h].claim} /\ UNCHANGED <<users, requests, author, lapses>>
  BY DEF CreateOrganization
<1>3. SoundTasks'
  <2> DEFINE pc == IF handler[h].claim \in orgs THEN "join" ELSE "join new"
  <2>1. SoundTask(handler[h], orgs')
    BY <1>1, <1>2 DEF SoundTask
  <2>2. SoundTask([handler[h] EXCEPT !.pc = pc], orgs')
    BY <1>1, <1>2, <2>1, NextTask
  <2>3. handler' = [handler EXCEPT ![h] = [handler[h] EXCEPT !.pc = pc]]
    BY DEF CreateOrganization, GoOn
  <2> QED
    BY <1>2, <2>2, <2>3, TaskStep
<1> QED
  BY <1>1, <1>2, <1>3, SameRows, NobodyLost DEF IInv, IsAdmin

LEMMA SkipOrganizationStep ==
  ASSUME IInv, NEW h \in Handlers, SkipOrganization(h)
  PROVE  IInv'
<1>1. handler[h] \in Logins /\ SoundTask(handler[h], orgs)
  BY LoginTask DEF SkipOrganization, At
<1>2. SoundTask(RolePart(handler[h]), orgs)
  BY <1>1, RolePartType DEF SoundTask
<1>3. SoundTasks'
  BY <1>2, TaskStep DEF SkipOrganization
<1> QED
  BY <1>3, SameRows, NobodyLost DEF SkipOrganization, IInv, IsAdmin

\* A row whose role is not written keeps its role's reason.
LEMMA RowMoves ==
  ASSUME IInv, NEW r \in Rows, Exists(r), NEW org \in orgs \cup {None}
  PROVE  SoundRow([users[r] EXCEPT !.org = org], author[r], orgs)
<1>1. users[r] \in UserRows
  BY ExistingRow
<1>2. SoundRow(users[r], author[r], orgs)
  BY DEF IInv, SoundRows
<1> DEFINE u == [users[r] EXCEPT !.org = org]
<1>3. /\ u \in UserRows /\ u.org = org
      /\ u.role = users[r].role /\ u.mapped = users[r].mapped
  BY <1>1 DEF UserRows, IInv
<1>4. u # NoUser
  BY <1>3, NoneIsNoId DEF UserRows, NoUser
<1> HIDE DEF u
<1>5. SoundRow(u, author[r], orgs)
  BY <1>2, <1>3, <1>4 DEF SoundRow, Agrees
<1> QED
  BY <1>5 DEF u

\* An UPDATE of the organization of one row.
LEMMA MoveUser ==
  ASSUME IInv, NEW r \in Rows, NEW org \in orgs \cup {None}, UNCHANGED <<orgs, author, lapses>>,
         users' = IF Exists(r) THEN [users EXCEPT ![r].org = org] ELSE users
  PROVE  SoundRows' /\ AnAdminRemains'
<1>1. CASE ~Exists(r)
  BY <1>1, SameRows, NobodyLost DEF IsAdmin
<1>2. CASE Exists(r)
  <2> DEFINE u == [users[r] EXCEPT !.org = org]
  <2>1. SoundRow(u, author[r], orgs) /\ u.role = users[r].role
    <3>1. users[r] \in UserRows
      BY <1>2, ExistingRow
    <3> QED
      BY <1>2, <3>1, RowMoves DEF UserRows
  <2>2. users' = [users EXCEPT ![r] = u] /\ author' = [author EXCEPT ![r] = author[r]]
    BY <1>2 DEF IInv, SoundRows
  <2> HIDE DEF u
  <2>3. SoundRows'
    BY <2>1, <2>2, RowStep
  <2>4. \A q \in Rows : IsAdmin(q) => users'[q].role = "admin"
    BY <2>1, <2>2 DEF IsAdmin, IInv, SoundRows
  <2> QED
    BY <2>3, <2>4, NobodyLost
<1> QED
  BY <1>1, <1>2

LEMMA JoinOrganizationStep ==
  ASSUME IInv, NEW h \in Handlers, JoinOrganization(h)
  PROVE  IInv'
<1>1. handler[h] \in Logins /\ SoundTask(handler[h], orgs)
  BY LoginTask DEF JoinOrganization, At
<1>2. handler[h].claim \in orgs /\ handler[h].claim \in Slugs /\ handler[h].row \in Rows
  BY <1>1 DEF JoinOrganization, At, SoundTask, Logins
<1>3. UNCHANGED <<orgs, requests, author, lapses>>
  BY DEF JoinOrganization
<1>4. SoundRows' /\ AnAdminRemains'
  <2>1. CASE UNCHANGED users
    BY <1>3, <2>1, SameRows, NobodyLost DEF IsAdmin
  <2>2. CASE Join(h)
    BY <1>2, <1>3, <2>2, MoveUser DEF Join
  <2> QED
    BY <2>1, <2>2 DEF JoinOrganization
<1>5. SoundTasks'
  <2> DEFINE joined == [handler[h] EXCEPT !.org = handler[h].claim]
             next   == IF At(h, "join new") /\ HasGroupRoleMapping
                       THEN [joined EXCEPT !.pc = "promote"] ELSE RolePart(joined)
  <2>1. joined \in Logins /\ joined.org \in orgs \cup {None} /\ joined.claim = handler[h].claim
        /\ joined.pc = handler[h].pc
    BY <1>1, <1>2 DEF Logins
  <2>2. handler' = [handler EXCEPT ![h] = next]
    BY DEF JoinOrganization, AfterJoin
  <2> HIDE DEF joined
  <2>3. SoundTask(joined, orgs)
    BY <1>1, <1>2, <2>1 DEF SoundTask, Logins
  <2>4. SoundTask(next, orgs)
    BY <1>2, <2>1, <2>3, NextTask, RolePartType
  <2> HIDE DEF next
  <2> QED
    BY <1>3, <2>2, <2>4, TaskStep
<1> QED
  BY <1>3, <1>4, <1>5 DEF IInv

LEMMA PromoteOrgModeratorsStep ==
  ASSUME IInv, NEW h \in Handlers, PromoteOrgModerators(h)
  PROVE  IInv'
<1>1. handler[h] \in Logins /\ SoundTask(handler[h], orgs) /\ handler[h].claim \in Slugs
  BY LoginTask DEF PromoteOrgModerators, At, SoundTask
<1>2. UNCHANGED <<orgs, requests>> /\ Lose("groups")
  BY DEF PromoteOrgModerators
<1>3. SoundTasks'
  <2>1. SoundTask([handler[h] EXCEPT !.pc = "map role"], orgs)
    BY <1>1, NextTask
  <2>2. handler' = [handler EXCEPT ![h] = [handler[h] EXCEPT !.pc = "map role"]]
    BY DEF PromoteOrgModerators, GoOn
  <2> QED
    BY <1>2, <2>1, <2>2, TaskStep
<1>4. SoundRows'
  <2> DEFINE P == {r \in Rows : Promotable(r, handler[h].claim)}
  <2>1. CASE UNCHANGED <<users, author>>
    BY <1>2, <2>1, SameRows
  <2>2. CASE /\ users' = [r \in Rows |-> IF r \in P THEN [users[r] EXCEPT !.role = "org_mod"]
                                         ELSE users[r]]
             /\ author' = [r \in Rows |-> IF r \in P THEN "promotion" ELSE author[r]]
    <3>1. ASSUME NEW r \in Rows PROVE SoundRow(users'[r], author'[r], orgs)
      <4>1. CASE r \notin P
        BY <2>2, <4>1 DEF IInv, SoundRows
      <4>2. CASE r \in P
        <5>1. users[r] \in UserRows /\ users[r].mapped = "moderator"
          BY <4>2, ExistingRow DEF Promotable
        <5>2. users[r].org \in orgs \cup {None}
          BY DEF IInv, SoundRows, SoundRow
        <5> DEFINE u == [users[r] EXCEPT !.role = "org_mod"]
        <5>3. users'[r] = u /\ author'[r] = "promotion"
          BY <2>2, <4>2
        <5>4. /\ u \in UserRows /\ u.org = users[r].org
              /\ u.role = "org_mod" /\ u.mapped = "moderator"
          BY <5>1 DEF UserRows, Roles
        <5> HIDE DEF u
        <5>5. u # NoUser
          BY <5>4 DEF NoUser
        <5>6. u.role = FinalRoleFromMapped(u.mapped, handler[h].claim)
          BY <1>1, <5>4, NoneIsNoId DEF FinalRoleFromMapped
        <5>7. u.mapped # None
          BY <5>4, NoneIsNoId DEF MappedRoles
        <5>8. Agrees(u, "promotion")
          BY <1>1, <5>6, <5>7 DEF Agrees
        <5> QED
          BY <5>2, <5>3, <5>4, <5>5, <5>8 DEF SoundRow
      <4> QED
        BY <4>1, <4>2
    <3>2. users' = [r \in Rows |-> users'[r]] /\ author' = [r \in Rows |-> author'[r]]
      BY <2>2
    <3> QED
      BY <1>2, <3>1, <3>2 DEF SoundRows
  <2> QED
    BY <2>1, <2>2 DEF PromoteOrgModerators
<1> QED
  BY <1>2, <1>3, <1>4, LossOnRecord DEF IInv

LEMMA MapRoleStep ==
  ASSUME IInv, NEW h \in Handlers, MapRole(h)
  PROVE  IInv'
<1>1. handler[h] \in Logins /\ SoundTask(handler[h], orgs)
  BY LoginTask DEF MapRole, At
<1>2. /\ handler[h].row \in Rows /\ handler[h].role \in MappedRoles
      /\ handler[h].org \in Slugs \cup {None}
  BY <1>1 DEF Logins, MappedRoles
<1>3. UNCHANGED <<orgs, requests>> /\ Lose("groups")
  BY DEF MapRole
<1>4. SoundTasks'
  BY <1>3, SoundIdle, TaskStep DEF MapRole, Finish
<1>5. SoundRows'
  <2> DEFINE r == handler[h].row
             mapped == handler[h].role
             role == FinalRoleFromMapped(handler[h].role, handler[h].org)
  <2>1. CASE UNCHANGED <<users, author>>
    BY <1>3, <2>1, SameRows
  <2>2. CASE Exists(r) /\ UpdateUserRoleFromOIDC(r, mapped, role)
    <3> DEFINE u == [users[r] EXCEPT !.role = role, !.mapped = mapped]
    <3>1. users[r] \in UserRows
      BY <1>2, <2>2, ExistingRow
    <3>2. role \in Roles
      BY <1>2, FinalIsRole
    <3>3. users[r].org \in orgs \cup {None}
      BY <1>2 DEF IInv, SoundRows, SoundRow
    <3>4. users' = [users EXCEPT ![r] = u] /\ author' = [author EXCEPT ![r] = "groups"]
      BY <2>2 DEF UpdateUserRoleFromOIDC
    <3>5. /\ u \in UserRows /\ u.org = users[r].org
          /\ u.role = role /\ u.mapped = mapped
      <4> HIDE DEF role
      <4> QED
        BY <1>2, <3>1, <3>2 DEF UserRows, MappedRoles
    <3> HIDE DEF u
    <3>6. u # NoUser
      BY <3>2, <3>5 DEF NoUser, Roles
    <3>7. Agrees(u, "groups")
      <4>1. handler[h].role # None
        BY <1>2, NoneIsNoId
      <4> QED
        BY <1>2, <3>5, <4>1 DEF Agrees
    <3>8. SoundRow(u, "groups", orgs)
      BY <3>3, <3>5, <3>6, <3>7 DEF SoundRow
    <3> QED
      BY <1>2, <1>3, <3>4, <3>8, RowStep
  <2> QED
    BY <2>1, <2>2 DEF MapRole, UpdateUserRoleFromOIDC
<1> QED
  BY <1>3, <1>4, <1>5, LossOnRecord DEF IInv

-----------------------------------------------------------------------------
(* Administration.                                                         *)

\* The request of an administrator begins.
LEMMA AdministerStep ==
  ASSUME IInv, NEW h \in Handlers, NEW a \in Rows, NEW t, Administer(h, a, t), SoundTask(t, orgs)
  PROVE  IInv'
<1>1. SoundTasks'
  BY TaskStep DEF Administer, Start
<1> QED
  BY <1>1, SameRows, NobodyLost DEF Administer, Start, IInv, IsAdmin

LEMMA RequestStep ==
  ASSUME IInv, NEW h \in Handlers, NEW a \in Rows, NEW r \in Rows,
         \/ \E role \in Roles : RequestRole(h, a, r, role)
         \/ \E org \in orgs \cup {None} : RequestOrg(h, a, r, org)
         \/ RequestDeletion(h, a, r)
  PROVE  IInv'
<1>1. ASSUME NEW role \in Roles, RequestRole(h, a, r, role)
      PROVE  IInv'
  <2> DEFINE t == [Idle EXCEPT !.pc = "set role", !.row = r, !.actor = a, !.role = role]
  <2>1. SoundTask(t, orgs)
    BY <1>1 DEF RequestRole, SoundTask, Administrations, Idle
  <2> QED
    BY <1>1, <2>1, AdministerStep DEF RequestRole
<1>2. ASSUME NEW org \in orgs \cup {None}, RequestOrg(h, a, r, org)
      PROVE  IInv'
  <2> DEFINE t == [Idle EXCEPT !.pc = "set org", !.row = r, !.actor = a, !.org = org]
  <2>1. SoundTask(t, orgs)
    BY <1>2 DEF IInv, SoundTask, Administrations, Idle
  <2> QED
    BY <1>2, <2>1, AdministerStep DEF RequestOrg
<1>3. CASE RequestDeletion(h, a, r)
  <2> DEFINE t == [Idle EXCEPT !.pc = "delete", !.row = r, !.actor = a]
  <2>1. SoundTask(t, orgs)
    BY <1>3 DEF RequestDeletion, SoundTask, Administrations, Idle
  <2> QED
    BY <1>3, <2>1, AdministerStep DEF RequestDeletion
<1> QED
  BY <1>1, <1>2, <1>3

LEMMA AdministrationTask ==
  ASSUME IInv, NEW h \in Handlers, handler[h].pc \in {"set role", "set org", "delete"}
  PROVE  SoundTask(handler[h], orgs) /\ handler[h].row \in Rows /\ handler[h].actor \in Rows
<1>1. SoundTask(handler[h], orgs)
  BY DEF IInv, SoundTasks
<1>2. Idle.pc = "idle"
  BY DEF Idle
<1>3. \A t \in Logins :
        t.pc \in {"find org", "create org", "join", "join new", "promote", "map role"}
  BY DEF Logins
<1>4. handler[h] \in Administrations
  BY <1>1, <1>2, <1>3 DEF SoundTask
<1> QED
  BY <1>1, <1>4 DEF Administrations

\* An administrator survives the request of an administrator: the one who sent it
\* is left.  A request whose sender is one no longer is on record if it did harm.
LEMMA ActorRemains ==
  ASSUME IInv, NEW h \in Handlers, handler[h].actor \in Rows,
         IF Stale(h) THEN Lose("stale") ELSE UNCHANGED lapses,
         IsAdmin(handler[h].actor) => users'[handler[h].actor].role = "admin"
  PROVE  AnAdminRemains' /\ lapses' \subseteq {"groups", "stale"}
<1>1. CASE Stale(h)
  BY <1>1, LossOnRecord
<1>2. CASE ~Stale(h)
  BY <1>2 DEF Stale, IsAdmin, AnAdminRemains, IInv
<1> QED
  BY <1>1, <1>2

LEMMA UpdateUserRoleStep ==
  ASSUME IInv, NEW h \in Handlers, UpdateUserRole(h)
  PROVE  IInv'
<1> DEFINE r == handler[h].row
<1>1. /\ r \in Rows /\ handler[h].actor \in Rows /\ handler[h].role \in Roles
      /\ r # handler[h].actor \/ handler[h].role = "admin"
  BY AdministrationTask DEF UpdateUserRole, At, SoundTask
<1>2. SetRole(r, handler[h].role, "admin") /\ UNCHANGED <<orgs, requests>>
  BY DEF UpdateUserRole
<1>3. SoundTasks'
  BY <1>2, SoundIdle, TaskStep DEF UpdateUserRole, Finish
<1>4. SoundRows' /\ (IsAdmin(handler[h].actor) => users'[handler[h].actor].role = "admin")
  <2>1. CASE ~Exists(r)
    <3>1. UNCHANGED <<users, author>>
      BY <1>2, <2>1 DEF SetRole
    <3> QED
      BY <1>2, <3>1, SameRows DEF IsAdmin
  <2>2. CASE Exists(r)
    <3> DEFINE u == [users[r] EXCEPT !.role = handler[h].role]
    <3>1. users[r] \in UserRows
      BY <1>1, <2>2, ExistingRow
    <3>2. users[r].org \in orgs \cup {None}
      BY <1>1 DEF IInv, SoundRows, SoundRow
    <3>3. users' = [users EXCEPT ![r] = u] /\ author' = [author EXCEPT ![r] = "admin"]
      BY <1>2, <2>2 DEF SetRole
    <3>4. u \in UserRows /\ u.org = users[r].org /\ u.role = handler[h].role
      BY <1>1, <3>1 DEF UserRows
    <3> HIDE DEF u
    <3>5. u # NoUser
      BY <1>1, <3>4 DEF NoUser, Roles
    <3>6. SoundRow(u, "admin", orgs)
      BY <3>2, <3>4, <3>5 DEF SoundRow, Agrees
    <3>7. SoundRows'
      BY <1>1, <1>2, <3>3, <3>6, RowStep
    <3> QED
      BY <1>1, <3>3, <3>4, <3>7 DEF IsAdmin, IInv, SoundRows
  <2> QED
    BY <2>1, <2>2
<1>5. AnAdminRemains' /\ lapses' \subseteq {"groups", "stale"}
  BY <1>1, <1>4, ActorRemains DEF UpdateUserRole
<1> QED
  BY <1>2, <1>3, <1>4, <1>5 DEF IInv

LEMMA UpdateUserOrganizationStep ==
  ASSUME IInv, NEW h \in Handlers, UpdateUserOrganization(h)
  PROVE  IInv'
<1>1. handler[h].row \in Rows /\ handler[h].org \in orgs \cup {None}
  BY AdministrationTask DEF UpdateUserOrganization, At, SoundTask
<1>2. UNCHANGED <<orgs, requests, author, lapses>>
  BY DEF UpdateUserOrganization
<1>3. SoundTasks'
  BY <1>2, SoundIdle, TaskStep DEF UpdateUserOrganization, Finish
<1>4. SoundRows' /\ AnAdminRemains'
  BY <1>1, <1>2, MoveUser DEF UpdateUserOrganization
<1> QED
  BY <1>2, <1>3, <1>4 DEF IInv

LEMMA DeleteUserStep ==
  ASSUME IInv, NEW h \in Handlers, DeleteUser(h)
  PROVE  IInv'
<1> DEFINE r == handler[h].row
<1>1. r \in Rows /\ handler[h].actor \in Rows /\ r # handler[h].actor
  BY AdministrationTask DEF DeleteUser, At, SoundTask
<1>2. UNCHANGED <<orgs, requests, author>>
  BY DEF DeleteUser
<1>3. SoundTasks'
  BY <1>2, SoundIdle, TaskStep DEF DeleteUser, Finish
<1>4. SoundRows'
  <2>1. CASE ~Exists(r)
    BY <1>2, <2>1, SameRows DEF DeleteUser
  <2>2. CASE Exists(r)
    <3>1. SoundRow(users[r], author[r], orgs)
      BY <1>1 DEF IInv, SoundRows
    <3>2. Gone.org = None /\ Gone.role = "gone" /\ Gone # NoUser
      BY DEF Gone, NoUser
    <3>3. SoundRow(Gone, author[r], orgs)
      BY <3>1, <3>2 DEF SoundRow, Agrees, Roles
    <3>4. users' = [users EXCEPT ![r] = Gone] /\ author' = [author EXCEPT ![r] = author[r]]
      BY <1>2, <2>2 DEF DeleteUser, IInv, SoundRows
    <3> QED
      BY <1>1, <1>2, <3>3, <3>4, RowStep
  <2> QED
    BY <2>1, <2>2
<1>5. IsAdmin(handler[h].actor) => users'[handler[h].actor].role = "admin"
  BY <1>1 DEF DeleteUser, IsAdmin, IInv, SoundRows
<1>6. AnAdminRemains' /\ lapses' \subseteq {"groups", "stale"}
  BY <1>1, <1>5, ActorRemains DEF DeleteUser
<1> QED
  BY <1>2, <1>3, <1>4, <1>6 DEF IInv

LEMMA FailStep ==
  ASSUME IInv, NEW h \in Handlers, Fail(h)
  PROVE  IInv'
<1>1. SoundTasks'
  BY SoundIdle, TaskStep DEF Fail, Finish
<1> QED
  BY <1>1, SameRows, NobodyLost DEF Fail, IInv, IsAdmin

-----------------------------------------------------------------------------

\* Accounts start with an administrator, no organization and no request.
LEMMA InitInv == Init => IInv
<1> SUFFICES ASSUME Init PROVE IInv
  OBVIOUS
<1>1. SoundTasks
  BY SoundIdle DEF Init, SoundTasks
<1>2. SoundRows
  <2>1. ASSUME NEW r \in Rows PROVE SoundRow(users[r], author[r], orgs)
    <3>1. CASE Founder[r] = None
      <4>1. users[r] = NoUser /\ author[r] = "nobody"
        BY <3>1 DEF Init
      <4>2. NoUser.org = None
        BY DEF NoUser
      <4> QED
        BY <4>1, <4>2 DEF SoundRow, Agrees
    <3>2. CASE Founder[r] # None
      <4>1. Founder[r] \in People
        BY <3>2, AccountsAssumption
      <4>2. users[r] = [NewUser(Founder[r]) EXCEPT !.role = "admin"] /\ author[r] = "nobody"
        BY <3>2 DEF Init
      <4>3. users[r] \in UserRows /\ users[r].org = None
        BY <4>1, <4>2 DEF NewUser, UserRows, Roles
      <4> QED
        BY <4>2, <4>3 DEF SoundRow, Agrees
    <3> QED
      BY <3>1, <3>2
  <2> QED
    BY <2>1 DEF Init, SoundRows
<1>3. AnAdminRemains
  <2>1. PICK r \in Rows : Founder[r] # None
    BY AccountsAssumption
  <2>2. users[r].role = "admin"
    BY <2>1 DEF Init, NewUser
  <2> QED
    BY <2>2 DEF AnAdminRemains, IsAdmin
<1> QED
  BY <1>1, <1>2, <1>3 DEF Init, IInv

\* No step of a login or of an administrator breaks the invariant.
LEMMA NextInv == IInv /\ [Next]_vars => IInv'
<1> SUFFICES ASSUME IInv, [Next]_vars PROVE IInv'
  OBVIOUS
<1>1. CASE UNCHANGED vars
  <2>1. SoundRows' /\ AnAdminRemains'
    BY <1>1, SameRows, NobodyLost DEF vars, IsAdmin
  <2>2. SoundTasks'
    BY <1>1 DEF vars, IInv, SoundTasks
  <2> QED
    BY <1>1, <2>1, <2>2 DEF vars, IInv
<1>2. ASSUME NEW h \in Handlers, Login(h) PROVE IInv'
  BY <1>2, CallbackStep, GetOrganizationBySlugStep, CreateOrganizationStep, SkipOrganizationStep,
     JoinOrganizationStep, PromoteOrgModeratorsStep, MapRoleStep DEF Login
<1>3. ASSUME NEW h \in Handlers, Administration(h) PROVE IInv'
  BY <1>3, RequestStep, UpdateUserRoleStep, UpdateUserOrganizationStep, DeleteUserStep
     DEF Administration
<1> QED
  BY <1>1, <1>2, <1>3, FailStep DEF Next

LEMMA Invariance == Spec => []IInv
  BY InitInv, NextInv, PTL DEF Spec

-----------------------------------------------------------------------------
(* Roles and organizations.                                                *)

OneLogin(r) == \A h, k \in Handlers : LogsIn(h, r) /\ LogsIn(k, r) => h = k

\* A login knows the organization that its user has.
Informed(r) == \A h \in Handlers : LogsIn(h, r) /\ Exists(r) => handler[h].org = users[r].org

Settled(r) ==
  Exists(r) /\ author[r] \in {"groups", "promotion"} /\ (~\E h \in Handlers : LogsIn(h, r)) =>
    users[r].role = FinalRoleFromMapped(users[r].mapped, users[r].org)

\* Without a mapped group nothing is promoted or mapped.
OnlyWhenMapped ==
  /\ \A h \in Handlers : handler[h].pc \in {"promote", "map role"} => HasGroupRoleMapping
  /\ \A r \in Rows : author[r] \in {"groups", "promotion"} => HasGroupRoleMapping

FitInv ==
  /\ adrift \subseteq Rows
  /\ OnlyWhenMapped
  /\ \A r \in Rows \ adrift : OneLogin(r) /\ Informed(r) /\ Settled(r)

\* The request that h serves becomes t.
LEMMA TaskChange ==
  ASSUME IInv, NEW h \in Handlers, NEW t, handler' = [handler EXCEPT ![h] = t]
  PROVE  handler'[h] = t /\ \A k \in Handlers \ {h} : handler'[k] = handler[k]
  BY DEF IInv, SoundTasks

\* A login that goes on, and any other request, leaves a row with one login that knows
\* its organization.
LEMMA LoginsGoOn ==
  ASSUME IInv, FitInv, NEW h \in Handlers, NEW t, handler' = [handler EXCEPT ![h] = t],
         NEW r \in Rows \ adrift, Exists(r)' => Exists(r) /\ users'[r].org = users[r].org,
         t.row = r /\ t.actor = None => LogsIn(h, r) /\ t.org = handler[h].org
  PROVE  OneLogin(r)' /\ Informed(r)'
<1>1. handler'[h] = t /\ \A k \in Handlers \ {h} : handler'[k] = handler[k]
  BY TaskChange
<1>2. \A k \in Handlers : LogsIn(k, r)' => LogsIn(k, r) /\ handler'[k].org = handler[k].org
  BY <1>1 DEF LogsIn
<1> QED
  BY <1>2 DEF FitInv, OneLogin, Informed

\* A row that stays as it is remains settled unless a login of it ends.
LEMMA StillSettled ==
  ASSUME IInv, FitInv, NEW h \in Handlers, NEW t, handler' = [handler EXCEPT ![h] = t],
         NEW r \in Rows \ adrift, users'[r] = users[r], author'[r] = author[r],
         LogsIn(h, r) /\ HasGroupRoleMapping => t.row = r /\ t.actor = None
  PROVE  Settled(r)'
<1>1. handler'[h] = t /\ \A k \in Handlers \ {h} : handler'[k] = handler[k]
  BY TaskChange
<1>2. author[r] \in {"groups", "promotion"} => HasGroupRoleMapping
  BY DEF FitInv, OnlyWhenMapped
<1>3. HasGroupRoleMapping => \A k \in Handlers : LogsIn(k, r) => LogsIn(k, r)'
  BY <1>1 DEF LogsIn
<1>4. Settled(r)
  BY DEF FitInv
<1> QED
  BY <1>2, <1>3, <1>4 DEF Settled, Exists

\* Nothing is mapped when the author of no row becomes the groups.
LEMMA MappedStill ==
  ASSUME IInv, FitInv, NEW h \in Handlers, NEW t, handler' = [handler EXCEPT ![h] = t],
         t.pc \in {"promote", "map role"} => HasGroupRoleMapping,
         HasGroupRoleMapping \/ \A r \in Rows : author'[r] \in {"groups", "promotion"} =>
                                  author'[r] = author[r]
  PROVE  OnlyWhenMapped'
<1>1. handler'[h] = t /\ \A k \in Handlers \ {h} : handler'[k] = handler[k]
  BY TaskChange
<1> QED
  BY <1>1 DEF FitInv, OnlyWhenMapped

SameRow(r) == users'[r] = users[r] /\ author'[r] = author[r]

\* A login of r that goes on knows what it knew, and none begins or ends when h turns
\* to t (where roles are mapped; elsewhere it may end).
GoesOn(h, t, r) ==
  /\ t.row = r /\ t.actor = None => LogsIn(h, r) /\ t.org = handler[h].org
  /\ LogsIn(h, r) /\ HasGroupRoleMapping => t.row = r /\ t.actor = None

MayMap(t) == t.pc \in {"promote", "map role"} => HasGroupRoleMapping

NoNewAuthor ==
  \A r \in Rows : author'[r] \in {"groups", "promotion"} => author'[r] = author[r]

\* A step of one request that may set some rows adrift and leaves the others alone.
LEMMA QuietStep ==
  ASSUME IInv, FitInv, NEW h \in Handlers, NEW t, handler' = [handler EXCEPT ![h] = t],
         NEW D \in SUBSET Rows, adrift' = adrift \cup D, MayMap(t), NoNewAuthor,
         \A r \in Rows \ adrift' : SameRow(r) /\ GoesOn(h, t, r)
  PROVE  FitInv'
<1>1. OnlyWhenMapped'
  BY MappedStill DEF MayMap, NoNewAuthor
<1>2. ASSUME NEW r \in Rows \ adrift'
      PROVE  OneLogin(r)' /\ Informed(r)' /\ Settled(r)'
  <2>1. r \in Rows \ adrift /\ users'[r] = users[r] /\ author'[r] = author[r] /\ GoesOn(h, t, r)
    BY DEF SameRow
  <2>2. Exists(r)' => Exists(r) /\ users'[r].org = users[r].org
    BY <2>1 DEF Exists
  <2>3. OneLogin(r)' /\ Informed(r)'
    BY <2>1, <2>2, LoginsGoOn DEF GoesOn
  <2>4. Settled(r)'
    BY <2>1, StillSettled DEF GoesOn
  <2> QED
    BY <2>3, <2>4
<1>3. adrift' \subseteq Rows
  BY DEF FitInv
<1> QED
  BY <1>1, <1>2, <1>3 DEF FitInv

\* The same when no row changes or goes adrift.
LEMMA SilentStep ==
  ASSUME IInv, FitInv, NEW h \in Handlers, NEW t, handler' = [handler EXCEPT ![h] = t],
         UNCHANGED <<users, author, adrift>>, MayMap(t), \A r \in Rows : GoesOn(h, t, r)
  PROVE  FitInv'
<1>1. NoNewAuthor /\ \A r \in Rows : SameRow(r)
  BY DEF NoNewAuthor, SameRow
<1>2. PICK D \in SUBSET Rows : D = {}
  OBVIOUS
<1>3. adrift' = adrift \cup D
  BY <1>2
<1>4. \A r \in Rows \ adrift' : SameRow(r) /\ GoesOn(h, t, r)
  BY <1>1
<1> QED
  BY <1>1, <1>3, <1>4, QuietStep

\* The steps of a login keep its row; what it knows of the organization stays too,
\* but for the step that joins one.
LEMMA LoginKeeps ==
  ASSUME NEW t \in Logins, NEW pc
  PROVE  /\ t.row \in Rows /\ t.actor = None
         /\ [t EXCEPT !.pc = pc].row = t.row /\ [t EXCEPT !.pc = pc].actor = None
         /\ [t EXCEPT !.pc = pc].org = t.org /\ [t EXCEPT !.pc = pc].pc = pc
  BY DEF Logins

LEMMA RolePartKeeps ==
  ASSUME NEW t \in Logins
  PROVE  /\ HasGroupRoleMapping =>
              /\ RolePart(t).row = t.row /\ RolePart(t).actor = None
              /\ RolePart(t).org = t.org /\ RolePart(t).pc = "map role"
         /\ ~HasGroupRoleMapping => RolePart(t) = Idle
  BY LoginKeeps DEF RolePart

LEMMA IdleIsNoLogin == Idle.pc = "idle" /\ Idle.row = None /\ None \notin Rows
  BY NoneIsNoId DEF Idle

LEMMA GetOrganizationBySlugFits ==
  ASSUME IInv, FitInv, NEW h \in Handlers, GetOrganizationBySlug(h)
  PROVE  FitInv'
<1>1. handler[h] \in Logins
  BY LoginTask DEF GetOrganizationBySlug, At
<1> DEFINE pc == IF handler[h].claim \in orgs THEN "join" ELSE "create org"
<1>2. PICK t : t = [handler[h] EXCEPT !.pc = pc]
  OBVIOUS
<1>3. handler' = [handler EXCEPT ![h] = t] /\ UNCHANGED <<users, author, adrift>>
  BY <1>2 DEF GetOrganizationBySlug, GoOn
<1>4. /\ t.row = handler[h].row /\ t.actor = None /\ handler[h].actor = None
      /\ t.org = handler[h].org /\ t.pc = pc
  <2> HIDE DEF pc
  <2> QED
    BY <1>1, <1>2, LoginKeeps
<1>5. MayMap(t) /\ \A r \in Rows : GoesOn(h, t, r)
  BY <1>4 DEF MayMap, GoesOn, LogsIn
<1> QED
  BY <1>3, <1>5, SilentStep

LEMMA CreateOrganizationFits ==
  ASSUME IInv, FitInv, NEW h \in Handlers, CreateOrganization(h)
  PROVE  FitInv'
<1>1. handler[h] \in Logins
  BY LoginTask DEF CreateOrganization, At
<1> DEFINE pc == IF handler[h].claim \in orgs THEN "join" ELSE "join new"
<1>2. PICK t : t = [handler[h] EXCEPT !.pc = pc]
  OBVIOUS
<1>3. handler' = [handler EXCEPT ![h] = t] /\ UNCHANGED <<users, author, adrift>>
  BY <1>2 DEF CreateOrganization, GoOn
<1>4. /\ t.row = handler[h].row /\ t.actor = None /\ handler[h].actor = None
      /\ t.org = handler[h].org /\ t.pc = pc
  <2> HIDE DEF pc
  <2> QED
    BY <1>1, <1>2, LoginKeeps
<1>5. MayMap(t) /\ \A r \in Rows : GoesOn(h, t, r)
  BY <1>4 DEF MayMap, GoesOn, LogsIn
<1> QED
  BY <1>3, <1>5, SilentStep

LEMMA SkipOrganizationFits ==
  ASSUME IInv, FitInv, NEW h \in Handlers, SkipOrganization(h)
  PROVE  FitInv'
<1>1. handler[h] \in Logins
  BY LoginTask DEF SkipOrganization, At
<1>2. PICK t : t = RolePart(handler[h])
  OBVIOUS
<1>3. handler' = [handler EXCEPT ![h] = t] /\ UNCHANGED <<users, author, adrift>>
  BY <1>2 DEF SkipOrganization
<1>4. /\ HasGroupRoleMapping => t.row = handler[h].row /\ t.actor = None /\ t.org = handler[h].org
      /\ ~HasGroupRoleMapping => t.row \notin Rows /\ t.pc = "idle"
      /\ handler[h].actor = None
  BY <1>1, <1>2, RolePartKeeps, LoginKeeps, IdleIsNoLogin
<1>5. MayMap(t) /\ \A r \in Rows : GoesOn(h, t, r)
  BY <1>4 DEF MayMap, GoesOn, LogsIn
<1> QED
  BY <1>3, <1>5, SilentStep

\* The login and its row get the organization together, or the row is adrift.
LEMMA JoinOrganizationFits ==
  ASSUME IInv, FitInv, NEW h \in Handlers, JoinOrganization(h)
  PROVE  FitInv'
<1> DEFINE joined == [handler[h] EXCEPT !.org = handler[h].claim]
           next   == IF At(h, "join new") /\ HasGroupRoleMapping
                     THEN [joined EXCEPT !.pc = "promote"] ELSE RolePart(joined)
<1>1. /\ handler[h] \in Logins /\ SoundTask(handler[h], orgs)
      /\ handler[h].row \in Rows /\ handler[h].actor = None
  BY LoginTask DEF JoinOrganization, At, Logins
<1>2. joined \in Logins /\ joined.row = handler[h].row /\ joined.org = handler[h].claim
  <2>1. handler[h].claim \in Slugs
    BY <1>1 DEF JoinOrganization, At, SoundTask
  <2> QED
    BY <1>1, <2>1 DEF Logins
<1>3. handler' = [handler EXCEPT ![h] = next] /\ UNCHANGED author
  BY DEF JoinOrganization, AfterJoin
<1> HIDE DEF joined
<1>4. /\ HasGroupRoleMapping =>
           next.row = handler[h].row /\ next.actor = None /\ next.org = handler[h].claim
      /\ ~HasGroupRoleMapping => next.row \notin Rows /\ next.pc = "idle"
  BY <1>2, RolePartKeeps, LoginKeeps, IdleIsNoLogin
<1> HIDE DEF next
<1>5. CASE UNCHANGED users /\ Drift(handler[h].row)
  <2>1. \A r \in Rows \ adrift' : r # handler[h].row
    BY <1>5 DEF Drift
  <2>2. adrift' = adrift \cup {handler[h].row} /\ {handler[h].row} \in SUBSET Rows
    BY <1>1, <1>5 DEF Drift
  <2>3. MayMap(next) /\ NoNewAuthor
    BY <1>3, <1>4 DEF MayMap, NoNewAuthor
  <2>4. \A r \in Rows \ adrift' : SameRow(r) /\ GoesOn(h, next, r)
    BY <1>3, <1>4, <1>5, <2>1 DEF SameRow, GoesOn, LogsIn
  <2> QED
    BY <1>3, <2>2, <2>3, <2>4, QuietStep
<1>6. CASE Join(h) /\ UNCHANGED adrift
  <2>1. \A r \in Rows : r # handler[h].row => users'[r] = users[r]
    BY <1>6 DEF Join, IInv, SoundRows
  <2>2. ASSUME NEW r \in Rows, r = handler[h].row, Exists(r)'
        PROVE  users'[r].org = handler[h].claim
    <3>1. CASE Exists(r)
      <4>1. users[r] \in UserRows
        BY <3>1, ExistingRow
      <4>2. users'[r] = [users[r] EXCEPT !.org = handler[h].claim]
        BY <1>6, <2>2, <3>1 DEF Join, IInv, SoundRows
      <4> QED
        BY <4>1, <4>2 DEF UserRows
    <3>2. CASE ~Exists(r)
      <4>1. UNCHANGED users
        BY <1>6, <2>2, <3>2 DEF Join
      <4> QED
        BY <2>2, <3>2, <4>1 DEF Exists
    <3> QED
      BY <3>1, <3>2
  <2>3. OnlyWhenMapped'
    BY <1>3, <1>4, MappedStill
  <2>4. ASSUME NEW r \in Rows \ adrift'
        PROVE  OneLogin(r)' /\ Informed(r)' /\ Settled(r)'
    <3>1. r \in Rows \ adrift
      BY <1>6
    <3>2. CASE r # handler[h].row
      <4>1. users'[r] = users[r] /\ author'[r] = author[r]
        BY <1>3, <2>1, <3>2
      <4>2. ~(next.row = r) /\ ~LogsIn(h, r)
        BY <1>4, <3>2 DEF LogsIn
      <4>3. OneLogin(r)' /\ Informed(r)'
        BY <1>3, <3>1, <4>1, <4>2, LoginsGoOn DEF Exists
      <4>4. Settled(r)'
        BY <1>3, <3>1, <4>1, <4>2, StillSettled
      <4> QED
        BY <4>3, <4>4
    <3>3. CASE r = handler[h].row
      <4>1. handler'[h] = next /\ \A k \in Handlers \ {h} : handler'[k] = handler[k]
        BY <1>3, TaskChange
      <4>2. LogsIn(h, r)
        BY <1>1, <3>3 DEF LogsIn
      <4>3. \A k \in Handlers : LogsIn(k, r)' => k = h
        BY <3>1, <4>1, <4>2 DEF FitInv, OneLogin, LogsIn
      <4>4. HasGroupRoleMapping => LogsIn(h, r)'
        BY <1>4, <3>3, <4>1 DEF LogsIn
      <4>5. LogsIn(h, r)' /\ Exists(r)' => handler'[h].org = users'[r].org
        BY <1>4, <2>2, <3>3, <4>1 DEF LogsIn
      <4>6. author'[r] \in {"groups", "promotion"} => HasGroupRoleMapping
        BY <1>3 DEF FitInv, OnlyWhenMapped
      <4> QED
        BY <4>3, <4>4, <4>5, <4>6 DEF OneLogin, Informed, Settled
    <3> QED
      BY <3>2, <3>3
  <2> QED
    BY <1>6, <2>3, <2>4 DEF FitInv
<1> QED
  BY <1>5, <1>6 DEF JoinOrganization

LEMMA PromoteOrgModeratorsFits ==
  ASSUME IInv, FitInv, NEW h \in Handlers, PromoteOrgModerators(h)
  PROVE  FitInv'
<1>1. handler[h] \in Logins /\ SoundTask(handler[h], orgs) /\ handler[h].claim \in Slugs
  BY LoginTask DEF PromoteOrgModerators, At, SoundTask
<1>2. HasGroupRoleMapping
  BY DEF PromoteOrgModerators, At, FitInv, OnlyWhenMapped
<1>3. PICK t : t = [handler[h] EXCEPT !.pc = "map role"]
  OBVIOUS
<1>4. handler' = [handler EXCEPT ![h] = t] /\ UNCHANGED adrift
  BY <1>3 DEF PromoteOrgModerators, GoOn
<1>5. t.row = handler[h].row /\ t.actor = None /\ handler[h].actor = None /\ t.org = handler[h].org
  BY <1>1, <1>3, LoginKeeps
<1>6. OnlyWhenMapped'
  BY <1>2, <1>4, MappedStill
<1>7. ASSUME NEW r \in Rows
      PROVE  \/ users'[r] = users[r] /\ author'[r] = author[r]
             \/ /\ Exists(r) /\ users'[r].org = users[r].org
                /\ users'[r].role = FinalRoleFromMapped(users'[r].mapped, users'[r].org)
  <2>1. CASE UNCHANGED <<users, author>>
    BY <2>1
  <2>2. CASE ~Promotable(r, handler[h].claim) /\ ~UNCHANGED <<users, author>>
    BY <2>2 DEF PromoteOrgModerators
  <2>3. CASE Promotable(r, handler[h].claim) /\ ~UNCHANGED <<users, author>>
    <3>1. users[r] \in UserRows /\ users[r].mapped = "moderator" /\ users[r].org = handler[h].claim
      BY <2>3, ExistingRow DEF Promotable
    <3>2. users'[r] = [users[r] EXCEPT !.role = "org_mod"]
      BY <2>3 DEF PromoteOrgModerators
    <3>3. /\ users'[r].role = "org_mod" /\ users'[r].mapped = "moderator"
          /\ users'[r].org = handler[h].claim
      BY <3>1, <3>2 DEF UserRows
    <3> QED
      BY <1>1, <2>3, <3>1, <3>3, NoneIsNoId DEF FinalRoleFromMapped, Promotable
  <2> QED
    BY <2>1, <2>2, <2>3
<1>8. ASSUME NEW r \in Rows \ adrift'
      PROVE  OneLogin(r)' /\ Informed(r)' /\ Settled(r)'
  <2>1. r \in Rows \ adrift
    BY <1>4
  <2>2. Exists(r)' => Exists(r) /\ users'[r].org = users[r].org
    BY <1>7 DEF Exists
  <2>3. OneLogin(r)' /\ Informed(r)'
    <3>1. t.row = r /\ t.actor = None => LogsIn(h, r) /\ t.org = handler[h].org
      BY <1>5 DEF LogsIn
    <3> QED
      BY <1>4, <2>1, <2>2, <3>1, LoginsGoOn
  <2>4. CASE users'[r] = users[r] /\ author'[r] = author[r]
    <3>1. Settled(r)'
      BY <1>4, <1>5, <2>1, <2>4, StillSettled DEF LogsIn
    <3> QED
      BY <2>3, <3>1
  <2>5. CASE users'[r].role = FinalRoleFromMapped(users'[r].mapped, users'[r].org)
    BY <2>3, <2>5 DEF Settled
  <2> QED
    BY <1>7, <2>4, <2>5
<1> QED
  BY <1>4, <1>6, <1>8 DEF FitInv

\* The login knew the organization of its user: the role is the one for it.
LEMMA MapRoleFits ==
  ASSUME IInv, FitInv, NEW h \in Handlers, MapRole(h)
  PROVE  FitInv'
<1> DEFINE row == handler[h].row
<1>1. handler[h] \in Logins /\ row \in Rows /\ handler[h].actor = None /\ handler[h].role \in MappedRoles
  BY LoginTask DEF MapRole, At, Logins
<1>2. HasGroupRoleMapping
  BY DEF MapRole, At, FitInv, OnlyWhenMapped
<1>3. handler' = [handler EXCEPT ![h] = Idle]
  BY DEF MapRole, Finish
<1>4. Idle.row \notin Rows /\ Idle.pc = "idle"
  BY IdleIsNoLogin
<1>5. CASE UNCHANGED <<users, author>> /\ Drift(row)
  <2>1. adrift' = adrift \cup {row} /\ {row} \in SUBSET Rows
    BY <1>1, <1>5 DEF Drift
  <2>2. \A r \in Rows \ adrift' : SameRow(r) /\ GoesOn(h, Idle, r)
    BY <1>4, <1>5, <2>1 DEF SameRow, GoesOn, LogsIn
  <2>3. MayMap(Idle) /\ NoNewAuthor
    BY <1>4, <1>5 DEF MayMap, NoNewAuthor
  <2> QED
    BY <1>3, <2>1, <2>2, <2>3, QuietStep
<1>6. CASE /\ UpdateUserRoleFromOIDC(row, handler[h].role,
                                     FinalRoleFromMapped(handler[h].role, handler[h].org))
           /\ UNCHANGED adrift
  <2>1. OnlyWhenMapped'
    BY <1>2, <1>3, <1>4, MappedStill
  <2>2. ASSUME NEW r \in Rows
        PROVE  \/ users'[r] = users[r] /\ author'[r] = author[r] /\ (r = row => ~Exists(r))
               \/ /\ r = row /\ Exists(r) /\ users'[r].org = users[r].org
                  /\ users'[r].mapped = handler[h].role
                  /\ users'[r].role = FinalRoleFromMapped(handler[h].role, handler[h].org)
    <3>1. CASE ~Exists(row)
      BY <1>6, <3>1 DEF UpdateUserRoleFromOIDC
    <3>2. CASE Exists(row) /\ r # row
      BY <1>6, <3>2 DEF UpdateUserRoleFromOIDC, IInv, SoundRows
    <3>3. CASE Exists(row) /\ r = row
      <4>1. users[r] \in UserRows
        BY <3>3, ExistingRow
      <4>2. PICK role : role = FinalRoleFromMapped(handler[h].role, handler[h].org)
        OBVIOUS
      <4>3. users'[r] = [users[r] EXCEPT !.role = role, !.mapped = handler[h].role]
        BY <1>6, <3>3, <4>2 DEF UpdateUserRoleFromOIDC, IInv, SoundRows
      <4>4. users'[r].org = users[r].org /\ users'[r].mapped = handler[h].role /\ users'[r].role = role
        BY <4>1, <4>3 DEF UserRows
      <4> QED
        BY <3>3, <4>2, <4>4
    <3> QED
      BY <3>1, <3>2, <3>3
  <2>3. ASSUME NEW r \in Rows \ adrift'
        PROVE  OneLogin(r)' /\ Informed(r)' /\ Settled(r)'
    <3>1. r \in Rows \ adrift /\ Idle.row # r
      BY <1>4, <1>6
    <3>2. Exists(r)' => Exists(r) /\ users'[r].org = users[r].org
      BY <2>2 DEF Exists
    <3>3. OneLogin(r)' /\ Informed(r)'
      BY <1>3, <3>1, <3>2, LoginsGoOn
    <3>4. CASE r # row
      <4>1. users'[r] = users[r] /\ author'[r] = author[r] /\ ~LogsIn(h, r)
        BY <2>2, <3>4 DEF LogsIn
      <4>2. Settled(r)'
        BY <1>3, <3>1, <4>1, StillSettled
      <4> QED
        BY <3>3, <4>2
    <3>5. CASE r = row
      <4>1. LogsIn(h, r)
        BY <1>1, <3>5 DEF LogsIn
      <4>2. Exists(r) => handler[h].org = users[r].org
        BY <3>1, <4>1 DEF FitInv, Informed
      <4>3. Exists(r)' => users'[r].role = FinalRoleFromMapped(users'[r].mapped, users'[r].org)
        BY <2>2, <3>2, <3>5, <4>2
      <4>4. Settled(r)'
        BY <4>3 DEF Settled
      <4> QED
        BY <3>3, <4>4
    <3> QED
      BY <3>4, <3>5
  <2> QED
    BY <1>6, <2>1, <2>3 DEF FitInv
<1> QED
  BY <1>5, <1>6 DEF MapRole

\* The first thing a login does is to find out the organization of its row.
LEMMA CallbackFits ==
  ASSUME IInv, FitInv, NEW h \in Handlers, NEW p \in People, NEW claim \in Slugs \cup {None},
         NEW groups \in SUBSET Groups, Callback(h, p, claim, groups), IInv'
  PROVE  FitInv'
<1> DEFINE login(r) == [pc |-> "find org", row |-> r, actor |-> None, org |-> users'[r].org,
                        claim |-> claim, role |-> ResolveRoleFromGroups(groups)]
<1>1. PICK r \in Rows : /\ UpsertUser(p, r)
                        /\ Start(h, IF claim # None THEN login(r) ELSE RolePart(login(r)))
                        /\ IF \E k \in Handlers : LogsIn(k, r) THEN Drift(r) ELSE adrift' = adrift \ {r}
  BY DEF Callback
<1>2. login(r) \in Logins /\ login(r).row = r /\ login(r).org = users'[r].org /\ login(r).pc = "find org"
      /\ login(r).actor = None
  <2>1. users'[r].org \in Slugs \cup {None}
    BY DEF IInv, SoundRows, SoundRow
  <2> QED
    BY <2>1, MappedIsRole DEF Logins, MappedRoles
<1> HIDE DEF login
<1>3. PICK t : t = IF claim # None THEN login(r) ELSE RolePart(login(r))
  OBVIOUS
<1>4. handler[h] = Idle /\ handler' = [handler EXCEPT ![h] = t] /\ UNCHANGED author
  BY <1>1, <1>3 DEF Start, Callback
<1>5. \/ t.row = r /\ t.actor = None /\ t.org = users'[r].org /\ (t.pc = "find org" \/ HasGroupRoleMapping)
      \/ t.row \notin Rows /\ t.pc = "idle" /\ ~HasGroupRoleMapping
  BY <1>2, <1>3, RolePartKeeps, IdleIsNoLogin
<1>6. OnlyWhenMapped'
  BY <1>4, <1>5, MappedStill
<1>7. ASSUME NEW q \in Rows \ adrift'
      PROVE  OneLogin(q)' /\ Informed(q)' /\ Settled(q)'
  <2>1. \A s \in Rows : ~LogsIn(h, s)
    BY <1>4, IdleIsNoLogin DEF LogsIn
  <2>2. CASE q # r
    <3>1. q \in Rows \ adrift
      BY <1>1, <2>2 DEF Drift
    <3>2. users'[q] = users[q] /\ author'[q] = author[q]
      BY <1>1, <1>4, <2>2 DEF UpsertUser, IInv, SoundRows
    <3>3. t.row # q
      BY <1>5, <2>2
    <3>4. OneLogin(q)' /\ Informed(q)'
      BY <1>4, <3>1, <3>2, <3>3, LoginsGoOn DEF Exists
    <3>5. Settled(q)'
      BY <1>4, <2>1, <3>1, <3>2, StillSettled
    <3> QED
      BY <3>4, <3>5
  <2>3. CASE q = r
    <3>1. \A k \in Handlers : ~LogsIn(k, r)
      BY <1>1, <2>3 DEF Drift
    <3>2. handler'[h] = t /\ \A k \in Handlers \ {h} : handler'[k] = handler[k]
      BY <1>4, TaskChange
    <3>3. \A k \in Handlers : LogsIn(k, r)' => k = h
      BY <3>1, <3>2 DEF LogsIn
    <3>4. LogsIn(h, r)' => handler'[h].org = users'[r].org
      BY <1>5, <3>2 DEF LogsIn
    <3>5. HasGroupRoleMapping => LogsIn(h, r)'
      BY <1>5, <3>2 DEF LogsIn
    <3>6. author'[r] \in {"groups", "promotion"} => HasGroupRoleMapping
      BY <1>4 DEF FitInv, OnlyWhenMapped
    <3> QED
      BY <2>3, <3>3, <3>4, <3>5, <3>6 DEF OneLogin, Informed, Settled
  <2> QED
    BY <2>2, <2>3
<1>8. adrift' \subseteq Rows
  BY <1>1 DEF FitInv, Drift
<1> QED
  BY <1>6, <1>7, <1>8 DEF FitInv

LEMMA AdministrationFits ==
  ASSUME IInv, FitInv, NEW h \in Handlers, Administration(h)
  PROVE  FitInv'
<1>1. ASSUME NEW a \in Rows, NEW t, Administer(h, a, t), t.actor = a,
             t.pc \in {"set role", "set org", "delete"}
      PROVE  FitInv'
  <2>1. /\ handler[h] = Idle /\ handler' = [handler EXCEPT ![h] = t]
        /\ UNCHANGED <<users, author, adrift>>
    BY <1>1 DEF Administer, Start
  <2>2. \A s \in Rows : ~LogsIn(h, s)
    BY <2>1, IdleIsNoLogin DEF LogsIn
  <2>3. MayMap(t) /\ \A r \in Rows : GoesOn(h, t, r)
    BY <1>1, <2>2, IdleIsNoLogin DEF MayMap, GoesOn
  <2> QED
    BY <2>1, <2>3, SilentStep
<1>2. ASSUME NEW a \in Rows, NEW r \in Rows,
             \/ \E role \in Roles : RequestRole(h, a, r, role)
             \/ \E org \in orgs \cup {None} : RequestOrg(h, a, r, org)
             \/ RequestDeletion(h, a, r)
      PROVE  FitInv'
  BY <1>1, <1>2 DEF RequestRole, RequestOrg, RequestDeletion, Idle
<1>3. ASSUME UpdateUserRole(h) \/ UpdateUserOrganization(h) \/ DeleteUser(h)
      PROVE  FitInv'
  <2> DEFINE row == handler[h].row
  <2>1. row \in Rows /\ handler[h].actor \in Rows
    BY <1>3, AdministrationTask DEF UpdateUserRole, UpdateUserOrganization, DeleteUser, At
  <2>2. handler' = [handler EXCEPT ![h] = Idle]
    BY <1>3 DEF UpdateUserRole, UpdateUserOrganization, DeleteUser, Finish
  <2>3. (\A s \in Rows : ~LogsIn(h, s)) /\ Idle.row \notin Rows /\ Idle.pc = "idle"
    BY <2>1, IdleIsNoLogin DEF LogsIn
  <2>4. CASE UpdateUserOrganization(h)
    <3>1. adrift' = adrift \cup {row} /\ {row} \in SUBSET Rows /\ UNCHANGED author
      BY <2>1, <2>4 DEF UpdateUserOrganization, Drift
    <3>2. \A r \in Rows : r # row => users'[r] = users[r]
      BY <2>4 DEF UpdateUserOrganization, IInv, SoundRows
    <3>3. MayMap(Idle) /\ NoNewAuthor
      BY <2>3, <3>1 DEF MayMap, NoNewAuthor
    <3>4. \A r \in Rows \ adrift' : SameRow(r) /\ GoesOn(h, Idle, r)
      BY <2>3, <3>1, <3>2 DEF SameRow, GoesOn
    <3> QED
      BY <2>2, <3>1, <3>3, <3>4, QuietStep
  <2>5. CASE UpdateUserRole(h) \/ DeleteUser(h)
    <3>1. UNCHANGED adrift
      BY <2>5 DEF UpdateUserRole, DeleteUser
    <3>2. ASSUME NEW r \in Rows
          PROVE  /\ Exists(r)' => Exists(r) /\ users'[r].org = users[r].org
                 /\ author'[r] \in {author[r], "admin"}
                 /\ Exists(r)' /\ author'[r] # "admin" => users'[r] = users[r] /\ author'[r] = author[r]
      <4>1. CASE UNCHANGED <<users, author>>
        BY <4>1 DEF Exists
      <4>2. CASE UpdateUserRole(h) /\ Exists(row)
        <5>1. users' = [users EXCEPT ![row].role = handler[h].role] /\ author' = [author EXCEPT ![row] = "admin"]
          BY <4>2 DEF UpdateUserRole, SetRole
        <5>2. r # row => users'[r] = users[r] /\ author'[r] = author[r]
          BY <5>1 DEF IInv, SoundRows
        <5>3. r = row => users'[r].org = users[r].org /\ author'[r] = "admin"
          <6>1. users[row] \in UserRows
            BY <2>1, <4>2, ExistingRow
          <6>2. users'[row] = [users[row] EXCEPT !.role = handler[h].role] /\ author'[row] = "admin"
            BY <2>1, <5>1 DEF IInv, SoundRows
          <6> QED
            BY <6>1, <6>2 DEF UserRows
        <5> QED
          BY <4>2, <5>2, <5>3 DEF Exists
      <4>3. CASE DeleteUser(h) /\ Exists(row)
        <5>1. users' = [users EXCEPT ![row] = Gone] /\ UNCHANGED author
          BY <4>3 DEF DeleteUser
        <5>2. r # row => users'[r] = users[r]
          BY <5>1 DEF IInv, SoundRows
        <5>3. r = row => ~Exists(r)'
          BY <2>1, <5>1 DEF IInv, SoundRows, Exists, Gone, Roles
        <5> QED
          BY <5>1, <5>2, <5>3 DEF Exists
      <4>4. ~Exists(row) => UNCHANGED <<users, author>>
        BY <2>5 DEF UpdateUserRole, SetRole, DeleteUser
      <4> QED
        BY <2>5, <4>1, <4>2, <4>3, <4>4
    <3>3. OnlyWhenMapped'
      <4>1. \A r \in Rows : author'[r] \in {"groups", "promotion"} => author'[r] = author[r]
        BY <3>2
      <4> QED
        BY <2>2, <2>3, <4>1, MappedStill
    <3>4. ASSUME NEW r \in Rows \ adrift'
          PROVE  OneLogin(r)' /\ Informed(r)' /\ Settled(r)'
      <4>1. r \in Rows \ adrift /\ Idle.row # r /\ ~LogsIn(h, r)
        BY <2>3, <3>1
      <4>2. OneLogin(r)' /\ Informed(r)'
        BY <2>2, <3>2, <4>1, LoginsGoOn
      <4>3. CASE Exists(r)' /\ author'[r] # "admin"
        <5>1. users'[r] = users[r] /\ author'[r] = author[r]
          BY <3>2, <4>3
        <5>2. Settled(r)'
          BY <2>2, <4>1, <5>1, StillSettled
        <5> QED
          BY <4>2, <5>2
      <4>4. CASE ~Exists(r)' \/ author'[r] = "admin"
        BY <4>2, <4>4 DEF Settled
      <4> QED
        BY <4>3, <4>4
    <3> QED
      BY <3>1, <3>3, <3>4 DEF FitInv
  <2> QED
    BY <1>3, <2>4, <2>5
<1> QED
  BY <1>2, <1>3 DEF Administration

LEMMA FailFits ==
  ASSUME IInv, FitInv, NEW h \in Handlers, Fail(h)
  PROVE  FitInv'
<1>1. handler' = [handler EXCEPT ![h] = Idle] /\ UNCHANGED <<users, author>>
  BY DEF Fail, Finish
<1>2. Idle.row \notin Rows /\ Idle.pc = "idle"
  BY IdleIsNoLogin
<1>3. handler[h].row \in Rows
  <2>1. SoundTask(handler[h], orgs) /\ handler[h] # Idle
    BY DEF Fail, IInv, SoundTasks
  <2> QED
    BY <2>1 DEF SoundTask, Logins, Administrations
<1>4. PICK D \in SUBSET Rows : adrift' = adrift \cup D /\ \A r \in Rows : LogsIn(h, r) => r \in D
  <2>1. CASE LogsIn(h, handler[h].row)
    <3>1. adrift' = adrift \cup {handler[h].row} /\ {handler[h].row} \in SUBSET Rows
      BY <1>3, <2>1 DEF Fail, Drift
    <3> QED
      BY <3>1 DEF LogsIn
  <2>2. CASE ~LogsIn(h, handler[h].row)
    <3>1. adrift' = adrift \cup {} /\ {} \in SUBSET Rows
      BY <2>2 DEF Fail
    <3> QED
      BY <2>2, <3>1 DEF LogsIn
  <2> QED
    BY <2>1, <2>2
<1>5. MayMap(Idle) /\ NoNewAuthor
  BY <1>1, <1>2 DEF MayMap, NoNewAuthor
<1>6. \A r \in Rows \ adrift' : SameRow(r) /\ GoesOn(h, Idle, r)
  BY <1>1, <1>2, <1>4 DEF SameRow, GoesOn
<1> QED
  BY <1>1, <1>4, <1>5, <1>6, QuietStep

LEMMA FitInvariance == Spec => []FitInv
<1>1. Init => FitInv
  <2> SUFFICES ASSUME Init PROVE FitInv
    OBVIOUS
  <2>1. \A h \in Handlers : handler[h].pc = "idle" /\ \A r \in Rows : ~LogsIn(h, r)
    BY IdleIsNoLogin DEF Init, LogsIn
  <2>2. \A r \in Rows : author[r] = "nobody"
    BY DEF Init
  <2>3. adrift = {}
    BY DEF Init
  <2>4. OnlyWhenMapped
    BY <2>1, <2>2 DEF OnlyWhenMapped
  <2>5. \A r \in Rows : OneLogin(r) /\ Informed(r) /\ Settled(r)
    BY <2>1, <2>2 DEF OneLogin, Informed, Settled
  <2> QED
    BY <2>3, <2>4, <2>5 DEF FitInv
<1>2. IInv /\ IInv' /\ FitInv /\ [Next]_vars => FitInv'
  <2> SUFFICES ASSUME IInv, IInv', FitInv, [Next]_vars PROVE FitInv'
    OBVIOUS
  <2>1. CASE UNCHANGED vars
    <3>1. UNCHANGED <<users, handler, author, adrift>>
      BY <2>1 DEF vars
    <3>2. OnlyWhenMapped'
      BY <3>1 DEF FitInv, OnlyWhenMapped
    <3>3. \A r \in Rows \ adrift : OneLogin(r)' /\ Informed(r)' /\ Settled(r)'
      BY <3>1 DEF FitInv, OneLogin, Informed, Settled, LogsIn, Exists
    <3> QED
      BY <3>1, <3>2, <3>3 DEF FitInv
  <2>2. ASSUME NEW h \in Handlers, Login(h) PROVE FitInv'
    BY <2>2, CallbackFits, GetOrganizationBySlugFits, CreateOrganizationFits, SkipOrganizationFits,
       JoinOrganizationFits, PromoteOrgModeratorsFits, MapRoleFits DEF Login
  <2> QED
    BY <2>1, <2>2, AdministrationFits, FailFits DEF Next
<1> QED
  BY <1>1, <1>2, Invariance, PTL DEF Spec

-----------------------------------------------------------------------------
(* Theorems.                                                               *)

\* Users, organizations and requests have their types, and no user and no login
\* refers to an organization that does not exist.
THEOREM TypeCorrect == Spec => []TypeOK
<1>1. IInv /\ FitInv => TypeOK
  BY IInvImplies DEF FitInv
<1> QED
  BY <1>1, Invariance, FitInvariance, PTL

\* However logins and edits interleave, a role that groups decided is the one of
\* the groups on record: role and oidc_mapped_role never come from two logins.
THEOREM RolesAgreeWithGroups == Spec => []RoleAgreesWithGroups
<1>1. IInv /\ FitInv => RoleAgreesWithGroups
  BY IInvImplies DEF FitInv
<1> QED
  BY <1>1, Invariance, FitInvariance, PTL

\* Between logins the role that groups gave a user is the one for the organization he
\* is in, unless an UPDATE of his login was lost, his logins overlapped or somebody
\* moved him; the next undisturbed login mends it (Callback, PromoteOrgModerators).
THEOREM RolesFitOrganizations == Spec => []RoleFitsOrganization
<1>1. FitInv => RoleFitsOrganization
  BY DEF FitInv, Settled, RoleFitsOrganization
<1> QED
  BY <1>1, FitInvariance, PTL

\* Administrators who may neither demote nor delete themselves leave one of them,
\* unless groups or a request of a former administrator take the role away.
THEOREM AdministratorsRemain == Spec => []AnAdminRemains
<1>1. IInv => AnAdminRemains
  BY DEF IInv
<1> QED
  BY <1>1, Invariance, PTL
===============================================================================
