------------------------------- MODULE Listings -------------------------------
(***************************************************************************)
(* What people see of the shared links: the resolution of a keyword, the   *)
(* search and the lists of the pages, the queues of the moderators and     *)
(* who of them is mailed (internal/db/{resolve,links,                      *)
(* link_edit_requests,users}.go, the handlers that choose among their      *)
(* queries, and internal/email/notifications.go).                          *)
(*                                                                         *)
(* Each list is a query of its own; the properties say that they agree in  *)
(* every state that submission, review and deletion can reach.             *)
(*                                                                         *)
(* Search words, LIMIT, OFFSET, the order of a page and health filters are *)
(* left out.  A page and its total are two calls and may differ when a     *)
(* request commits in between; here both see one state.                    *)
(***************************************************************************)
EXTENDS Moderation

\* Who asks for a keyword: a session or none, an organization, personal links.
Readers == [signedIn : {TRUE}, org : Orgs \cup {Nobody},
            personal : {P \in SUBSET Keywords : IsFiniteSet(P)}]
Anonymous == [signedIn |-> FALSE, org |-> Nobody, personal |-> {}]

\* Who opens the pages of moderation and management: roles and organizations
\* change, so that every user may come with every role.
Members == [id : Users, role : {"user", "org_mod", "global_mod", "admin"},
            org : Orgs \cup {Nobody}]

Of == INSTANCE Roles WITH
  Users <- Members,
  Role <- [m \in Members |-> m.role],
  Organization <- [m \in Members |-> m.org]

IsOrgLink(l) == links[l].scope # Global
LinksIn(status, scope) == {l \in Links : links[l].status = status /\ links[l].scope = scope}

-----------------------------------------------------------------------------
(* Resolution and search.                                                  *)

\* A row of user_links has the keyword as its id: a reader has one per keyword.
PersonalRow(k) == [source |-> "personal", keyword |-> k, id |-> k]
SharedRow(l) == [source |-> IF IsOrgLink(l) THEN "org" ELSE "global",
                 keyword |-> links[l].keyword, id |-> l]

PersonalRows(r) == {PersonalRow(k) : k \in r.personal}
ApprovedRows(scope) == {SharedRow(l) : l \in LinksIn("approved", scope)}
WithKeyword(rows, k) == {x \in rows : x.keyword = k}

Priority == [personal |-> 1, org |-> 2, global |-> 3]

\* Mutant of OrgCandidates: the status of the link is forgotten.
OrgCandidatesOfAnyStatus(o) == {SharedRow(l) : l \in {m \in Links : Exists(m) /\ links[m].scope = o}}
OrgCandidates(o) == ApprovedRows(o)

\* The rows of the UNION ALL, one statement for each kind of reader ...
Candidates(r) ==
  CASE ~r.signedIn                  -> ApprovedRows(Global)
    [] r.signedIn /\ r.org # Nobody -> PersonalRows(r) \cup OrgCandidates(r.org)
                                         \cup ApprovedRows(Global)
    [] r.signedIn /\ r.org = Nobody -> PersonalRows(r) \cup ApprovedRows(Global)

\* ... of which ORDER BY priority LIMIT 1 leaves one of the first.
ResolveKeywordForUser(r, k) ==
  {x \in WithKeyword(Candidates(r), k) :
     \A y \in WithKeyword(Candidates(r), k) : Priority[x.source] <= Priority[y.source]}

\* The scope filter that SearchApprovedLinks and CountApprovedLinks repeat.
Matches(l, o, scope) ==
  \/ ~IsOrgLink(l) /\ scope \in {"all", "global"}
  \/ IsOrgLink(l) /\ o # Nobody /\ links[l].scope = o /\ scope \in {"all", "org"}

SearchApprovedLinks(o, scope) ==
  {SharedRow(l) : l \in {m \in Links : links[m].status = "approved" /\ Matches(m, o, scope)}}

\* Mutant of CountApprovedLinks: links of every status.
CountLinks(o, scope) == Cardinality({l \in Links : Exists(l) /\ Matches(l, o, scope)})

CountApprovedLinks(o, scope) ==
  Cardinality({l \in Links : links[l].status = "approved" /\ Matches(l, o, scope)})

SearchLinksForUser(r) ==
  PersonalRows(r)
    \cup {SharedRow(l) : l \in {m \in Links : links[m].status = "approved"
                                  /\ (~IsOrgLink(m) \/ (r.org # Nobody /\ links[m].scope = r.org))}}

\* Search and Suggest; List of the API searches without personal links.
Search(r, EnablePersonalLinks) ==
  IF r.signedIn /\ EnablePersonalLinks THEN SearchLinksForUser(r)
  ELSE SearchApprovedLinks(r.org, "all")

\* Top, newest and random links of the home page, the target of /random and the
\* similar keywords of the not-found page: all choose among these.
Discoverable(o) ==
  {SharedRow(l) : l \in {m \in Links : links[m].status = "approved"
                           /\ (~IsOrgLink(m) \/ (o # Nobody /\ links[m].scope = o))}}

\* Browse: a tab that makes no sense for the reader shows all.
Tab(r, scope) ==
  IF (scope = "org" /\ r.org = Nobody) \/ (scope = "personal" /\ ~r.signedIn) THEN "all" ELSE scope

BrowseRows(r, scope) ==
  IF Tab(r, scope) = "personal" THEN PersonalRows(r) ELSE SearchApprovedLinks(r.org, Tab(r, scope))

BrowseTotal(r, scope) ==
  IF Tab(r, scope) = "personal" THEN Cardinality(r.personal)
  ELSE CountApprovedLinks(r.org, Tab(r, scope))

\* CheckKeyword, of the form and of the API: is the keyword said to exist?
SaidToExist(r, k, scope) ==
  \/ scope = "personal" /\ r.signedIn /\ k \in r.personal
  \/ scope = "org" /\ r.signedIn /\ r.org # Nobody /\ WithKeyword(ApprovedRows(r.org), k) # {}
  \/ scope = "global" /\ WithKeyword(ApprovedRows(Global), k) # {}

-----------------------------------------------------------------------------
(* The queues of the moderators and who is told about them.                *)

ModeratesOwnOrg(m) == Of!IsOrgMod(m) /\ ~Of!IsGlobalMod(m) /\ m.org # Nobody

\* Mutant of PendingOrgLinks: the links of all organizations.
AllPendingOrgLinks(o) == {l \in Links : links[l].status = "pending" /\ IsOrgLink(l)}
PendingOrgLinks(o) == LinksIn("pending", o)

\* ModerationHandler.Index and ListPending of the API.
PendingQueue(m) ==
  CASE Of!IsGlobalMod(m) ->
         LinksIn("pending", Global) \cup {l \in Links : links[l].status = "pending" /\ IsOrgLink(l)}
    [] ModeratesOwnOrg(m) -> PendingOrgLinks(m.org)
    [] OTHER -> {}

GetPendingDeletionRequests(m) ==
  CASE Of!IsGlobalMod(m) -> {l \in Links : links[l].status = "deletion_requested"}
    [] ModeratesOwnOrg(m) ->
         LinksIn("deletion_requested", m.org)
    [] OTHER -> {}

\* GetPendingEditRequests: the links whose edit requests are in the queue.
LinksOfEditQueue(m) ==
  CASE Of!IsGlobalMod(m) -> {l \in Links : Exists(l)}
    [] ModeratesOwnOrg(m) ->
         {l \in Links : Exists(l) /\ links[l].scope = m.org}
    [] OTHER -> {}

\* ApproveEdit and RejectEdit decide an edit of a link of any scope: unlike the other
\* decisions they do not ask canModerate.
MayDecideEdits(m) == Of!IsOrgMod(m)

\* GetGlobalModeratorEmails and GetOrgModeratorEmails, which the notifier picks.
IsMailed(m, scope) ==
  IF scope = Global THEN m.role \in {"admin", "global_mod"}
  ELSE m.role \in {"admin", "global_mod"} \/ (m.role = "org_mod" /\ m.org = scope)

-----------------------------------------------------------------------------
(* Management.                                                             *)

InScope(l, scope) ==
  scope = "all" \/ (scope = "global" /\ ~IsOrgLink(l)) \/ (scope = "org" /\ IsOrgLink(l))

Live(l) == links[l].status \in {"approved", "deletion_requested"}

\* Mutant of Authored: links of any status that the user submitted.
AuthoredOrSubmitted(u) == {l \in Links : Exists(l) /\ u \in {links[l].createdBy, links[l].submittedBy}}

Authored(u) ==
  {l \in Links : Exists(l) /\ (links[l].createdBy = u
     \/ (links[l].submittedBy = u /\ links[l].status \in {"pending", "deletion_requested"}))}

GetLinksForManagement(m, scope) ==
  {l \in CASE Of!IsGlobalMod(m) -> {k \in Links : Live(k)}
           [] ModeratesOwnOrg(m) ->
                {k \in Links : Live(k) /\ links[k].scope = m.org}
           [] OTHER -> Authored(m.id) :
     InScope(l, scope)}

CountLinksForManagement(m, scope) ==
  Cardinality(
    {l \in Links : InScope(l, scope) /\
       CASE Of!IsGlobalMod(m) -> Live(l)
         [] ModeratesOwnOrg(m) ->
              Live(l) /\ links[l].scope = m.org
         [] OTHER -> l \in Authored(m.id)})

\* canManageLink and the check of Delete, for any role.
MayManage(m, l) == Of!CanModerate(m, links[l].scope) \/ links[l].createdBy = m.id
MayDelete(m, l) == Of!CanModerate(m, links[l].scope)
                     \/ (links[l].status = "pending" /\ links[l].submittedBy = m.id)

-----------------------------------------------------------------------------
(* Properties.                                                             *)

\* Resolution and the lists are written separately and agree: at most one link
\* answers a keyword; it is among the results of the search, and first there in
\* the order personal, organization, global; what is searched, discovered or
\* previewed to a bot resolves for who sees it.  Without personal links the
\* search misses personal links only, though these still resolve.
ResolutionAgreesWithSearch ==
  \A r \in Readers \cup {Anonymous}, k \in Keywords :
    LET answer == ResolveKeywordForUser(r, k)
        shown  == WithKeyword(Search(r, TRUE), k)
    IN /\ Cardinality(answer) <= 1
       /\ answer \subseteq shown
       /\ \A x \in shown : \E y \in answer : Priority[y.source] <= Priority[x.source]
       /\ WithKeyword(Discoverable(r.org), k) \cup ResolveKeywordForUser(Anonymous, k) # {} => answer # {}
       /\ \A x \in answer : x.source # "personal" => x \in Search(r, FALSE)

\* The tabs and the totals of Browse are further copies of the same conditions:
\* "all" is what "global" and "org" show together, a total counts what the
\* pages list, and a keyword said to exist is listed under that tab and taken.
BrowseIsConsistent ==
  \A r \in Readers \cup {Anonymous} :
    /\ \A scope \in {"all", "global", "org", "personal"} :
         Cardinality(BrowseRows(r, scope)) = BrowseTotal(r, scope)
    /\ BrowseRows(r, "all") = BrowseRows(r, "global")
                                \cup (IF r.org = Nobody THEN {} ELSE BrowseRows(r, "org"))
    /\ \A k \in Keywords, scope \in {"global", "org", "personal"} :
         SaidToExist(r, k, scope) =>
           /\ WithKeyword(BrowseRows(r, scope), k) # {}
           /\ scope = "global" => ~Free(k, Global)
           /\ scope = "org" => ~Free(k, r.org)

\* A moderator finds in the queues of submissions and deletions exactly what the
\* handlers let him decide, and is mailed about the links of exactly these scopes:
\* nothing waits where nobody who is told may decide, whatever role and organization
\* he has.  Of edit requests he finds those of the links he is mailed about, and may
\* decide them; but the handlers let every moderator of an organization decide all
\* others too, so that here the queue is only a part of what he may do.
QueuesMatchPermissions ==
  \A m \in Members, l \in Links : Exists(l) =>
    LET may == Of!CanModerate(m, links[l].scope) IN
    /\ l \in PendingQueue(m) <=> may /\ links[l].status = "pending"
    /\ l \in GetPendingDeletionRequests(m) <=> may /\ links[l].status = "deletion_requested"
    /\ IsMailed(m, links[l].scope) <=> may
    /\ l \in LinksOfEditQueue(m) <=> IsMailed(m, links[l].scope) /\ MayDecideEdits(m)

\* Whatever the management page lists, its reader may manage or, while it is
\* pending, delete; whatever live link he may manage is listed, but for the
\* links that moderators of an organization wrote outside of it; and the total
\* counts what is listed.
ManagementListsWhatItManages ==
  \A m \in Members, scope \in {"all", "global", "org"} :
    LET page == GetLinksForManagement(m, scope) IN
    /\ Cardinality(page) = CountLinksForManagement(m, scope)
    /\ \A l \in page : MayManage(m, l) \/ (links[l].status = "pending" /\ MayDelete(m, l))
    /\ \A l \in Links : Live(l) /\ InScope(l, scope) /\ MayManage(m, l) =>
         \/ l \in page
         \/ m.role = "org_mod" /\ m.org # Nobody /\ links[l].scope # m.org
=============================================================================
