---------------------------- MODULE ListingsProofs ----------------------------
(***************************************************************************)
(* Proofs about Listings, about who deletes links and about the limit of   *)
(* pending requests, for any users, organizations, roles and links.        *)
(***************************************************************************)
EXTENDS Listings, ModerationProofs, FiniteSetTheorems

-----------------------------------------------------------------------------
(* What the rows of links have in common, whatever list they are on.       *)

\* The unique indexes: a keyword has one row in a scope.
OneLinkPerPlace ==
  \A l, m \in Links :
    Exists(l) /\ Exists(m) /\ links[l].keyword = links[m].keyword
      /\ links[l].scope = links[m].scope => l = m

\* Which of the two columns of authors are set, by status.
AuthorKnown(l) ==
  /\ links[l].status \in {"pending", "rejected"} =>
       links[l].createdBy = Nobody /\ links[l].submittedBy \in Users
  /\ links[l].status \in {"approved", "deletion_requested"} =>
       links[l].createdBy \in Users /\ links[l].submittedBy \in {Nobody, links[l].createdBy}

\* Who may be about to delete a link keeps the permission he had.
Deleter(t) ==
  t.pc = "delete" =>
    /\ t.subject \in Links /\ links[t.subject].status # "none"
    /\ t.user \in Moderators(links[t.subject].scope) \cup {links[t.subject].submittedBy}

RowsInv == OneLinkPerPlace /\ (\A l \in Links : AuthorKnown(l)) /\ \A h \in Handlers : Deleter(handler[h])

LEMMA ExistingRow ==
  ASSUME TypeOK, NEW l \in Links, Exists(l)
  PROVE  /\ links[l] \in LinkRows /\ links[l].keyword \in Keywords /\ links[l].scope \in Scopes
         /\ links[l].status \in {"pending", "approved", "rejected", "deletion_requested"}
         /\ links[l].createdBy \in Person /\ links[l].submittedBy \in Person
  BY RowType DEF Exists, LinkRows

LEMMA NewLinkFields ==
  \A st, k, s, c, u :
    /\ NewLink(st, k, s, c, u).status = st /\ NewLink(st, k, s, c, u).keyword = k
    /\ NewLink(st, k, s, c, u).scope = s /\ NewLink(st, k, s, c, u).createdBy = c
    /\ NewLink(st, k, s, c, u).submittedBy = u
  BY DEF NewLink

\* A step of the link l leaves all others alone.
LEMMA OthersStay ==
  ASSUME TypeOK, NEW l \in Links, LinkMoves(l)
  PROVE  \A m \in Links \ {l} : links'[m] = links[m]
  BY DEF LinkMoves, Added, Moved, Becomes, TypeOK

LEMMA OnePlaceStep ==
  ASSUME TypeOK, OneLinkPerPlace, [Next]_vars
  PROVE  OneLinkPerPlace'
<1>1. CASE UNCHANGED links
  BY <1>1 DEF OneLinkPerPlace, Exists
<1>2. ASSUME NEW l \in Links, LinkMoves(l)
      PROVE  OneLinkPerPlace'
  <2>1. \A m \in Links \ {l} : links'[m] = links[m]
    BY <1>2, OthersStay
  <2>2. CASE Added(l, "approved") \/ Added(l, "pending")
    <3>1. PICK k \in Keywords, s \in Scopes :
            Free(k, s) /\ links'[l].keyword = k /\ links'[l].scope = s
      BY <2>2, NewLinkFields DEF Added
    <3>2. \A m \in Links \ {l} : Exists(m) => ~(links[m].keyword = k /\ links[m].scope = s)
      BY <3>1 DEF Free
    <3> QED BY <2>1, <3>1, <3>2 DEF OneLinkPerPlace, Exists
  <2>3. CASE Exists(l) /\ KeepsOrigin(l)
    BY <2>1, <2>3 DEF OneLinkPerPlace, Exists, KeepsOrigin
  <2> QED BY <1>2, <2>2, <2>3 DEF LinkMoves, Moved, Exists
<1> QED BY <1>1, <1>2, LinksStep DEF LinksMove

LEMMA AuthorStep ==
  ASSUME TypeOK, NEW l \in Links, AuthorKnown(l), [Next]_vars
  PROVE  AuthorKnown(l)'
<1>1. CASE links'[l] = links[l]
  BY <1>1 DEF AuthorKnown
<1>2. CASE LinkMoves(l)
  <2>1. CASE Added(l, "approved") \/ Added(l, "pending")
    <3>1. PICK u \in Users, k \in Keywords, s \in Scopes :
            \/ links'[l] = NewLink("approved", k, s, u, Nobody)
            \/ links'[l] = NewLink("pending", k, s, Nobody, u)
      BY <2>1 DEF Added
    <3>2. CASE links'[l] = NewLink("approved", k, s, u, Nobody)
      BY <3>2, NewLinkFields DEF AuthorKnown
    <3>3. CASE links'[l] = NewLink("pending", k, s, Nobody, u)
      BY <3>3, NewLinkFields DEF AuthorKnown
    <3> QED BY <3>1, <3>2, <3>3
  <2>2. CASE ~(Added(l, "approved") \/ Added(l, "pending"))
    BY <1>2, <2>2, NobodyIsNoId DEF LinkMoves, Moved, Becomes, KeepsOrigin, AuthorKnown
  <2> QED BY <2>1, <2>2
<1>3. ASSUME NEW m \in Links, m # l, LinkMoves(m)
      PROVE  links'[l] = links[l]
  BY <1>3, OthersStay
<1> QED BY <1>1, <1>2, <1>3, LinksStep DEF LinksMove

\* A link that was created keeps its scope and its submitter.
LEMMA OriginStays ==
  ASSUME TypeOK, NEW l \in Links, links[l].status # "none", [Next]_vars
  PROVE  /\ links'[l].status # "none" /\ links'[l].scope = links[l].scope
         /\ links'[l].submittedBy = links[l].submittedBy
<1>1. CASE links'[l] = links[l]
  BY <1>1
<1>2. CASE LinkMoves(l)
  BY <1>2 DEF LinkMoves, Added, Moved, Becomes, KeepsOrigin
<1>3. ASSUME NEW m \in Links, m # l, LinkMoves(m)
      PROVE  links'[l] = links[l]
  BY <1>3, OthersStay
<1> QED BY <1>1, <1>2, <1>3, LinksStep DEF LinksMove

\* What a handler does next it did before, or has just begun.
LEMMA BegunStep ==
  ASSUME TypeOK, [Next]_vars, NEW g \in Handlers, handler'[g] # handler[g],
         handler'[g].pc \notin {"idle", "tell approved", "tell rejected", "announce edit"}
  PROVE  \E u \in Users : Request(g, u)
<1>1. ASSUME NEW h \in Handlers, Finish(h)
      PROVE  FALSE
  BY <1>1, FinishType, IdlePc
<1>2. ASSUME NEW h \in Handlers, NEW pc \in {"tell approved", "tell rejected", "announce edit"},
             GoOn(h, pc), handler[h].pc \in LinkPcs
      PROVE  FALSE
  <2>1. CASE g # h
    BY <1>2, <2>1 DEF GoOn, TypeOK
  <2>2. CASE g = h
    <3>1. pc \in LinkPcs
      BY DEF LinkPcs
    <3> QED BY <1>2, <2>2, <3>1, GoOnType
  <2> QED BY <2>1, <2>2
<1>3. ASSUME NEW h \in Handlers, Continue(h)
      PROVE  FALSE
  <2>1. CASE WithdrawNotices(h)
    BY <1>2, <2>1 DEF WithdrawNotices, LinkPcs
  <2>2. CASE CreateEditRequest(h)
    <3>1. Finish(h) \/ (GoOn(h, "announce edit") /\ handler[h].pc \in LinkPcs)
      BY <2>2 DEF CreateEditRequest, LinkPcs
    <3> QED BY <1>1, <1>2, <3>1
  <2> QED BY <1>1, <1>3, <2>1, <2>2 DEF Continue, AnnounceLink, TellSubmitter,
          RequestLinkDeletion, DeleteLink, AnnounceEdit, ApproveEditRequest
<1>4. ASSUME NEW h \in Handlers, NEW u \in Users, Request(h, u)
      PROVE  h = g
  <2>1. UNCHANGED handler \/ \E x, pc : Begin(h, pc, u, x)
    BY <1>4 DEF Request, CreateGlobalLink, CreateOrgLink, Approve, Reject, Delete,
       RequestDeletion, RequestEdit, SubmitSuggestEdit, ApproveEdit
  <2> QED BY <2>1 DEF Begin, TypeOK
<1>5. ASSUME NEW u \in Users, SingleCall(u)
      PROVE  FALSE
  BY <1>5 DEF SingleCall, ApiCreateGlobalLink, ApiCreateOrgLink, ApiApprove, ApiReject,
              ApproveDeletion, RejectDeletion, RejectEdit
<1> QED BY <1>1, <1>3, <1>4, <1>5 DEF Next, Fail, DeleteNotification, vars

LEMMA BeginPc ==
  ASSUME TypeOK, NEW h \in Handlers, NEW pc, NEW u, NEW x, Begin(h, pc, u, x)
  PROVE  handler'[h].pc = pc /\ handler'[h].user = u /\ handler'[h].subject = x
  BY DEF Begin, TypeOK

\* A handler that is about to delete was before, or has just checked.
LEMMA DeletersStep ==
  ASSUME TypeOK, [Next]_vars, NEW g \in Handlers, handler'[g].pc = "delete"
  PROVE  handler'[g] = handler[g] \/ \E u \in Users, l \in Links : Delete(g, u, l)
<1> SUFFICES ASSUME handler'[g] # handler[g]
             PROVE  \E u \in Users, l \in Links : Delete(g, u, l)
  OBVIOUS
<1>1. PICK u \in Users : Request(g, u)
  BY BegunStep
<1>2. CASE ~ \E l \in Links : Delete(g, u, l)
  <2>1. UNCHANGED handler \/ \E x, pc : pc # "delete" /\ Begin(g, pc, u, x)
    BY <1>1, <1>2 DEF Request, CreateGlobalLink, CreateOrgLink, Approve, Reject,
       RequestDeletion, RequestEdit, SubmitSuggestEdit, ApproveEdit
  <2> QED BY <2>1, BeginPc
<1> QED BY <1>2

LEMMA DeleterStep ==
  ASSUME TypeOK, [Next]_vars, NEW g \in Handlers, Deleter(handler[g])
  PROVE  Deleter(handler[g])'
<1> SUFFICES ASSUME handler'[g].pc = "delete" PROVE Deleter(handler[g])'
  BY DEF Deleter
<1>1. CASE handler'[g] = handler[g]
  BY <1>1, OriginStays DEF Deleter, Moderators, CanModerate, CanModerateOrg, IsGlobalMod
<1>2. ASSUME NEW u \in Users, NEW l \in Links, Delete(g, u, l)
      PROVE  Deleter(handler[g])'
  <2>1. handler'[g].subject = l /\ handler'[g].user = u /\ links' = links
    BY <1>2 DEF Delete, Begin, TypeOK
  <2>2. links[l].status # "none" /\ u \in Moderators(links[l].scope) \cup {links[l].submittedBy}
    BY <1>2 DEF Delete, CanDelete, Exists, Moderators
  <2> QED BY <2>1, <2>2 DEF Deleter, Moderators, CanModerate, CanModerateOrg, IsGlobalMod
<1> QED BY <1>1, <1>2, DeletersStep

LEMMA RowsInvariant == Spec => [](TypeOK /\ RowsInv)
<1>1. Init => RowsInv
  BY DEF Init, RowsInv, OneLinkPerPlace, Exists, AuthorKnown, Deleter, NoLink, Idle
<1>2. TypeOK /\ RowsInv /\ [Next]_vars => RowsInv'
  BY OnePlaceStep, AuthorStep, DeleterStep DEF RowsInv
<1> QED BY <1>1, <1>2, TypeCorrect, PTL DEF Spec

-----------------------------------------------------------------------------
(* Deletion.                                                               *)

LEMMA RemovalStep ==
  ASSUME TypeOK, NEW l \in Links, Exists(l), links'[l].status = "deleted", [Next]_vars
  PROVE  \/ links[l].status = "deletion_requested" /\ UNCHANGED handler
         \/ \E h \in Handlers : DeleteLink(h) /\ handler[h].subject = l
<1>1. ASSUME NEW m \in Links, NEW st, st # "deleted", Becomes(m, st)
      PROVE  FALSE
  BY <1>1 DEF Becomes, TypeOK, Exists
<1>2. ~UNCHANGED links
  BY DEF Exists
<1>3. ASSUME NEW m \in Links, Remove(m) PROVE m = l
  BY <1>3 DEF Remove, Exists, TypeOK
<1>4. ASSUME NEW m \in Links, NEW u \in Users, NEW k \in Keywords, NEW s \in Scopes,
             CreateLink(m, u, k, s) \/ SubmitLinkForApproval(m, u, k, s)
      PROVE  FALSE
  BY <1>1, <1>4, CreateLinkEffect, SubmitLinkEffect
<1>5. ASSUME NEW m \in Links, NEW u \in Users, ApproveLink(m, u) \/ RejectLink(m, u)
      PROVE  FALSE
  BY <1>1, <1>5, ApproveLinkEffect, RejectLinkEffect
<1>6. ASSUME NEW h \in Handlers, Continue(h)
      PROVE  \E g \in Handlers : DeleteLink(g) /\ handler[g].subject = l
  <2>1. CASE DeleteLink(h)
    <3>1. handler[h].subject \in Links
      BY <2>1, LinkTaskType DEF DeleteLink, LinkPcs
    <3> QED BY <1>2, <1>3, <2>1, <3>1 DEF DeleteLink
  <2>2. CASE RequestLinkDeletion(h)
    <3>1. handler[h].subject \in Links
      BY <2>2, LinkTaskType DEF RequestLinkDeletion, LinkPcs
    <3> QED BY <1>1, <1>2, <2>2, <3>1, RequestLinkDeletionEffect DEF RequestLinkDeletion
  <2> QED BY <1>2, <1>6, <2>1, <2>2 DEF Continue, AnnounceLink, WithdrawNotices, TellSubmitter,
          CreateEditRequest, AnnounceEdit, ApproveEditRequest
<1>7. ASSUME NEW h \in Handlers, NEW u \in Users, Request(h, u)
      PROVE  FALSE
  <2>1. Global \in Scopes /\ Orgs \subseteq Scopes
    BY DEF Scopes
  <2> QED BY <1>2, <1>4, <1>5, <1>7, <2>1 DEF Request, CreateGlobalLink, CreateOrgLink, Approve, Reject,
          Delete, RequestDeletion, RequestEdit, SubmitSuggestEdit, ApproveEdit
<1>8. ASSUME NEW u \in Users, SingleCall(u)
      PROVE  links[l].status = "deletion_requested" /\ UNCHANGED handler
  <2>1. Global \in Scopes /\ Orgs \subseteq Scopes
    BY DEF Scopes
  <2>2. ASSUME NEW m \in Links, RejectDeletion(u, m) PROVE FALSE
    BY <1>1, <2>2, RejectDeletionEffect
  <2>3. ASSUME NEW m \in Links, ApproveDeletion(u, m)
        PROVE  links[l].status = "deletion_requested" /\ UNCHANGED handler
    BY <1>3, <2>3 DEF ApproveDeletion
  <2> QED BY <1>2, <1>4, <1>5, <1>8, <2>1, <2>2, <2>3 DEF SingleCall, ApiCreateGlobalLink,
          ApiCreateOrgLink, ApiApprove, ApiReject, RejectEdit
<1> QED BY <1>2, <1>6, <1>7, <1>8 DEF Next, Fail, DeleteNotification, vars

\* No link goes without a granted request, a moderator of its scope or its own
\* submitter, however stale the check of LinkHandler.Delete has become.
THEOREM DeletionsAreAuthorized == Spec => DeletionIsAuthorized
<1> DEFINE Step == \A l \in Links : Exists(l) /\ links'[l].status = "deleted" =>
       \/ links[l].status = "deletion_requested" /\ UNCHANGED handler
       \/ \E h \in Handlers :
            /\ handler[h].pc = "delete" /\ handler[h].subject = l /\ handler'[h] = Idle
            /\ handler[h].user \in Moderators(links[l].scope) \cup {links[l].submittedBy}
<1>1. ASSUME TypeOK, RowsInv, [Next]_vars PROVE Step
  <2>1. ASSUME NEW l \in Links, NEW h \in Handlers, DeleteLink(h), handler[h].subject = l
        PROVE  /\ handler[h].pc = "delete" /\ handler'[h] = Idle
               /\ handler[h].user \in Moderators(links[l].scope) \cup {links[l].submittedBy}
    <3>1. handler[h].pc = "delete" /\ Finish(h)
      BY <2>1 DEF DeleteLink
    <3>2. handler'[h] = Idle
      BY <1>1, <3>1, FinishType
    <3> QED BY <1>1, <2>1, <3>1, <3>2 DEF RowsInv, Deleter
  <2> QED BY <1>1, <2>1, RemovalStep
<1>2. TypeOK /\ RowsInv /\ [Next]_vars => [Step]_vars
  BY <1>1
<1> QED BY <1>2, RowsInvariant, PTL DEF Spec, DeletionIsAuthorized

-----------------------------------------------------------------------------
(* Moderators and their queues.                                            *)

LEMMA MemberShape ==
  ASSUME NEW m \in Members
  PROVE  /\ m.id \in Users /\ m.org \in Orgs \cup {Nobody}
         /\ m.role \in {"user", "org_mod", "global_mod", "admin"}
  BY DEF Members

LEMMA ScopeShape ==
  /\ Nobody \notin Scopes /\ Nobody \notin Users /\ Global \notin Orgs /\ Nobody # Global
  /\ \A s \in Scopes : s # Global <=> s \in Orgs
  BY RolesAssumption DEF Scopes

\* The checks in terms of role and organization.
LEMMA MemberRights ==
  ASSUME NEW m \in Members
  PROVE  /\ Of!IsGlobalMod(m) <=> m.role \in {"global_mod", "admin"}
         /\ ModeratesOwnOrg(m) <=> m.role = "org_mod" /\ m.org # Nobody
         /\ \A s : Of!CanModerate(m, s) <=>
              m.role \in {"global_mod", "admin"} \/ (s # Global /\ m.role = "org_mod" /\ m.org = s)
<1>1. Of!IsGlobalMod(m) <=> m.role \in {"global_mod", "admin"}
  BY DEF Of!IsGlobalMod
<1>2. Of!IsOrgMod(m) <=> m.role \in {"org_mod", "global_mod", "admin"}
  BY DEF Of!IsOrgMod
<1>3. \A s : Of!CanModerateOrg(m, s) <=>
        m.role \in {"global_mod", "admin"} \/ (m.role = "org_mod" /\ m.org = s)
  BY <1>1 DEF Of!CanModerateOrg
<1> QED BY <1>1, <1>2, <1>3 DEF Of!CanModerate, ModeratesOwnOrg

\* Whoever moderates something may decide edits, of everything.
LEMMA MemberMayDecideEdits ==
  ASSUME NEW m \in Members
  PROVE  MayDecideEdits(m) <=> m.role \in {"org_mod", "global_mod", "admin"}
  BY DEF MayDecideEdits, Of!IsOrgMod

LEMMA QueuesStep ==
  ASSUME TypeOK
  PROVE  QueuesMatchPermissions
<1> SUFFICES ASSUME NEW m \in Members, NEW l \in Links, Exists(l)
             PROVE  LET may == Of!CanModerate(m, links[l].scope) IN
                    /\ l \in PendingQueue(m) <=> may /\ links[l].status = "pending"
                    /\ l \in GetPendingDeletionRequests(m) <=> may /\ links[l].status = "deletion_requested"
                    /\ IsMailed(m, links[l].scope) <=> may
                    /\ l \in LinksOfEditQueue(m) <=>
                         IsMailed(m, links[l].scope) /\ MayDecideEdits(m)
  BY DEF QueuesMatchPermissions
<1> DEFINE may == Of!CanModerate(m, links[l].scope)
<1>1. links[l].scope \in Scopes
  BY ExistingRow
<1>2. /\ Of!IsGlobalMod(m) => ~ModeratesOwnOrg(m)
      /\ Of!IsGlobalMod(m) => may
      /\ ModeratesOwnOrg(m) => (may <=> links[l].scope = m.org) /\ m.org # Global
      /\ ~Of!IsGlobalMod(m) /\ ~ModeratesOwnOrg(m) => ~may
  BY <1>1, MemberShape, MemberRights, ScopeShape
<1> HIDE DEF may
<1>3. l \in PendingQueue(m) <=> may /\ links[l].status = "pending"
  BY <1>2 DEF PendingQueue, PendingOrgLinks, LinksIn, IsOrgLink
<1>4. l \in GetPendingDeletionRequests(m) <=> may /\ links[l].status = "deletion_requested"
  BY <1>2 DEF GetPendingDeletionRequests, LinksIn
<1>5. IsMailed(m, links[l].scope) <=> may
  BY <1>1, MemberShape, MemberRights, ScopeShape DEF IsMailed, may
<1>6. may => MayDecideEdits(m)
  BY <1>1, MemberRights, MemberMayDecideEdits DEF may
<1>7. l \in LinksOfEditQueue(m) <=> may
  BY <1>2 DEF LinksOfEditQueue
<1> QED BY <1>3, <1>4, <1>5, <1>6, <1>7 DEF may

LEMMA ManagementStep ==
  ASSUME TypeOK, RowsInv
  PROVE  ManagementListsWhatItManages
<1> SUFFICES ASSUME NEW m \in Members, NEW scope \in {"all", "global", "org"}
             PROVE  LET page == GetLinksForManagement(m, scope) IN
                    /\ Cardinality(page) = CountLinksForManagement(m, scope)
                    /\ \A l \in page : MayManage(m, l) \/ (links[l].status = "pending" /\ MayDelete(m, l))
                    /\ \A l \in Links : Live(l) /\ InScope(l, scope) /\ MayManage(m, l) =>
                         \/ l \in page
                         \/ m.role = "org_mod" /\ m.org # Nobody /\ links[l].scope # m.org
  BY DEF ManagementListsWhatItManages
<1> DEFINE page == GetLinksForManagement(m, scope)
           counted == {l \in Links : InScope(l, scope) /\
                         CASE Of!IsGlobalMod(m) -> Live(l)
                           [] ModeratesOwnOrg(m) -> Live(l) /\ links[l].scope = m.org
                           [] OTHER -> l \in Authored(m.id)}
<1>1. /\ Of!IsGlobalMod(m) => ~ModeratesOwnOrg(m)
      /\ ModeratesOwnOrg(m) <=> m.role = "org_mod" /\ m.org # Nobody
      /\ m.id \in Users
  BY MemberRights, MemberShape
<1>2. ASSUME NEW l \in Links, Exists(l)
      PROVE  /\ Of!IsGlobalMod(m) => MayManage(m, l)
             /\ ModeratesOwnOrg(m) /\ links[l].scope = m.org => MayManage(m, l)
             /\ MayManage(m, l) =>
                  \/ Of!IsGlobalMod(m)
                  \/ links[l].createdBy = m.id
                  \/ ModeratesOwnOrg(m) /\ links[l].scope = m.org
             /\ links[l].status = "pending" /\ links[l].submittedBy = m.id => MayDelete(m, l)
  <2>1. links[l].scope \in Scopes
    BY <1>2, ExistingRow
  <2>2. PICK may \in BOOLEAN : may <=> Of!CanModerate(m, links[l].scope)
    OBVIOUS
  <2>3. /\ Of!IsGlobalMod(m) => may
        /\ ModeratesOwnOrg(m) /\ links[l].scope = m.org => may
        /\ may => Of!IsGlobalMod(m) \/ (ModeratesOwnOrg(m) /\ links[l].scope = m.org)
    BY <2>1, <2>2, MemberRights, MemberShape, ScopeShape
  <2>4. MayManage(m, l) <=> may \/ links[l].createdBy = m.id
    BY <2>2 DEF MayManage
  <2>5. links[l].status = "pending" /\ links[l].submittedBy = m.id => MayDelete(m, l)
    BY DEF MayDelete
  <2> QED BY <2>3, <2>4, <2>5
<1>3. \A l \in Links : /\ l \in page <=> l \in counted
                       /\ l \in page <=> /\ InScope(l, scope)
                                        /\ \/ Of!IsGlobalMod(m) /\ Live(l)
                                           \/ ModeratesOwnOrg(m) /\ Live(l) /\ links[l].scope = m.org
                                           \/ ~Of!IsGlobalMod(m) /\ ~ModeratesOwnOrg(m) /\ l \in Authored(m.id)
  BY <1>1 DEF GetLinksForManagement
<1>4. page \subseteq Links /\ counted \subseteq Links
  BY DEF GetLinksForManagement, Authored
<1>5. page = counted
  BY <1>3, <1>4
<1>6. Cardinality(page) = CountLinksForManagement(m, scope)
  BY <1>5 DEF CountLinksForManagement
<1> HIDE DEF page, counted
<1>7. \A l \in page : MayManage(m, l) \/ (links[l].status = "pending" /\ MayDelete(m, l))
  <2> SUFFICES ASSUME NEW l \in page
               PROVE  MayManage(m, l) \/ (links[l].status = "pending" /\ MayDelete(m, l))
    OBVIOUS
  <2>1. l \in Links /\ Exists(l)
    BY <1>3, <1>4 DEF Live, Authored, Exists
  <2>2. CASE Of!IsGlobalMod(m) \/ ModeratesOwnOrg(m)
    BY <1>1, <1>2, <1>3, <2>1, <2>2
  <2>3. CASE l \in Authored(m.id)
    <3>1. links[l].createdBy = m.id => MayManage(m, l)
      BY DEF MayManage
    <3>2. links[l].status = "deletion_requested" /\ links[l].submittedBy = m.id
            => links[l].createdBy = m.id
      BY <1>1, <2>1, NobodyIsNoId DEF RowsInv, AuthorKnown
    <3> QED BY <1>2, <2>1, <2>3, <3>1, <3>2 DEF Authored
  <2> QED BY <1>3, <2>1, <2>2, <2>3
<1>8. ASSUME NEW l \in Links, Live(l), InScope(l, scope), MayManage(m, l)
      PROVE  l \in page \/ (m.role = "org_mod" /\ m.org # Nobody /\ links[l].scope # m.org)
  <2>1. Exists(l)
    BY <1>8 DEF Live, Exists
  <2>2. CASE Of!IsGlobalMod(m) \/ ModeratesOwnOrg(m)
    BY <1>1, <1>3, <1>8, <2>2
  <2>3. CASE ~Of!IsGlobalMod(m) /\ ~ModeratesOwnOrg(m)
    <3>1. links[l].createdBy = m.id
      BY <1>2, <1>8, <2>1, <2>3
    <3>2. l \in Authored(m.id)
      BY <2>1, <3>1 DEF Authored
    <3> QED BY <1>3, <1>8, <2>3, <3>2
  <2> QED BY <2>2, <2>3
<1> QED BY <1>6, <1>7, <1>8 DEF page

-----------------------------------------------------------------------------
(* The limit of pending requests.                                          *)

EditPcs == {"request edit", "suggest edit"}

PendingEdits(u) == {e \in Edits : edits[e].status = "pending" /\ edits[e].user = u}
Preparing(u) == {h \in Handlers : handler[h].pc \in EditPcs /\ handler[h].user = u}

\* Finitely many rows have been inserted.
FiniteRows ==
  /\ IsFiniteSet({l \in Links : links[l].status # "none"})
  /\ IsFiniteSet({e \in Edits : edits[e].status = "pending"})

LEMMA FiniteParts ==
  ASSUME FiniteRows, NEW u
  PROVE  /\ IsFiniteSet(PendingEdits(u)) /\ Cardinality(PendingEdits(u)) \in Nat
         /\ Preparing(u) \subseteq Handlers /\ IsFiniteSet(Preparing(u))
         /\ Cardinality(Preparing(u)) \in Nat /\ Cardinality(Handlers) \in Nat
         /\ Cardinality(Preparing(u)) <= Cardinality(Handlers)
<1>1. PendingEdits(u) \subseteq {e \in Edits : edits[e].status = "pending"}
  BY DEF PendingEdits
<1>2. Preparing(u) \subseteq Handlers /\ IsFiniteSet(Handlers)
  BY ModerationAssumption DEF Preparing
<1> QED BY <1>1, <1>2, FS_Subset, FS_CardinalityType DEF FiniteRows

\* Whoever begins an edit has fewer pending edits than the limit.
LEMMA RoomAtTheCheck ==
  ASSUME FiniteRows, NEW u, CountPendingRequestsByUser(u) < Limit
  PROVE  Cardinality(PendingEdits(u)) <= Limit - 1
<1> DEFINE A == {l \in Links : links[l].status = "pending" /\ links[l].submittedBy = u}
           B == {l \in Links : links[l].status = "deletion_requested" /\ links[l].createdBy = u}
<1>1. /\ A \subseteq {l \in Links : links[l].status # "none"}
      /\ B \subseteq {l \in Links : links[l].status # "none"}
  OBVIOUS
<1>2. Cardinality(A) \in Nat /\ Cardinality(B) \in Nat
  BY <1>1, FS_Subset, FS_CardinalityType DEF FiniteRows
<1>3. Cardinality(A) + Cardinality(B) + Cardinality(PendingEdits(u)) < Limit
  BY DEF CountPendingRequestsByUser, PendingEdits
<1> HIDE DEF A, B
<1> QED BY <1>2, <1>3, FiniteParts, ModerationAssumption

LEMMA PreparersStep ==
  ASSUME TypeOK, [Next]_vars, NEW g \in Handlers, handler'[g].pc \in EditPcs
  PROVE  \/ handler'[g] = handler[g]
         \/ CountPendingRequestsByUser(handler'[g].user) < Limit /\ UNCHANGED edits
<1> SUFFICES ASSUME handler'[g] # handler[g]
             PROVE  CountPendingRequestsByUser(handler'[g].user) < Limit /\ UNCHANGED edits
  OBVIOUS
<1>1. PICK u \in Users : Request(g, u)
  BY BegunStep DEF EditPcs
<1>2. CASE \E l \in Links : RequestEdit(g, u, l) \/ SubmitSuggestEdit(g, u, l)
  <2>1. CountPendingRequestsByUser(u) < Limit /\ UNCHANGED edits /\ \E pc, l : Begin(g, pc, u, l)
    BY <1>2 DEF RequestEdit, SubmitSuggestEdit
  <2> QED BY <2>1, BeginPc
<1>3. CASE ~ \E l \in Links : RequestEdit(g, u, l) \/ SubmitSuggestEdit(g, u, l)
  <2>1. UNCHANGED handler \/ \E x, pc : pc \notin EditPcs /\ Begin(g, pc, u, x)
    BY <1>1, <1>3 DEF Request, CreateGlobalLink, CreateOrgLink, Approve, Reject, Delete,
       RequestDeletion, ApproveEdit, EditPcs
  <2> QED BY <2>1, BeginPc
<1> QED BY <1>2, <1>3

\* One request is inserted, by a handler that has prepared it ...
Inserts(h, e) ==
  /\ handler[h].pc \in EditPcs /\ handler'[h].pc \notin EditPcs
  /\ \A g \in Handlers \ {h} : handler'[g] = handler[g]
  /\ edits'[e].user = handler[h].user
  /\ \A d \in Edits \ {e} : edits'[d] = edits[d]

\* ... and no other becomes pending.
NoneInserted == \A e \in Edits : edits'[e].status = "pending" => edits'[e] = edits[e]

LEMMA InsertionStep ==
  ASSUME TypeOK, ReviewedFound, [Next]_vars
  PROVE  NoneInserted \/ \E h \in Handlers, e \in Edits : Inserts(h, e)
<1>1. ASSUME UNCHANGED edits
      PROVE  NoneInserted
  BY <1>1 DEF NoneInserted
<1>2. ASSUME NEW l \in Links, Exists(l), Remove(l)
      PROVE  NoneInserted
  BY <1>2, RemoveEffect DEF NoneInserted
<1>3. ASSUME NEW h \in Handlers, Continue(h)
      PROVE  NoneInserted \/ \E e \in Edits : Inserts(h, e)
  <2>1. CASE DeleteLink(h)
    <3>1. handler[h].subject \in Links
      BY <2>1, LinkTaskType DEF DeleteLink, LinkPcs
    <3> QED BY <1>1, <1>2, <2>1, <3>1 DEF DeleteLink
  <2>2. CASE CreateEditRequest(h)
    <3> SUFFICES ASSUME ~UNCHANGED edits PROVE \E e \in Edits : Inserts(h, e)
      BY <1>1
    <3>1. PICK e \in Edits : edits' = [edits EXCEPT ![e] = NewEdit(handler[h].subject, handler[h].user)]
      BY <2>2 DEF CreateEditRequest
    <3>2. edits'[e].user = handler[h].user /\ \A d \in Edits \ {e} : edits'[d] = edits[d]
      BY <3>1 DEF NewEdit, TypeOK
    <3>3. /\ handler[h].pc \in EditPcs /\ handler[h].pc \in LinkPcs
          /\ Finish(h) \/ GoOn(h, "announce edit")
      BY <2>2 DEF CreateEditRequest, EditPcs, LinkPcs
    <3>4. handler'[h].pc \notin EditPcs /\ \A g \in Handlers \ {h} : handler'[g] = handler[g]
      <4>1. "announce edit" \in LinkPcs
        BY DEF LinkPcs
      <4> QED BY <3>3, <4>1, FinishType, GoOnType, IdlePc DEF EditPcs
    <3> QED BY <3>2, <3>3, <3>4 DEF Inserts
  <2>3. CASE ApproveEditRequest(h)
    <3> DEFINE e == handler[h].subject
    <3>1. e \in Edits /\ edits[e].status # "none"
      BY <2>3, EditTaskType DEF ApproveEditRequest, ReviewedFound
    <3>2. CASE edits[e].status = "deleted"
      BY <1>1, <2>3, <3>2 DEF ApproveEditRequest
    <3>3. CASE edits[e].status # "deleted"
      <4>1. edits'[e] = [edits[e] EXCEPT !.status = "approved", !.reviewedBy = handler[h].user]
        BY <2>3, <3>1, <3>3 DEF ApproveEditRequest, TypeOK
      <4>2. \A d \in Edits : d # e => edits'[d] = edits[d]
        BY <2>3, <3>1, <3>3 DEF ApproveEditRequest, TypeOK
      <4>3. edits'[e].status = "approved"
        BY <3>1, <4>1, EditRowType DEF EditRows
      <4> QED BY <4>2, <4>3 DEF NoneInserted
    <3> QED BY <3>2, <3>3
  <2> QED BY <1>1, <1>3, <2>1, <2>2, <2>3
      DEF Continue, AnnounceLink, AnnounceEdit, TellSubmitter, WithdrawNotices, RequestLinkDeletion
<1>4. ASSUME NEW u \in Users, SingleCall(u)
      PROVE  NoneInserted
  <2>1. ASSUME NEW l \in Links, ApproveDeletion(u, l) PROVE NoneInserted
    BY <1>2, <2>1 DEF ApproveDeletion, Exists
  <2>2. ASSUME NEW e \in Edits, RejectEdit(u, e) PROVE NoneInserted
    <3>1. edits[e].status = "pending"
          /\ edits'[e] = [edits[e] EXCEPT !.status = "rejected", !.reviewedBy = u]
      BY <2>2 DEF RejectEdit, RejectEditRequest, TypeOK
    <3>2. edits'[e].status = "rejected"
      BY <3>1, EditRowType DEF EditRows
    <3>3. \A d \in Edits : d # e => edits'[d] = edits[d]
      BY <2>2 DEF RejectEdit, RejectEditRequest, TypeOK
    <3> QED BY <3>2, <3>3 DEF NoneInserted
  <2> QED BY <1>1, <1>4, <2>1, <2>2
      DEF SingleCall, ApiCreateGlobalLink, ApiCreateOrgLink, ApiApprove, ApiReject, RejectDeletion
<1>5. ASSUME NEW h \in Handlers, NEW u \in Users, Request(h, u)
      PROVE  UNCHANGED edits
  BY <1>5 DEF Request, CreateGlobalLink, CreateOrgLink, Approve, Reject, Delete, RequestDeletion,
      RequestEdit, SubmitSuggestEdit, ApproveEdit
<1> QED BY <1>1, <1>3, <1>4, <1>5 DEF Next, Fail, DeleteNotification, vars

LEMMA FiniteStep ==
  ASSUME TypeOK, ReviewedFound, FiniteRows, [Next]_vars
  PROVE  FiniteRows'
<1> DEFINE C == {l \in Links : links[l].status # "none"}
           P == {e \in Edits : edits[e].status = "pending"}
<1>1. IsFiniteSet(C')
  <2>1. CASE UNCHANGED links
    BY <2>1 DEF FiniteRows
  <2>2. ASSUME NEW l \in Links, LinkMoves(l)
        PROVE  IsFiniteSet(C')
    <3>1. C' \subseteq C \cup {l}
      BY <2>2, OthersStay
    <3>2. IsFiniteSet(C \cup {l})
      BY FS_AddElement DEF FiniteRows
    <3> QED BY <3>1, <3>2, FS_Subset
  <2> QED BY <2>1, <2>2, LinksStep DEF LinksMove
<1>2. IsFiniteSet(P')
  <2>1. CASE NoneInserted
    <3>1. P' \subseteq P
      BY <2>1 DEF NoneInserted
    <3> QED BY <3>1, FS_Subset DEF FiniteRows
  <2>2. ASSUME NEW h \in Handlers, NEW e \in Edits, Inserts(h, e)
        PROVE  IsFiniteSet(P')
    <3>1. P' \subseteq P \cup {e}
      BY <2>2 DEF Inserts
    <3>2. IsFiniteSet(P \cup {e})
      BY FS_AddElement DEF FiniteRows
    <3> QED BY <3>1, <3>2, FS_Subset
  <2> QED BY <2>1, <2>2, InsertionStep
<1> QED BY <1>1, <1>2 DEF FiniteRows

Overshoot(u) == Cardinality(PendingEdits(u)) + Cardinality(Preparing(u))
                  <= Limit - 1 + Cardinality(Handlers)

LEMMA OvershootStep ==
  ASSUME TypeOK, ReviewedFound, FiniteRows, FiniteRows', NEW u \in Users, Overshoot(u), [Next]_vars
  PROVE  Overshoot(u)'
<1>1. /\ Cardinality(PendingEdits(u)) \in Nat /\ Cardinality(Preparing(u)) \in Nat
      /\ IsFiniteSet(PendingEdits(u)) /\ IsFiniteSet(Preparing(u))
      /\ Cardinality(Handlers) \in Nat /\ Limit \in Nat
  BY FiniteParts, ModerationAssumption
<1>2. /\ Cardinality(PendingEdits(u)') \in Nat /\ Cardinality(Preparing(u)') \in Nat
      /\ Cardinality(Preparing(u)') <= Cardinality(Handlers)
  <2>1. PendingEdits(u)' \subseteq {e \in Edits : edits'[e].status = "pending"}
    BY DEF PendingEdits
  <2>2. Preparing(u)' \subseteq Handlers /\ IsFiniteSet(Handlers)
    BY ModerationAssumption DEF Preparing
  <2>3. IsFiniteSet({e \in Edits : edits'[e].status = "pending"})
    BY DEF FiniteRows
  <2>4. IsFiniteSet(PendingEdits(u)')
    BY <2>1, <2>3, FS_Subset
  <2>5. IsFiniteSet(Preparing(u)') /\ Cardinality(Preparing(u)') <= Cardinality(Handlers)
    BY <2>2, FS_Subset
  <2> QED BY <2>4, <2>5, FS_CardinalityType
<1>3. Overshoot(u)' <=> Cardinality(PendingEdits(u)') + Cardinality(Preparing(u)')
                          <= Limit - 1 + Cardinality(Handlers)
  BY DEF Overshoot
<1>4. CASE NoneInserted
  <2>1. PendingEdits(u)' \subseteq PendingEdits(u)
    BY <1>4 DEF NoneInserted, PendingEdits
  <2>2. Cardinality(PendingEdits(u)') <= Cardinality(PendingEdits(u))
    BY <1>1, <2>1, FS_Subset
  <2>3. CASE Preparing(u)' \subseteq Preparing(u)
    <3>1. Cardinality(Preparing(u)') <= Cardinality(Preparing(u))
      BY <1>1, <2>3, FS_Subset
    <3> QED BY <1>1, <1>2, <1>3, <2>2, <3>1 DEF Overshoot
  <2>4. CASE ~(Preparing(u)' \subseteq Preparing(u))
    <3>1. PICK g \in Handlers : handler'[g].pc \in EditPcs /\ handler'[g].user = u
                                  /\ handler'[g] # handler[g]
      BY <2>4 DEF Preparing
    <3>2. CountPendingRequestsByUser(u) < Limit
      BY <3>1, PreparersStep
    <3>3. Cardinality(PendingEdits(u)) <= Limit - 1
      BY <3>2, RoomAtTheCheck
    <3> QED BY <1>1, <1>2, <1>3, <2>2, <3>3
  <2> QED BY <2>3, <2>4
<1>5. ASSUME NEW h \in Handlers, NEW e \in Edits, Inserts(h, e)
      PROVE  Overshoot(u)'
  <2>1. CASE handler[h].user = u
    <3>1. h \in Preparing(u) /\ Preparing(u)' \subseteq Preparing(u) \ {h}
      BY <1>5, <2>1 DEF Inserts, Preparing
    <3>2. IsFiniteSet(Preparing(u) \ {h})
          /\ Cardinality(Preparing(u) \ {h}) = Cardinality(Preparing(u)) - 1
      BY <1>1, <3>1, FS_RemoveElement
    <3>3. Cardinality(Preparing(u)') <= Cardinality(Preparing(u)) - 1
      BY <3>1, <3>2, FS_Subset
    <3>4. PendingEdits(u)' \subseteq PendingEdits(u) \cup {e}
      BY <1>5 DEF Inserts, PendingEdits
    <3>5. IsFiniteSet(PendingEdits(u) \cup {e})
          /\ Cardinality(PendingEdits(u) \cup {e}) <= Cardinality(PendingEdits(u)) + 1
      <4>1. ASSUME NEW P, IsFiniteSet(P)
            PROVE  /\ IsFiniteSet(P \cup {e})
                   /\ Cardinality(P \cup {e}) <= Cardinality(P) + 1
        <5>0. Cardinality(P) \in Nat
          BY <4>1, FS_CardinalityType
        <5>1. CASE e \in P
          <6>1. P \cup {e} = P
            BY <5>1
          <6>2. Cardinality(P \cup {e}) = Cardinality(P)
            BY <6>1
          <6>3. IsFiniteSet(P \cup {e})
            BY <4>1, <6>1
          <6> QED BY <5>0, <6>2, <6>3
        <5>2. CASE e \notin P
          <6>1. Cardinality(P \cup {e}) = Cardinality(P) + 1 /\ IsFiniteSet(P \cup {e})
            BY <4>1, <5>2, FS_AddElement
          <6> QED BY <5>0, <6>1
        <5> QED BY <5>1, <5>2
      <4> QED BY <1>1, <4>1
    <3>6. Cardinality(PendingEdits(u)') <= Cardinality(PendingEdits(u) \cup {e})
      BY <3>4, <3>5, FS_Subset
    <3>7. Cardinality(PendingEdits(u) \cup {e}) \in Nat
      BY <3>5, FS_CardinalityType
    <3> QED BY <1>1, <1>2, <1>3, <3>3, <3>5, <3>6, <3>7 DEF Overshoot
  <2>2. CASE handler[h].user # u
    <3>1. Preparing(u)' \subseteq Preparing(u) /\ PendingEdits(u)' \subseteq PendingEdits(u)
      BY <1>5, <2>2 DEF Inserts, Preparing, PendingEdits
    <3>2. /\ Cardinality(Preparing(u)') <= Cardinality(Preparing(u))
          /\ Cardinality(PendingEdits(u)') <= Cardinality(PendingEdits(u))
      BY <1>1, <3>1, FS_Subset
    <3> QED BY <1>1, <1>2, <1>3, <3>2 DEF Overshoot
  <2> QED BY <2>1, <2>2
<1> QED BY <1>4, <1>5, InsertionStep

LimitInv == FiniteRows /\ \A u \in Users : Overshoot(u)

LEMMA LimitInvariant == Spec => []LimitInv
<1>1. Init => LimitInv
  <2> SUFFICES ASSUME Init PROVE LimitInv
    OBVIOUS
  <2>1. {l \in Links : links[l].status # "none"} = {}
    BY DEF Init, NoLink
  <2>2. {e \in Edits : edits[e].status = "pending"} = {}
    BY DEF Init, NoEdit
  <2>3. FiniteRows
    BY <2>1, <2>2, FS_EmptySet DEF FiniteRows
  <2>4. ASSUME NEW u \in Users PROVE Overshoot(u)
    <3>1. PendingEdits(u) = {} /\ Preparing(u) = {}
      BY DEF Init, NoEdit, Idle, PendingEdits, Preparing, EditPcs
    <3>2. Cardinality({}) = 0 /\ Cardinality(Handlers) \in Nat
      BY FS_EmptySet, FS_CardinalityType, ModerationAssumption
    <3> QED BY <3>1, <3>2, ModerationAssumption DEF Overshoot
  <2> QED BY <2>3, <2>4 DEF LimitInv
<1>2. IInv /\ LimitInv /\ [Next]_vars => LimitInv'
  <2> SUFFICES ASSUME IInv, LimitInv, [Next]_vars PROVE LimitInv'
    OBVIOUS
  <2>1. FiniteRows'
    BY FiniteStep DEF IInv, LimitInv
  <2>2. ASSUME NEW u \in Users PROVE Overshoot(u)'
    BY <2>1, OvershootStep DEF IInv, LimitInv
  <2> QED BY <2>1, <2>2 DEF LimitInv
<1> QED BY <1>1, <1>2, Invariant, PTL DEF Spec

\* However many of a user's requests pass the check of the limit together, they
\* exceed it by less than the server serves at a time (CountPendingRequestsByUser).
THEOREM LimitIsExceededByConcurrency == Spec => []EditsOvershootByConcurrency
<1>1. LimitInv => EditsOvershootByConcurrency
  BY DEF LimitInv, Overshoot, PendingEdits, Preparing, EditPcs,
         EditsOvershootByConcurrency, EditsUnderWay
<1> QED BY <1>1, LimitInvariant, PTL

-----------------------------------------------------------------------------
(* Resolution and search.                                                  *)

\* The approved links that a reader sees, and all that he can be sent to.
VisibleTo(o) == {l \in Links : links[l].status = "approved"
                                 /\ (links[l].scope = Global \/ (o # Nobody /\ links[l].scope = o))}
Visible(o) == {SharedRow(l) : l \in VisibleTo(o)}

LEMMA ReaderShape ==
  ASSUME NEW r \in Readers \cup {Anonymous}
  PROVE  /\ r.signedIn \in BOOLEAN /\ r.org \in Orgs \cup {Nobody} /\ r.personal \subseteq Keywords
         /\ IsFiniteSet(r.personal)
         /\ ~r.signedIn => r.org = Nobody /\ r.personal = {}
<1>1. CASE r \in Readers
  BY <1>1 DEF Readers
<1>2. CASE r = Anonymous
  BY <1>2, FS_EmptySet DEF Anonymous
<1> QED BY <1>1, <1>2

LEMMA ListsAreVisible ==
  ASSUME NEW o \in Orgs \cup {Nobody}
  PROVE  Discoverable(o) = Visible(o) /\ SearchApprovedLinks(o, "all") = Visible(o)
<1>1. \A l \in Links : (~IsOrgLink(l) \/ (o # Nobody /\ links[l].scope = o))
                        <=> (links[l].scope = Global \/ (o # Nobody /\ links[l].scope = o))
  BY DEF IsOrgLink
<1>2. \A l \in Links : Matches(l, o, "all") <=> (~IsOrgLink(l) \/ (o # Nobody /\ links[l].scope = o))
  BY ScopeShape DEF Matches, IsOrgLink
<1>3. Discoverable(o) = Visible(o)
  <2>1. {m \in Links : links[m].status = "approved"
           /\ (~IsOrgLink(m) \/ (o # Nobody /\ links[m].scope = o))} = VisibleTo(o)
    BY <1>1 DEF VisibleTo
  <2> QED BY <2>1 DEF Discoverable, Visible
<1>4. SearchApprovedLinks(o, "all") = Visible(o)
  <2>1. {m \in Links : links[m].status = "approved" /\ Matches(m, o, "all")} = VisibleTo(o)
    BY <1>1, <1>2 DEF VisibleTo
  <2> QED BY <2>1 DEF SearchApprovedLinks, Visible
<1> QED BY <1>3, <1>4

\* The statement of the resolution and the one of the search, of any reader.
LEMMA CandidatesAreShown ==
  ASSUME NEW r \in Readers \cup {Anonymous}
  PROVE  /\ Candidates(r) = PersonalRows(r) \cup Visible(r.org)
         /\ Search(r, TRUE) = PersonalRows(r) \cup Visible(r.org)
         /\ Search(r, FALSE) = Visible(r.org)
<1>1. \A s : LinksIn("approved", s) = {l \in Links : links[l].status = "approved" /\ links[l].scope = s}
  BY DEF LinksIn
<1>2. CASE ~r.signedIn
  <2>1. PersonalRows(r) = {} /\ r.org = Nobody
    BY <1>2, ReaderShape DEF PersonalRows
  <2>2. VisibleTo(Nobody) = LinksIn("approved", Global)
    BY <1>1 DEF VisibleTo
  <2>3. ApprovedRows(Global) = Visible(Nobody)
    BY <2>2 DEF ApprovedRows, Visible
  <2>4. Candidates(r) = ApprovedRows(Global)
    BY <1>2 DEF Candidates
  <2>5. \A b \in BOOLEAN : Search(r, b) = Visible(Nobody)
    BY <1>2, <2>1, ListsAreVisible DEF Search
  <2> QED BY <2>1, <2>3, <2>4, <2>5
<1>3. CASE r.signedIn
  <2>1. r.org \in Orgs \cup {Nobody}
    BY ReaderShape
  <2>2. CASE r.org # Nobody
    <3>1. Candidates(r) = PersonalRows(r) \cup ApprovedRows(r.org) \cup ApprovedRows(Global)
      BY <1>3, <2>2 DEF Candidates, OrgCandidates
    <3>2. VisibleTo(r.org) = LinksIn("approved", r.org) \cup LinksIn("approved", Global)
      BY <1>1, <2>2 DEF VisibleTo
    <3>3. Visible(r.org) = ApprovedRows(r.org) \cup ApprovedRows(Global)
      BY <3>2 DEF Visible, ApprovedRows
    <3> QED BY <1>3, <2>1, <3>1, <3>3, ListsAreVisible DEF Search, SearchLinksForUser, Discoverable
  <2>3. CASE r.org = Nobody
    <3>1. Candidates(r) = PersonalRows(r) \cup ApprovedRows(Global)
      BY <1>3, <2>3 DEF Candidates
    <3>2. VisibleTo(r.org) = LinksIn("approved", Global)
      BY <1>1, <2>3 DEF VisibleTo
    <3>3. Visible(r.org) = ApprovedRows(Global)
      BY <3>2 DEF Visible, ApprovedRows
    <3> QED BY <1>3, <2>1, <3>1, <3>3, ListsAreVisible DEF Search, SearchLinksForUser, Discoverable
  <2> QED BY <2>2, <2>3
<1> QED BY <1>2, <1>3, ReaderShape

LEMMA Priorities ==
  Priority["personal"] = 1 /\ Priority["org"] = 2 /\ Priority["global"] = 3
  BY DEF Priority

\* ORDER BY priority LIMIT 1 finds something among any rows that there are.
LEMMA SomeRowIsFirst ==
  ASSUME NEW S, \A x \in S : x.source \in {"personal", "org", "global"}, S # {}
  PROVE  \E y \in S : \A x \in S : Priority[y.source] <= Priority[x.source]
<1>1. \A x \in S : \/ x.source = "personal" /\ Priority[x.source] = 1
                   \/ x.source = "org" /\ Priority[x.source] = 2
                   \/ x.source = "global" /\ Priority[x.source] = 3
  BY Priorities
<1>2. CASE \E y \in S : Priority[y.source] = 1
  BY <1>1, <1>2
<1>3. CASE ~(\E y \in S : Priority[y.source] = 1) /\ \E y \in S : Priority[y.source] = 2
  BY <1>1, <1>3
<1>4. CASE ~(\E y \in S : Priority[y.source] = 1) /\ ~ \E y \in S : Priority[y.source] = 2
  BY <1>1, <1>4
<1> QED BY <1>2, <1>3, <1>4

LEMMA RowFields ==
  /\ \A k : PersonalRow(k).source = "personal" /\ PersonalRow(k).keyword = k
  /\ \A l : /\ SharedRow(l).keyword = links[l].keyword
            /\ links[l].scope = Global => SharedRow(l).source = "global"
            /\ links[l].scope # Global => SharedRow(l).source = "org"
  BY DEF PersonalRow, SharedRow, IsOrgLink

\* x shows the link l.
IsRowOf(x, l) ==
  /\ x = SharedRow(l)
  /\ x.keyword = links[l].keyword
  /\ x.source = "global" <=> links[l].scope = Global

LEMMA SourcesOfRows ==
  ASSUME NEW r \in Readers \cup {Anonymous}, NEW x \in PersonalRows(r) \cup Visible(r.org)
  PROVE  /\ x.source \in {"personal", "org", "global"}
         /\ x.source = "personal" <=> x \in PersonalRows(r)
         /\ x.source = "personal" => x = PersonalRow(x.keyword)
         /\ x.source # "personal" =>
              \E l \in VisibleTo(r.org) : IsRowOf(x, l)
<1>1. CASE x \in PersonalRows(r)
  BY <1>1, RowFields DEF PersonalRows
<1>2. CASE x \in Visible(r.org)
  <2>1. PICK l \in VisibleTo(r.org) : x = SharedRow(l)
    BY <1>2 DEF Visible
  <2>2. x.keyword = links[l].keyword /\ x.source \in {"org", "global"}
        /\ (x.source = "global" <=> links[l].scope = Global)
    BY <2>1, RowFields
  <2>3. x \notin PersonalRows(r)
    BY <2>2, RowFields DEF PersonalRows
  <2> QED BY <2>1, <2>2, <2>3 DEF IsRowOf
<1> QED BY <1>1, <1>2

\* The unique indexes leave one row of each source.
LEMMA OneRowPerSource ==
  ASSUME TypeOK, RowsInv, NEW r \in Readers \cup {Anonymous},
         NEW x \in PersonalRows(r) \cup Visible(r.org), NEW y \in PersonalRows(r) \cup Visible(r.org),
         x.keyword = y.keyword, x.source = y.source
  PROVE  x = y
<1>1. CASE x.source = "personal"
  BY <1>1, SourcesOfRows
<1>2. CASE x.source # "personal"
  <2>1. PICK l \in VisibleTo(r.org) : IsRowOf(x, l)
    BY <1>2, SourcesOfRows
  <2>2. PICK m \in VisibleTo(r.org) : IsRowOf(y, m)
    BY <1>2, SourcesOfRows
  <2>3. links[l].scope = links[m].scope
    BY <2>1, <2>2 DEF VisibleTo, IsRowOf
  <2>4. l \in Links /\ m \in Links /\ Exists(l) /\ Exists(m)
    BY DEF VisibleTo, Exists
  <2>5. l = m
    BY <2>1, <2>2, <2>3, <2>4 DEF RowsInv, OneLinkPerPlace, IsRowOf
  <2> QED BY <2>1, <2>2, <2>5 DEF IsRowOf
<1> QED BY <1>1, <1>2

LEMMA AtMostOne ==
  ASSUME NEW S, \A x, y \in S : x = y
  PROVE  Cardinality(S) <= 1
<1>1. CASE S = {}
  BY <1>1, FS_EmptySet
<1>2. CASE S # {}
  <2>1. PICK x : x \in S
    BY <1>2
  <2>2. S = {x}
    BY <2>1
  <2> QED BY <2>2, FS_Singleton
<1> QED BY <1>1, <1>2

LEMMA ResolutionStep ==
  ASSUME TypeOK, RowsInv
  PROVE  ResolutionAgreesWithSearch
<1> SUFFICES ASSUME NEW r \in Readers \cup {Anonymous}, NEW k \in Keywords
             PROVE  LET answer == ResolveKeywordForUser(r, k)
                        shown  == WithKeyword(Search(r, TRUE), k)
                    IN /\ Cardinality(answer) <= 1
                       /\ answer \subseteq shown
                       /\ \A x \in shown : \E y \in answer : Priority[y.source] <= Priority[x.source]
                       /\ WithKeyword(Discoverable(r.org), k) \cup ResolveKeywordForUser(Anonymous, k) # {}
                            => answer # {}
                       /\ \A x \in answer : x.source # "personal" => x \in Search(r, FALSE)
  BY DEF ResolutionAgreesWithSearch
<1> DEFINE answer == ResolveKeywordForUser(r, k)
           shown  == WithKeyword(Search(r, TRUE), k)
           rows   == PersonalRows(r) \cup Visible(r.org)
<1>1. shown = {x \in rows : x.keyword = k}
  BY CandidatesAreShown DEF WithKeyword
<1>2. answer = {x \in shown : \A y \in shown : Priority[x.source] <= Priority[y.source]}
  <2>1. WithKeyword(Candidates(r), k) = shown
    BY CandidatesAreShown
  <2> QED BY <2>1 DEF ResolveKeywordForUser
<1>3. \A x \in shown : x \in rows /\ x.keyword = k /\ x.source \in {"personal", "org", "global"}
  BY <1>1, SourcesOfRows
<1>4. /\ WithKeyword(Discoverable(r.org), k) = {x \in Visible(r.org) : x.keyword = k}
      /\ Search(r, FALSE) = Visible(r.org)
  BY CandidatesAreShown, ListsAreVisible, ReaderShape DEF WithKeyword
<1>5. ResolveKeywordForUser(Anonymous, k) \subseteq {x \in Visible(r.org) : x.keyword = k}
  <2>1. Candidates(Anonymous) = Visible(Nobody)
    <3>1. Anonymous.personal = {} /\ Anonymous.org = Nobody
      BY DEF Anonymous
    <3>2. PersonalRows(Anonymous) = {}
      BY <3>1 DEF PersonalRows
    <3>3. Candidates(Anonymous) = PersonalRows(Anonymous) \cup Visible(Anonymous.org)
      BY CandidatesAreShown
    <3> QED BY <3>1, <3>2, <3>3
  <2>2. Visible(Nobody) \subseteq Visible(r.org)
    BY DEF Visible, VisibleTo
  <2> QED BY <2>1, <2>2 DEF ResolveKeywordForUser, WithKeyword
<1> HIDE DEF answer, shown
<1>6. Cardinality(answer) <= 1
  <2>1. ASSUME NEW x \in answer, NEW y \in answer
        PROVE  x = y
    <3>1. x \in shown /\ y \in shown
      BY <1>2
    <3>2. Priority[x.source] <= Priority[y.source] /\ Priority[y.source] <= Priority[x.source]
      BY <1>2, <3>1
    <3>3. x.source = y.source
      BY <1>3, <3>1, <3>2, Priorities
    <3> HIDE DEF rows
    <3>4. x \in rows /\ y \in rows /\ x.keyword = y.keyword
      BY <1>3, <3>1
    <3> QED BY <3>3, <3>4, OneRowPerSource DEF rows
  <2> QED BY <2>1, AtMostOne
<1>7. shown # {} => answer # {}
  BY <1>2, <1>3, SomeRowIsFirst
<1>8. \A x \in shown : \E y \in answer : Priority[y.source] <= Priority[x.source]
  BY <1>2, <1>7
<1>9. WithKeyword(Discoverable(r.org), k) \cup ResolveKeywordForUser(Anonymous, k) # {} => answer # {}
  BY <1>1, <1>4, <1>5, <1>7
<1>10. \A x \in answer : x.source # "personal" => x \in Search(r, FALSE)
  BY <1>2, <1>3, <1>4, SourcesOfRows
<1> QED BY <1>2, <1>6, <1>8, <1>9, <1>10 DEF answer, shown

-----------------------------------------------------------------------------
(* The tabs and the totals of Browse.                                      *)

\* A list has as many rows as there are links, or keywords, on it.
LEMMA SharedRowsCount ==
  ASSUME NEW S, IsFiniteSet(S)
  PROVE  Cardinality({SharedRow(l) : l \in S}) = Cardinality(S)
<1> DEFINE f == [l \in S |-> SharedRow(l)]
           T == {SharedRow(l) : l \in S}
<1>1. \A l : SharedRow(l).id = l
  BY DEF SharedRow
<1>2. f \in Bijection(S, T)
  <2>1. f \in [S -> T]
    OBVIOUS
  <2>2. \A t \in T : \E s \in S : f[s] = t
    OBVIOUS
  <2>3. IsInjective(f)
    BY <1>1 DEF IsInjective
  <2> QED BY <2>1, <2>2, <2>3 DEF Bijection, Injection, Surjection
<1>3. ExistsBijection(S, T)
  BY <1>2 DEF ExistsBijection
<1> QED BY <1>3, FS_Bijection

LEMMA PersonalRowsCount ==
  ASSUME NEW S, IsFiniteSet(S)
  PROVE  Cardinality({PersonalRow(k) : k \in S}) = Cardinality(S)
<1> DEFINE f == [k \in S |-> PersonalRow(k)]
           T == {PersonalRow(k) : k \in S}
<1>1. \A k : PersonalRow(k).id = k
  BY DEF PersonalRow
<1>2. f \in Bijection(S, T)
  <2>1. f \in [S -> T]
    OBVIOUS
  <2>2. \A t \in T : \E s \in S : f[s] = t
    OBVIOUS
  <2>3. IsInjective(f)
    BY <1>1 DEF IsInjective
  <2> QED BY <2>1, <2>2, <2>3 DEF Bijection, Injection, Surjection
<1>3. ExistsBijection(S, T)
  BY <1>2 DEF ExistsBijection
<1> QED BY <1>3, FS_Bijection

\* The links of a tab, which the list shows and the total counts.
OnTab(o, scope) == {l \in Links : links[l].status = "approved" /\ Matches(l, o, scope)}

LEMMA TabLists ==
  ASSUME NEW o, NEW scope
  PROVE  /\ SearchApprovedLinks(o, scope) = {SharedRow(l) : l \in OnTab(o, scope)}
         /\ CountApprovedLinks(o, scope) = Cardinality(OnTab(o, scope))
  BY DEF SearchApprovedLinks, CountApprovedLinks, OnTab

LEMMA TotalsCount ==
  ASSUME FiniteRows, NEW r \in Readers \cup {Anonymous}, NEW scope
  PROVE  Cardinality(BrowseRows(r, scope)) = BrowseTotal(r, scope)
<1>1. CASE Tab(r, scope) = "personal"
  <2>1. IsFiniteSet(r.personal)
    BY ReaderShape
  <2> QED BY <1>1, <2>1, PersonalRowsCount DEF BrowseRows, BrowseTotal, PersonalRows
<1>2. CASE Tab(r, scope) # "personal"
  <2>1. OnTab(r.org, Tab(r, scope)) \subseteq {l \in Links : links[l].status # "none"}
    BY DEF OnTab
  <2>2. IsFiniteSet(OnTab(r.org, Tab(r, scope)))
    BY <2>1, FS_Subset DEF FiniteRows
  <2>3. Cardinality({SharedRow(l) : l \in OnTab(r.org, Tab(r, scope))})
          = Cardinality(OnTab(r.org, Tab(r, scope)))
    BY <2>2, SharedRowsCount
  <2> QED BY <1>2, <2>3, TabLists DEF BrowseRows, BrowseTotal
<1> QED BY <1>1, <1>2

\* What the tabs of a reader show.
LEMMA TabRows ==
  ASSUME NEW r \in Readers \cup {Anonymous}
  PROVE  /\ BrowseRows(r, "all") = Visible(r.org)
         /\ BrowseRows(r, "global") = ApprovedRows(Global)
         /\ r.org # Nobody => BrowseRows(r, "org") = ApprovedRows(r.org)
         /\ r.signedIn => BrowseRows(r, "personal") = PersonalRows(r)
<1>1. r.org \in Orgs \cup {Nobody} /\ (r.org # Nobody => r.org # Global)
  BY ReaderShape, ScopeShape
<1>2. BrowseRows(r, "all") = Visible(r.org)
  BY <1>1, ListsAreVisible DEF BrowseRows, Tab
<1>3. BrowseRows(r, "global") = ApprovedRows(Global)
  <2>1. OnTab(r.org, "global") = LinksIn("approved", Global)
    BY DEF OnTab, LinksIn, Matches, IsOrgLink
  <2> QED BY <2>1, TabLists DEF BrowseRows, Tab, ApprovedRows
<1>4. ASSUME r.org # Nobody
      PROVE  BrowseRows(r, "org") = ApprovedRows(r.org)
  <2>1. OnTab(r.org, "org") = LinksIn("approved", r.org)
    BY <1>1, <1>4 DEF OnTab, LinksIn, Matches, IsOrgLink
  <2> QED BY <1>4, <2>1, TabLists DEF BrowseRows, Tab, ApprovedRows
<1>5. r.signedIn => BrowseRows(r, "personal") = PersonalRows(r)
  BY DEF BrowseRows, Tab
<1> QED BY <1>2, <1>3, <1>4, <1>5

\* A keyword that an approved link of a scope has is taken there.
LEMMA ApprovedIsTaken ==
  ASSUME NEW s, NEW k, WithKeyword(ApprovedRows(s), k) # {}
  PROVE  ~Free(k, s)
<1>1. PICK l \in LinksIn("approved", s) : SharedRow(l).keyword = k
  BY DEF WithKeyword, ApprovedRows
<1>2. l \in Links /\ Exists(l) /\ links[l].scope = s /\ links[l].keyword = k
  BY <1>1, RowFields DEF LinksIn, Exists
<1> QED BY <1>2 DEF Free

LEMMA BrowseStep ==
  ASSUME FiniteRows
  PROVE  BrowseIsConsistent
<1> SUFFICES ASSUME NEW r \in Readers \cup {Anonymous}
             PROVE  /\ BrowseRows(r, "all") = BrowseRows(r, "global")
                         \cup (IF r.org = Nobody THEN {} ELSE BrowseRows(r, "org"))
                    /\ \A k \in Keywords, scope \in {"global", "org", "personal"} :
                         SaidToExist(r, k, scope) =>
                           /\ WithKeyword(BrowseRows(r, scope), k) # {}
                           /\ scope = "global" => ~Free(k, Global)
                           /\ scope = "org" => ~Free(k, r.org)
  BY TotalsCount DEF BrowseIsConsistent
<1>1. BrowseRows(r, "all") = BrowseRows(r, "global")
        \cup (IF r.org = Nobody THEN {} ELSE BrowseRows(r, "org"))
  <2>1. CASE r.org = Nobody
    <3>1. VisibleTo(r.org) = LinksIn("approved", Global)
      BY <2>1 DEF VisibleTo, LinksIn
    <3> QED BY <2>1, <3>1, TabRows DEF Visible, ApprovedRows
  <2>2. CASE r.org # Nobody
    <3>1. VisibleTo(r.org) = LinksIn("approved", Global) \cup LinksIn("approved", r.org)
      BY <2>2 DEF VisibleTo, LinksIn
    <3>2. Visible(r.org) = ApprovedRows(Global) \cup ApprovedRows(r.org)
      BY <3>1 DEF Visible, ApprovedRows
    <3> QED BY <2>2, <3>2, TabRows
  <2> QED BY <2>1, <2>2
<1>2. ASSUME NEW k \in Keywords, NEW scope \in {"global", "org", "personal"},
             SaidToExist(r, k, scope)
      PROVE  /\ WithKeyword(BrowseRows(r, scope), k) # {}
             /\ scope = "global" => ~Free(k, Global)
             /\ scope = "org" => ~Free(k, r.org)
  <2>1. CASE scope = "personal"
    <3>1. r.signedIn /\ k \in r.personal
      BY <1>2, <2>1 DEF SaidToExist
    <3>2. PersonalRow(k) \in WithKeyword(BrowseRows(r, "personal"), k)
      BY <3>1, TabRows, RowFields DEF WithKeyword, PersonalRows
    <3> QED BY <2>1, <3>2
  <2>2. CASE scope = "org"
    <3>1. r.org # Nobody /\ WithKeyword(ApprovedRows(r.org), k) # {}
      BY <1>2, <2>2 DEF SaidToExist
    <3> QED BY <2>2, <3>1, TabRows, ApprovedIsTaken
  <2>3. CASE scope = "global"
    <3>1. WithKeyword(ApprovedRows(Global), k) # {}
      BY <1>2, <2>3 DEF SaidToExist
    <3> QED BY <2>3, <3>1, TabRows, ApprovedIsTaken
  <2> QED BY <2>1, <2>2, <2>3
<1> QED BY <1>1, <1>2

-----------------------------------------------------------------------------
(* Theorems.                                                               *)

\* One link answers a keyword, the search shows it first and nothing that is
\* listed fails to resolve (resolve.go, the searches of links.go).
THEOREM SearchAgrees == Spec => []ResolutionAgreesWithSearch
<1>1. TypeOK /\ RowsInv => ResolutionAgreesWithSearch
  BY ResolutionStep
<1> QED BY <1>1, RowsInvariant, PTL

\* The tabs and totals of Browse agree with each other and with the check of a
\* keyword (browse of links.go, CountApprovedLinks, CheckKeyword).
THEOREM BrowseAgrees == Spec => []BrowseIsConsistent
<1>1. LimitInv => BrowseIsConsistent
  BY BrowseStep DEF LimitInv
<1> QED BY <1>1, LimitInvariant, PTL

\* Whatever his role and organization, a moderator sees the submissions and deletions
\* that he may decide and is mailed about, and of the edit requests, all of which
\* ApproveEdit and RejectEdit let him decide, those he is mailed about
\* (ModerationHandler.Index, canModerate, IsOrgMod and the queries of recipients).
THEOREM QueuesAgree == Spec => []QueuesMatchPermissions
<1>1. TypeOK => QueuesMatchPermissions
  BY QueuesStep
<1> QED BY <1>1, TypeCorrect, PTL

\* The management page lists what its reader may manage and counts what it lists.
THEOREM ManagementAgrees == Spec => []ManagementListsWhatItManages
<1>1. TypeOK /\ RowsInv => ManagementListsWhatItManages
  BY ManagementStep
<1> QED BY <1>1, RowsInvariant, PTL
=============================================================================
