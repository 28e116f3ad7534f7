------------------------------ MODULE Moderation ------------------------------
(***************************************************************************)
(* Submission, review, edit requests and deletion of shared links, with    *)
(* the notices they leave (internal/handlers/{links,manage,moderation}.go, *)
(* internal/handlers/api/{links,moderation}.go and the statements of       *)
(* internal/db/{links,link_edit_requests,notifications}.go they call).     *)
(*                                                                         *)
(* Every call of the database is a transaction of its own; other requests  *)
(* run between two of them.  A handler whose first call already decides    *)
(* what it does is one action; one that reads and writes, or writes twice, *)
(* keeps what it knows in handler[h] and goes on in a later action.  Reads *)
(* whose answer cannot change before the next call (roles, the scope and   *)
(* the submitter of a link) are merged with that call.                     *)
(*                                                                         *)
(* URLs, descriptions and reasons are left out.  Ids are never used twice. *)
(***************************************************************************)
EXTENDS Roles, Integers, FiniteSets

CONSTANTS
  Keywords,
  Links,      \* ids of links
  Edits,      \* ids of link_edit_requests
  Handlers,   \* requests served at the same time
  Limit       \* pending requests per user, 5 in the code

ASSUME ModerationAssumption ==
  /\ Nobody \notin Keywords \cup Links \cup Edits
  /\ IsFiniteSet(Handlers)
  /\ Limit \in Nat \ {0}

VARIABLES
  links,     \* table links, the deleted rows with what they held last
  edits,     \* table link_edit_requests
  notices,   \* table notifications
  handler,   \* what is left to do for each request being served
  applied    \* history: the edit requests whose change was made to the link

vars == <<links, edits, notices, handler, applied>>

NoLink == [status |-> "none", keyword |-> Nobody, scope |-> Nobody,
           createdBy |-> Nobody, submittedBy |-> Nobody, reviewedBy |-> Nobody]
NoEdit == [status |-> "none", link |-> Nobody, user |-> Nobody, reviewedBy |-> Nobody]
Idle   == [pc |-> "idle", user |-> Nobody, subject |-> Nobody]

\* The rows that an INSERT writes; reviewed_by is NULL.
NewLink(status, k, s, creator, submitter) ==
  [status |-> status, keyword |-> k, scope |-> s,
   createdBy |-> creator, submittedBy |-> submitter, reviewedBy |-> Nobody]

NewEdit(l, u) == [status |-> "pending", link |-> l, user |-> u, reviewedBy |-> Nobody]

Init ==
  /\ links = [l \in Links |-> NoLink]
  /\ edits = [e \in Edits |-> NoEdit]
  /\ notices = {}
  /\ handler = [h \in Handlers |-> Idle]
  /\ applied = {}

Exists(l)     == links[l].status \notin {"none", "deleted"}
Begin(h, pc, u, x) == handler' = [handler EXCEPT ![h] = [pc |-> pc, user |-> u, subject |-> x]]
GoOn(h, pc)   == handler' = [handler EXCEPT ![h].pc = pc]
Finish(h)     == handler' = [handler EXCEPT ![h] = Idle]

\* canManageLink: the moderators of a link, and its author once it is approved.
CanManage(u, l) == CanModerate(u, links[l].scope) \/ links[l].createdBy = u

\* Mutant of CanDelete: any user deletes what is pending.
CanDeletePending(u, l) == CanModerate(u, links[l].scope) \/ links[l].status = "pending"

\* canDelete: the moderators of a link, and its submitter while it is pending.
CanDelete(u, l) ==
  \/ CanModerate(u, links[l].scope)
  \/ links[l].status = "pending" /\ links[l].submittedBy = u

-----------------------------------------------------------------------------
(* Statements of the database.                                             *)

\* Mutant of Free: an index on active links only, as CheckKeyword looks them up.
FreeOfActive(k, s) ==
  \A l \in Links : links[l].status = "approved" => <<links[l].keyword, links[l].scope>> # <<k, s>>

\* The unique indexes on (keyword) and (keyword, organization): any status counts.
Free(k, s) == \A l \in Links : Exists(l) => <<links[l].keyword, links[l].scope>> # <<k, s>>

CreateLink(l, u, k, s) ==
  /\ links[l].status = "none"
  /\ Free(k, s)
  /\ links' = [links EXCEPT ![l] = NewLink("approved", k, s, u, Nobody)]

\* Mutant of SubmitLinkForApproval: the status of the request, which is not set.
SubmitLinkWithoutStatus(l, u, k, s) ==
  /\ links[l].status = "none"
  /\ Free(k, s)
  /\ links' = [links EXCEPT ![l] = NewLink("", k, s, Nobody, u)]

SubmitLinkForApproval(l, u, k, s) ==
  /\ links[l].status = "none"
  /\ Free(k, s)
  /\ links' = [links EXCEPT ![l] = NewLink("pending", k, s, Nobody, u)]

\* Mutant of ApproveLink: an UPDATE by id alone.
ApproveLinkById(l, u) ==
  /\ Exists(l)
  /\ links' = [links EXCEPT ![l].status = "approved", ![l].reviewedBy = u,
                            ![l].createdBy = links[l].submittedBy]

ApproveLink(l, u) ==
  /\ links[l].status = "pending"
  /\ links' = [links EXCEPT ![l].status = "approved", ![l].reviewedBy = u,
                            ![l].createdBy = links[l].submittedBy]

RejectLink(l, u) ==
  /\ links[l].status = "pending"
  /\ links' = [links EXCEPT ![l].status = "rejected", ![l].reviewedBy = u]

\* A row of links goes with its edit requests; its notices stay, unlinked.
Remove(l) ==
  /\ links' = [links EXCEPT ![l].status = "deleted"]
  /\ edits' = [e \in Edits |-> IF edits[e].link = l THEN [edits[e] EXCEPT !.status = "deleted"]
                               ELSE edits[e]]
  /\ notices' = {IF n.link = l THEN [n EXCEPT !.linked = FALSE] ELSE n : n \in notices}

\* Mutant of CountPendingRequestsByUser: edit requests are not counted.
CountPendingLinksByUser(u) ==
  Cardinality({l \in Links : links[l].status = "pending" /\ links[l].submittedBy = u})
  + Cardinality({l \in Links : links[l].status = "deletion_requested" /\ links[l].createdBy = u})

\* What a user waits for: submissions, deletions of own links, edit requests.
CountPendingRequestsByUser(u) ==
  Cardinality({l \in Links : links[l].status = "pending" /\ links[l].submittedBy = u})
  + Cardinality({l \in Links : links[l].status = "deletion_requested" /\ links[l].createdBy = u})
  + Cardinality({e \in Edits : edits[e].status = "pending" /\ edits[e].user = u})

\* The rows of a batch refer to the link: if it is gone no row is inserted.
CreateNotifications(U, type, l) ==
  notices' = IF Exists(l)
             THEN notices \cup {[to |-> u, type |-> type, link |-> l, linked |-> TRUE] : u \in U}
             ELSE notices

DeleteNotificationsForLink(l, type) ==
  notices' = {n \in notices : ~(n.link = l /\ n.linked /\ n.type = type)}

-----------------------------------------------------------------------------
(* Creation.                                                               *)

\* LinkHandler.createGlobalLink: a global moderator creates, others submit.
CreateGlobalLink(h, u, k) ==
  /\ handler[h] = Idle
  /\ \E l \in Links :
       \/ IsGlobalMod(u) /\ CreateLink(l, u, k, Global) /\ UNCHANGED handler
       \/ ~IsGlobalMod(u) /\ SubmitLinkForApproval(l, u, k, Global)
            /\ Begin(h, "announce link", u, l)
  /\ UNCHANGED <<edits, notices, applied>>

\* LinkHandler.createOrgLink.
CreateOrgLink(h, u, k, o) ==
  /\ handler[h] = Idle
  /\ CanCreateIn(u, o)
  /\ \E l \in Links :
       \/ CanModerateOrg(u, o) /\ CreateLink(l, u, k, o) /\ UNCHANGED handler
       \/ ~CanModerateOrg(u, o) /\ SubmitLinkForApproval(l, u, k, o)
            /\ Begin(h, "announce link", u, l)
  /\ UNCHANGED <<edits, notices, applied>>

\* The same of the API: nobody gets a notice.
ApiCreateGlobalLink(u, k) ==
  /\ \E l \in Links :
       \/ IsGlobalMod(u) /\ CreateLink(l, u, k, Global)
       \/ ~IsGlobalMod(u) /\ SubmitLinkForApproval(l, u, k, Global)
  /\ UNCHANGED <<edits, notices, handler, applied>>

ApiCreateOrgLink(u, k, o) ==
  /\ CanCreateIn(u, o)
  /\ \E l \in Links :
       \/ CanModerateOrg(u, o) /\ CreateLink(l, u, k, o)
       \/ ~CanModerateOrg(u, o) /\ SubmitLinkForApproval(l, u, k, o)
  /\ UNCHANGED <<edits, notices, handler, applied>>

\* fanOutSubmissionNotifications, which ends the request.
AnnounceLink(h) ==
  /\ handler[h].pc = "announce link"
  /\ LET l == handler[h].subject IN
       CreateNotifications(Moderators(links[l].scope), "link_submitted", l)
  /\ Finish(h)
  /\ UNCHANGED <<links, edits, applied>>

-----------------------------------------------------------------------------
(* Review of submissions.                                                  *)

\* Mutant of Approve: the permission is not checked.
ApproveUnchecked(h, u, l) ==
  /\ handler[h] = Idle
  /\ ApproveLink(l, u)
  /\ Begin(h, "withdraw approved", u, l)
  /\ UNCHANGED <<edits, notices, applied>>

\* ModerationHandler.Approve and Reject, their first write.
Approve(h, u, l) ==
  /\ handler[h] = Idle
  /\ CanModerate(u, links[l].scope)
  /\ ApproveLink(l, u)
  /\ Begin(h, "withdraw approved", u, l)
  /\ UNCHANGED <<edits, notices, applied>>

Reject(h, u, l) ==
  /\ handler[h] = Idle
  /\ CanModerate(u, links[l].scope)
  /\ RejectLink(l, u)
  /\ Begin(h, "withdraw rejected", u, l)
  /\ UNCHANGED <<edits, notices, applied>>

\* The moderators no longer need to look at the link (an error is ignored) ...
WithdrawNotices(h) ==
  /\ \/ handler[h].pc = "withdraw approved" /\ GoOn(h, "tell approved")
     \/ handler[h].pc = "withdraw rejected" /\ GoOn(h, "tell rejected")
  /\ DeleteNotificationsForLink(handler[h].subject, "link_submitted") \/ UNCHANGED notices
  /\ UNCHANGED <<links, edits, applied>>

\* ... and its submitter, which every pending link has, is told.
TellSubmitter(h) ==
  /\ LET l == handler[h].subject IN
       \/ /\ handler[h].pc = "tell approved"
          /\ CreateNotifications({links[l].submittedBy}, "link_approved", l)
       \/ /\ handler[h].pc = "tell rejected"
          /\ CreateNotifications({links[l].submittedBy}, "link_rejected", l)
  /\ Finish(h)
  /\ UNCHANGED <<links, edits, applied>>

\* Mutant of ApiApprove: any moderator, not only one of the scope of the link.
ApiApproveByAnyMod(u, l) ==
  /\ IsOrgMod(u)
  /\ ApproveLink(l, u)
  /\ UNCHANGED <<edits, notices, handler, applied>>

\* The API decides without touching the notices.
ApiApprove(u, l) ==
  /\ CanModerate(u, links[l].scope)
  /\ ApproveLink(l, u)
  /\ UNCHANGED <<edits, notices, handler, applied>>

ApiReject(u, l) ==
  /\ CanModerate(u, links[l].scope)
  /\ RejectLink(l, u)
  /\ UNCHANGED <<edits, notices, handler, applied>>

-----------------------------------------------------------------------------
(* Deletion.                                                               *)

\* ManageHandler.RequestDeletion: permission and number of pending requests ...
RequestDeletion(h, u, l) ==
  /\ handler[h] = Idle
  /\ Exists(l) /\ CanManage(u, l)
  /\ CountPendingRequestsByUser(u) < Limit
  /\ Begin(h, "request deletion", u, l)
  /\ UNCHANGED <<links, edits, notices, applied>>

\* ... then RequestLinkDeletion, which matches an approved link only.
RequestLinkDeletion(h) ==
  /\ handler[h].pc = "request deletion"
  /\ LET l == handler[h].subject IN
       links' = IF links[l].status = "approved"
                THEN [links EXCEPT ![l].status = "deletion_requested"] ELSE links
  /\ Finish(h)
  /\ UNCHANGED <<edits, notices, applied>>

ApproveDeletion(u, l) ==
  /\ CanModerate(u, links[l].scope)
  /\ links[l].status = "deletion_requested"
  /\ Remove(l)
  /\ UNCHANGED <<handler, applied>>

RejectDeletion(u, l) ==
  /\ CanModerate(u, links[l].scope)
  /\ links[l].status = "deletion_requested"
  /\ links' = [links EXCEPT ![l].status = "approved", ![l].reviewedBy = u]
  /\ UNCHANGED <<edits, notices, handler, applied>>

\* LinkHandler.Delete, of the pages and of the API: the check ...
Delete(h, u, l) ==
  /\ handler[h] = Idle
  /\ Exists(l) /\ CanDelete(u, l)
  /\ Begin(h, "delete", u, l)
  /\ UNCHANGED <<links, edits, notices, applied>>

\* ... and the DELETE, whatever the link has become since.
DeleteLink(h) ==
  /\ handler[h].pc = "delete"
  /\ IF Exists(handler[h].subject) THEN Remove(handler[h].subject)
     ELSE UNCHANGED <<links, edits, notices>>
  /\ Finish(h)
  /\ UNCHANGED applied

-----------------------------------------------------------------------------
(* Edit requests.                                                          *)

\* ManageHandler.RequestEdit and the count of CreateEditRequest.
RequestEdit(h, u, l) ==
  /\ handler[h] = Idle
  /\ Exists(l) /\ CanManage(u, l)
  /\ CountPendingRequestsByUser(u) < Limit
  /\ Begin(h, "request edit", u, l)
  /\ UNCHANGED <<links, edits, notices, applied>>

\* LinkHandler.SubmitSuggestEdit: any user, any link.
SubmitSuggestEdit(h, u, l) ==
  /\ handler[h] = Idle
  /\ Exists(l)
  /\ CountPendingRequestsByUser(u) < Limit
  /\ Begin(h, "suggest edit", u, l)
  /\ UNCHANGED <<links, edits, notices, applied>>

\* The partial unique index: one pending request per link and user.
Asked(u, l) == \E e \in Edits : edits[e].status = "pending"
                                  /\ edits[e].link = l /\ edits[e].user = u

\* The INSERT of CreateEditRequest; a suggestion is then announced.
CreateEditRequest(h) ==
  /\ handler[h].pc \in {"request edit", "suggest edit"}
  /\ LET u == handler[h].user  l == handler[h].subject IN
       \/ /\ Exists(l) /\ ~Asked(u, l)
          /\ \E e \in Edits :
               /\ edits[e].status = "none"
               /\ edits' = [edits EXCEPT ![e] = NewEdit(l, u)]
          /\ IF handler[h].pc = "suggest edit" THEN GoOn(h, "announce edit") ELSE Finish(h)
       \/ /\ ~Exists(l) \/ Asked(u, l)
          /\ Finish(h)
          /\ UNCHANGED edits
  /\ UNCHANGED <<links, notices, applied>>

\* fanOutEditSuggestionNotifications, in a goroutine of its own.
AnnounceEdit(h) ==
  /\ handler[h].pc = "announce edit"
  /\ LET l == handler[h].subject IN
       CreateNotifications(Moderators(links[l].scope), "edit_suggested", l)
  /\ Finish(h)
  /\ UNCHANGED <<links, edits, applied>>

\* Mutant of ApproveEdit: the SELECT finds requests that were decided before.
ApproveEditDecided(h, u, e) ==
  /\ handler[h] = Idle
  /\ IsOrgMod(u)
  /\ edits[e].status \in {"pending", "approved", "rejected"}
  /\ Begin(h, "approve edit", u, e)
  /\ UNCHANGED <<links, edits, notices, applied>>

\* ModerationHandler.ApproveEdit and the SELECT of ApproveEditRequest ...
ApproveEdit(h, u, e) ==
  /\ handler[h] = Idle
  /\ IsOrgMod(u)
  /\ edits[e].status = "pending"
  /\ Begin(h, "approve edit", u, e)
  /\ UNCHANGED <<links, edits, notices, applied>>

\* ... whose two UPDATEs, by id alone, commit together.
ApproveEditRequest(h) ==
  /\ handler[h].pc = "approve edit"
  /\ LET e == handler[h].subject IN
       IF edits[e].status = "deleted" THEN UNCHANGED <<edits, applied>>
       ELSE /\ edits' = [edits EXCEPT ![e].status = "approved",
                                      ![e].reviewedBy = handler[h].user]
            /\ applied' = applied \cup {e}
  /\ Finish(h)
  /\ UNCHANGED <<links, notices>>

\* Mutant of RejectEditRequest: an UPDATE by id alone.
RejectEditRequestById(e, u) ==
  /\ edits[e].status \in {"pending", "approved", "rejected"}
  /\ edits' = [edits EXCEPT ![e].status = "rejected", ![e].reviewedBy = u]

RejectEditRequest(e, u) ==
  /\ edits[e].status = "pending"
  /\ edits' = [edits EXCEPT ![e].status = "rejected", ![e].reviewedBy = u]

RejectEdit(u, e) ==
  /\ IsOrgMod(u)
  /\ RejectEditRequest(e, u)
  /\ UNCHANGED <<links, notices, handler, applied>>

-----------------------------------------------------------------------------

\* DeleteNotification, and one row of DeleteAllNotifications.
DeleteNotification(n) ==
  /\ notices' = notices \ {n}
  /\ UNCHANGED <<links, edits, handler, applied>>

\* The process stops or a call fails: the rest of the request is not done.
Fail(h) ==
  /\ handler[h] # Idle
  /\ Finish(h)
  /\ UNCHANGED <<links, edits, notices, applied>>

Request(h, u) ==
  \/ \E k \in Keywords : CreateGlobalLink(h, u, k) \/ \E o \in Orgs : CreateOrgLink(h, u, k, o)
  \/ \E l \in Links : \/ Approve(h, u, l) \/ Reject(h, u, l)
                      \/ Delete(h, u, l) \/ RequestDeletion(h, u, l)
                      \/ RequestEdit(h, u, l) \/ SubmitSuggestEdit(h, u, l)
  \/ \E e \in Edits : ApproveEdit(h, u, e)

SingleCall(u) ==
  \/ \E k \in Keywords : ApiCreateGlobalLink(u, k) \/ \E o \in Orgs : ApiCreateOrgLink(u, k, o)
  \/ \E l \in Links : \/ ApiApprove(u, l) \/ ApiReject(u, l)
                      \/ ApproveDeletion(u, l) \/ RejectDeletion(u, l)
  \/ \E e \in Edits : RejectEdit(u, e)

Continue(h) ==
  \/ AnnounceLink(h) \/ WithdrawNotices(h) \/ TellSubmitter(h)
  \/ RequestLinkDeletion(h) \/ DeleteLink(h)
  \/ CreateEditRequest(h) \/ AnnounceEdit(h) \/ ApproveEditRequest(h)

Next ==
  \/ \E h \in Handlers : Continue(h) \/ Fail(h) \/ \E u \in Users : Request(h, u)
  \/ \E u \in Users : SingleCall(u)
  \/ \E n \in notices : DeleteNotification(n)

Spec == Init /\ [][Next]_vars

-----------------------------------------------------------------------------
(* Properties.                                                             *)

Person == Users \cup {Nobody}

LinkRows ==
  [status : {"pending", "approved", "rejected", "deletion_requested", "deleted"},
   keyword : Keywords, scope : Scopes,
   createdBy : Person, submittedBy : Person, reviewedBy : Person]

EditRows ==
  [status : {"pending", "approved", "rejected", "deleted"},
   link : Links, user : Users, reviewedBy : Person]

Notices ==
  [to : Users, type : {"link_submitted", "link_approved", "link_rejected", "edit_suggested"},
   link : Links, linked : BOOLEAN]

LinkTasks ==
  [pc : {"announce link", "withdraw approved", "withdraw rejected", "tell approved",
         "tell rejected", "request deletion", "delete", "request edit", "suggest edit",
         "announce edit"},
   user : Users, subject : Links]

EditTasks == [pc : {"approve edit"}, user : Users, subject : Edits]

\* Every variable has its type, the columns of the tables and their statuses; a
\* link that waits for a decision, or that a handler reports on, has a submitter.
TypeOK ==
  /\ links \in [Links -> {NoLink} \cup LinkRows]
  /\ edits \in [Edits -> {NoEdit} \cup EditRows]
  /\ notices \subseteq Notices
  /\ handler \in [Handlers -> {Idle} \cup LinkTasks \cup EditTasks]
  /\ applied \subseteq Edits
  /\ \A l \in Links : links[l].status = "pending" => links[l].submittedBy \in Users
  /\ \A h \in Handlers :
       handler[h].pc \in {"withdraw approved", "withdraw rejected", "tell approved", "tell rejected"}
         => links[handler[h].subject].submittedBy \in Users

\* A link that users see or saw was created by a moderator of its scope or
\* approved by one, along every path: pages, API, restored deletion requests.
ActiveIsReviewed ==
  \A l \in Links : links[l].status \in {"approved", "deletion_requested"} =>
    IF links[l].submittedBy = Nobody
    THEN CanModerate(links[l].createdBy, links[l].scope)
    ELSE links[l].reviewedBy \in Moderators(links[l].scope)

\* A submitter is told what happened, although the notice is written after
\* the decision and other moderators decide, restore and delete in between;
\* no submitter is ever told both that a link is live and that it is not.
AuthorsToldTheTruth ==
  \A n \in notices :
    /\ n.type = "link_approved" => links[n.link].status \in {"approved", "deletion_requested", "deleted"}
    /\ n.type = "link_rejected" => links[n.link].status \in {"rejected", "deleted"}
    /\ n.type \in {"link_approved", "link_rejected"} =>
         ~\E m \in notices : m.link = n.link /\ {m.type, n.type} = {"link_approved", "link_rejected"}

\* The record of an edit request never denies a change that was made to the
\* link: no later rejection hides it, whichever reviewers race.
AppliedEditsAreApproved ==
  \A e \in applied : edits[e].status \in {"approved", "deleted"}

\* Edit requests of user u, pending or past the check of the limit.
EditsUnderWay(u) ==
  Cardinality({e \in Edits : edits[e].status = "pending" /\ edits[e].user = u})
  + Cardinality({h \in Handlers : handler[h].pc \in {"request edit", "suggest edit"}
                                    /\ handler[h].user = u})

\* The count and the insert are two calls, so concurrent requests exceed the
\* limit; they do so by less than the number of requests served at a time.
EditsOvershootByConcurrency ==
  \A u \in Users : EditsUnderWay(u) <= Limit - 1 + Cardinality(Handlers)

\* The life of a link: a decision is final, and a keyword has one link.
Lifecycle == INSTANCE LinkLifecycle
  WITH Places  <- Keywords \X Scopes,
       NoPlace <- <<Nobody, Nobody>>,
       status  <- [l \in Links |-> links[l].status],
       place   <- [l \in Links |-> <<links[l].keyword, links[l].scope>>]

ImplementsLifecycle == Lifecycle!Spec

\* ModerationHandler.ApproveEdit and RejectEdit answer "edit request not found
\* or already processed" to the second reviewer: one decision for a request.
EditDecidedOnce ==
  [][\A e \in Edits : edits[e].status \in {"approved", "rejected"} =>
       edits'[e] = edits[e] \/ edits'[e].status = "deleted"]_vars

\* An approval of edit request e is between its SELECT and its UPDATEs.
BeingApproved(e) ==
  \E h \in Handlers : handler[h].pc = "approve edit" /\ handler[h].subject = e

\* What EditDecidedOnce keeps of its promise: only the approvals that were under
\* way when an edit request was decided overwrite the decision.  With the last of
\* them the decision is final, whoever reviews the request later.
DecisionsSettle ==
  [][\A e \in Edits : edits[e].status \in {"approved", "rejected"} /\ ~BeingApproved(e) =>
       /\ edits'[e] = edits[e] \/ edits'[e].status = "deleted"
       /\ ~BeingApproved(e)']_vars

\* A link goes by a granted deletion request, or at the hands of a moderator of its
\* scope or of its own submitter, whatever it has become between the check of Delete
\* and the DELETE (a deletion requested of it changes nothing about who may): a stale
\* check costs nobody else's link.
DeletionIsAuthorized ==
  [][\A l \in Links : Exists(l) /\ links'[l].status = "deleted" =>
       \/ links[l].status = "deletion_requested" /\ UNCHANGED handler
       \/ \E h \in Handlers :
            /\ handler[h].pc = "delete" /\ handler[h].subject = l /\ handler'[h] = Idle
            /\ handler[h].user \in Moderators(links[l].scope) \cup {links[l].submittedBy}]_vars
=============================================================================
