--------------------------- MODULE ModerationProofs ---------------------------
(***************************************************************************)
(* Proofs about Moderation, for every value of its constants.              *)
(***************************************************************************)
EXTENDS Moderation, TLAPS

Reporting == {"withdraw approved", "withdraw rejected", "tell approved", "tell rejected"}

\* The moderators of a scope are users.
LEMMA ModeratorsType == \A s : Moderators(s) \subseteq Users
  BY DEF Moderators

LEMMA NobodyIsNoId == Nobody \notin Users /\ Nobody \notin Links /\ Nobody \notin Edits
  BY RolesAssumption, ModerationAssumption

-----------------------------------------------------------------------------
(* What the statements of the database do to the tables.                   *)

LEMMA RowType ==
  ASSUME TypeOK, NEW l \in Links, links[l].status # "none"
  PROVE  links[l] \in LinkRows
<1>1. links[l] \in {NoLink} \cup LinkRows
  BY DEF TypeOK
<1>2. NoLink.status = "none"
  BY DEF NoLink
<1> QED
  BY <1>1, <1>2

LEMMA EditRowType ==
  ASSUME TypeOK, NEW e \in Edits, edits[e].status # "none"
  PROVE  edits[e] \in EditRows
<1>1. edits[e] \in {NoEdit} \cup EditRows
  BY DEF TypeOK
<1>2. NoEdit.status = "none"
  BY DEF NoEdit
<1> QED
  BY <1>1, <1>2

\* One row of links changes, and where it stands afterwards.
Becomes(l, st) ==
  /\ links' = [links EXCEPT ![l] = links'[l]]
  /\ links'[l] \in LinkRows
  /\ links'[l].status = st

\* What no statement but an INSERT writes.
KeepsOrigin(l) ==
  /\ links'[l].keyword = links[l].keyword
  /\ links'[l].scope = links[l].scope
  /\ links'[l].submittedBy = links[l].submittedBy

LEMMA NewLinkType ==
  ASSUME NEW k \in Keywords, NEW s \in Scopes, NEW u \in Users
  PROVE  /\ NewLink("approved", k, s, u, Nobody) \in LinkRows
         /\ NewLink("pending", k, s, Nobody, u) \in LinkRows
  BY DEF NewLink, LinkRows, Person

LEMMA CreateLinkEffect ==
  ASSUME TypeOK, NEW l \in Links, NEW u \in Users, NEW k \in Keywords, NEW s \in Scopes,
         CreateLink(l, u, k, s)
  PROVE  /\ links[l].status = "none"
         /\ Becomes(l, "approved")
         /\ links'[l] = NewLink("approved", k, s, u, Nobody)
  BY NewLinkType DEF CreateLink, TypeOK, Becomes, NewLink

LEMMA SubmitLinkEffect ==
  ASSUME TypeOK, NEW l \in Links, NEW u \in Users, NEW k \in Keywords, NEW s \in Scopes,
         SubmitLinkForApproval(l, u, k, s)
  PROVE  /\ links[l].status = "none"
         /\ Becomes(l, "pending")
         /\ links'[l] = NewLink("pending", k, s, Nobody, u)
  BY NewLinkType DEF SubmitLinkForApproval, TypeOK, Becomes, NewLink

LEMMA ApproveLinkEffect ==
  ASSUME TypeOK, NEW l \in Links, NEW u \in Users, ApproveLink(l, u)
  PROVE  /\ links[l].status = "pending"
         /\ Becomes(l, "approved") /\ KeepsOrigin(l)
         /\ links'[l].reviewedBy = u /\ links'[l].createdBy = links[l].submittedBy
<1>1. links[l] \in LinkRows
  BY RowType DEF ApproveLink
<1>2. links'[l] = [links[l] EXCEPT !.status = "approved", !.reviewedBy = u,
                                   !.createdBy = links[l].submittedBy]
  BY DEF ApproveLink, TypeOK
<1>3. /\ links'[l] \in LinkRows /\ links'[l].status = "approved" /\ links'[l].reviewedBy = u
      /\ links'[l].createdBy = links[l].submittedBy
  BY <1>1, <1>2 DEF LinkRows, Person
<1>4. KeepsOrigin(l)
  BY <1>1, <1>2 DEF LinkRows, KeepsOrigin
<1>5. links' = [links EXCEPT ![l] = links'[l]]
  BY DEF ApproveLink, TypeOK
<1> QED
  BY <1>3, <1>4, <1>5 DEF ApproveLink, Becomes

LEMMA RejectLinkEffect ==
  ASSUME TypeOK, NEW l \in Links, NEW u \in Users, RejectLink(l, u)
  PROVE  /\ links[l].status = "pending"
         /\ Becomes(l, "rejected") /\ KeepsOrigin(l)
         /\ links'[l].createdBy = links[l].createdBy
<1>1. links[l] \in LinkRows
  BY RowType DEF RejectLink
<1>2. links'[l] = [links[l] EXCEPT !.status = "rejected", !.reviewedBy = u]
  BY DEF RejectLink, TypeOK
<1>3. /\ links'[l] \in LinkRows /\ links'[l].status = "rejected"
      /\ links'[l].createdBy = links[l].createdBy
  BY <1>1, <1>2 DEF LinkRows, Person
<1>4. KeepsOrigin(l)
  BY <1>1, <1>2 DEF LinkRows, KeepsOrigin
<1>5. links' = [links EXCEPT ![l] = links'[l]]
  BY DEF RejectLink, TypeOK
<1> QED
  BY <1>3, <1>4, <1>5 DEF RejectLink, Becomes

LEMMA RequestLinkDeletionEffect ==
  ASSUME TypeOK, NEW l \in Links, links[l].status = "approved",
         links' = [links EXCEPT ![l].status = "deletion_requested"]
  PROVE  /\ Becomes(l, "deletion_requested") /\ KeepsOrigin(l)
         /\ links'[l].createdBy = links[l].createdBy
         /\ links'[l].reviewedBy = links[l].reviewedBy
<1>1. links[l] \in LinkRows
  BY RowType
<1>2. links'[l] = [links[l] EXCEPT !.status = "deletion_requested"]
  BY DEF TypeOK
<1> QED
  BY <1>1, <1>2 DEF LinkRows, KeepsOrigin, Becomes, TypeOK

LEMMA RejectDeletionEffect ==
  ASSUME TypeOK, NEW l \in Links, NEW u \in Users, RejectDeletion(u, l)
  PROVE  /\ links[l].status = "deletion_requested"
         /\ Becomes(l, "approved") /\ KeepsOrigin(l)
         /\ links'[l].createdBy = links[l].createdBy
         /\ links'[l].reviewedBy = u
<1>1. links[l] \in LinkRows
  BY RowType DEF RejectDeletion
<1>2. links'[l] = [links[l] EXCEPT !.status = "approved", !.reviewedBy = u]
  BY DEF RejectDeletion, TypeOK
<1>3. /\ links'[l] \in LinkRows /\ links'[l].status = "approved"
      /\ links'[l].reviewedBy = u /\ links'[l].createdBy = links[l].createdBy
  BY <1>1, <1>2 DEF LinkRows, Person
<1>4. KeepsOrigin(l)
  BY <1>1, <1>2 DEF LinkRows, KeepsOrigin
<1>5. links' = [links EXCEPT ![l] = links'[l]]
  BY DEF RejectDeletion, TypeOK
<1> QED
  BY <1>3, <1>4, <1>5 DEF RejectDeletion, Becomes

LEMMA RemoveEffect ==
  ASSUME TypeOK, NEW l \in Links, Exists(l), Remove(l)
  PROVE  /\ Becomes(l, "deleted") /\ KeepsOrigin(l)
         /\ links'[l].createdBy = links[l].createdBy
         /\ edits' \in [Edits -> {NoEdit} \cup EditRows]
         /\ \A e \in Edits : edits'[e] = edits[e] \/ edits'[e].status = "deleted"
         /\ notices' \subseteq Notices
         /\ \A n \in notices' : \E m \in notices : n.link = m.link /\ n.type = m.type
<1>1. links[l] \in LinkRows
  BY RowType DEF Exists
<1>2. links'[l] = [links[l] EXCEPT !.status = "deleted"]
  BY DEF Remove, TypeOK
<1>3. Becomes(l, "deleted") /\ KeepsOrigin(l) /\ links'[l].createdBy = links[l].createdBy
  BY <1>1, <1>2 DEF LinkRows, Becomes, KeepsOrigin, Remove, TypeOK
<1>4. ASSUME NEW e \in Edits
      PROVE  /\ edits'[e] \in {NoEdit} \cup EditRows
             /\ edits'[e] = edits[e] \/ edits'[e].status = "deleted"
  <2>1. CASE edits[e].link # l
    BY <2>1 DEF Remove, TypeOK
  <2>2. CASE edits[e].link = l
    <3>1. edits[e] \in EditRows
      <4>1. edits[e] \in {NoEdit} \cup EditRows
        BY DEF TypeOK
      <4>2. NoEdit.link # l
        BY NobodyIsNoId DEF NoEdit
      <4> QED
        BY <2>2, <4>1, <4>2
    <3>2. edits'[e] = [edits[e] EXCEPT !.status = "deleted"]
      BY <2>2 DEF Remove
    <3> QED
      BY <3>1, <3>2 DEF EditRows
  <2> QED
    BY <2>1, <2>2
<1>5. edits' \in [Edits -> {NoEdit} \cup EditRows]
  BY <1>4 DEF Remove
<1>6. ASSUME NEW n \in notices'
      PROVE  n \in Notices /\ \E m \in notices : n.link = m.link /\ n.type = m.type
  <2>1. PICK m \in notices : n = IF m.link = l THEN [m EXCEPT !.linked = FALSE] ELSE m
    BY DEF Remove
  <2>2. m \in Notices
    BY DEF TypeOK
  <2> QED
    BY <2>1, <2>2 DEF Notices
<1> QED
  BY <1>3, <1>4, <1>5, <1>6

-----------------------------------------------------------------------------
(* Type correctness.                                                       *)

LinksOK ==
  /\ links \in [Links -> {NoLink} \cup LinkRows]
  /\ \A l \in Links : links[l].status = "pending" => links[l].submittedBy \in Users

ReportOK ==
  \A h \in Handlers : handler[h].pc \in Reporting
                        => links[handler[h].subject].submittedBy \in Users

\* A link that has a submitter keeps it.
SubmittersKept ==
  \A l \in Links : links[l].submittedBy \in Users => links'[l].submittedBy = links[l].submittedBy

LEMMA TypeParts ==
  TypeOK <=> /\ LinksOK /\ ReportOK
             /\ edits \in [Edits -> {NoEdit} \cup EditRows]
             /\ notices \subseteq Notices
             /\ handler \in [Handlers -> {Idle} \cup LinkTasks \cup EditTasks]
             /\ applied \subseteq Edits
  BY DEF TypeOK, LinksOK, ReportOK, Reporting

LEMMA LinksUnchanged ==
  ASSUME TypeOK, UNCHANGED links
  PROVE  LinksOK' /\ SubmittersKept
  BY DEF TypeOK, LinksOK, SubmittersKept

LEMMA InsertKeeps ==
  ASSUME TypeOK, NEW l \in Links, NEW u \in Users, NEW k \in Keywords, NEW s \in Scopes,
         CreateLink(l, u, k, s) \/ SubmitLinkForApproval(l, u, k, s)
  PROVE  LinksOK' /\ SubmittersKept
<1>1. links[l].submittedBy \notin Users
  <2>1. links[l] = NoLink
    <3>1. links[l] \in {NoLink} \cup LinkRows /\ links[l].status = "none"
      BY DEF CreateLink, SubmitLinkForApproval, TypeOK
    <3> QED
      BY <3>1 DEF LinkRows
  <2> QED
    BY <2>1, NobodyIsNoId DEF NoLink
<1>2. CASE CreateLink(l, u, k, s)
  BY <1>1, <1>2, CreateLinkEffect DEF Becomes, TypeOK, LinksOK, SubmittersKept
<1>3. CASE SubmitLinkForApproval(l, u, k, s)
  <2>1. links'[l].submittedBy = u
    <3>1. links'[l] = NewLink("pending", k, s, Nobody, u)
      BY <1>3, SubmitLinkEffect
    <3> QED
      BY <3>1 DEF NewLink
  <2> QED
    BY <1>1, <1>3, <2>1, SubmitLinkEffect DEF Becomes, TypeOK, LinksOK, SubmittersKept
<1> QED
  BY <1>2, <1>3

LEMMA ChangeKeeps ==
  ASSUME TypeOK, NEW l \in Links, NEW st, Becomes(l, st), st # "pending", KeepsOrigin(l)
  PROVE  LinksOK' /\ SubmittersKept
  BY DEF Becomes, KeepsOrigin, TypeOK, LinksOK, SubmittersKept

LinkPcs == {"announce link", "withdraw approved", "withdraw rejected", "tell approved",
            "tell rejected", "request deletion", "delete", "request edit", "suggest edit",
            "announce edit"}

LEMMA BeginLinkType ==
  ASSUME TypeOK, NEW h \in Handlers, NEW pc \in LinkPcs, NEW u \in Users, NEW l \in Links,
         Begin(h, pc, u, l)
  PROVE  /\ handler' \in [Handlers -> {Idle} \cup LinkTasks \cup EditTasks]
         /\ handler'[h].pc = pc /\ handler'[h].user = u /\ handler'[h].subject = l
         /\ \A g \in Handlers : g # h => handler'[g] = handler[g]
  BY DEF TypeOK, Begin, LinkTasks, LinkPcs

LEMMA FinishType ==
  ASSUME TypeOK, NEW h \in Handlers, Finish(h)
  PROVE  /\ handler' \in [Handlers -> {Idle} \cup LinkTasks \cup EditTasks]
         /\ handler'[h] = Idle
         /\ \A g \in Handlers : g # h => handler'[g] = handler[g]
  BY DEF TypeOK, Finish

LEMMA IdlePc == Idle.pc = "idle"
  BY DEF Idle

\* A task about a link, by its program counter.
LEMMA LinkTaskType ==
  ASSUME TypeOK, NEW h \in Handlers, handler[h].pc \in LinkPcs
  PROVE  handler[h] \in LinkTasks /\ handler[h].subject \in Links /\ handler[h].user \in Users
<1>1. handler[h] \in {Idle} \cup LinkTasks \cup EditTasks
  BY DEF TypeOK
<1>2. handler[h] # Idle
  BY IdlePc DEF LinkPcs
<1>3. handler[h] \notin EditTasks
  BY DEF EditTasks, LinkPcs
<1> QED
  BY <1>1, <1>2, <1>3 DEF LinkTasks

LEMMA EditTaskType ==
  ASSUME TypeOK, NEW h \in Handlers, handler[h].pc = "approve edit"
  PROVE  handler[h].subject \in Edits /\ handler[h].user \in Users
<1>1. handler[h] \in {Idle} \cup LinkTasks \cup EditTasks
  BY DEF TypeOK
<1>2. handler[h] # Idle
  BY IdlePc
<1>3. handler[h] \notin LinkTasks
  BY DEF LinkTasks
<1> QED
  BY <1>1, <1>2, <1>3 DEF EditTasks

LEMMA GoOnType ==
  ASSUME TypeOK, NEW h \in Handlers, handler[h].pc \in LinkPcs, NEW pc \in LinkPcs, GoOn(h, pc)
  PROVE  /\ handler' \in [Handlers -> {Idle} \cup LinkTasks \cup EditTasks]
         /\ handler'[h].pc = pc /\ handler'[h].subject = handler[h].subject
         /\ \A g \in Handlers : g # h => handler'[g] = handler[g]
<1>1. handler[h] \in LinkTasks
  BY LinkTaskType
<1>2. handler'[h] = [handler[h] EXCEPT !.pc = pc]
  BY DEF GoOn, TypeOK
<1>3. handler'[h] \in LinkTasks /\ handler'[h].pc = pc /\ handler'[h].subject = handler[h].subject
  BY <1>1, <1>2 DEF LinkTasks, LinkPcs
<1> QED
  BY <1>3 DEF GoOn, TypeOK

\* Reports stay well-founded when every handler but one goes on as it was.
LEMMA ReportKept ==
  ASSUME TypeOK, SubmittersKept, NEW h \in Handlers,
         \A g \in Handlers : g # h => handler'[g] = handler[g],
         handler'[h].pc \in Reporting => links'[handler'[h].subject].submittedBy \in Users
  PROVE  ReportOK'
<1> SUFFICES ASSUME NEW g \in Handlers, handler'[g].pc \in Reporting
             PROVE  links'[handler'[g].subject].submittedBy \in Users
  BY DEF ReportOK
<1>1. CASE g = h
  BY <1>1
<1>2. CASE g # h
  <2>1. handler[g].pc \in LinkPcs /\ handler'[g] = handler[g]
    BY <1>2 DEF Reporting, LinkPcs
  <2>2. handler[g].subject \in Links /\ links[handler[g].subject].submittedBy \in Users
    BY <2>1, LinkTaskType DEF TypeOK, Reporting
  <2> QED
    BY <2>1, <2>2 DEF SubmittersKept
<1> QED
  BY <1>1, <1>2

LEMMA ReportKeptIdle ==
  ASSUME TypeOK, SubmittersKept, UNCHANGED handler
  PROVE  ReportOK'
<1> SUFFICES ASSUME NEW g \in Handlers, handler[g].pc \in Reporting
             PROVE  links'[handler[g].subject].submittedBy \in Users
  BY DEF ReportOK
<1>1. handler[g].subject \in Links /\ links[handler[g].subject].submittedBy \in Users
  BY LinkTaskType DEF TypeOK, Reporting, LinkPcs
<1> QED
  BY <1>1 DEF SubmittersKept

LEMMA CreateNotificationsType ==
  ASSUME TypeOK, NEW l \in Links, NEW U \in SUBSET Users,
         NEW t \in {"link_submitted", "link_approved", "link_rejected", "edit_suggested"},
         CreateNotifications(U, t, l)
  PROVE  notices' \subseteq Notices
<1>1. ASSUME NEW u \in U
      PROVE  [to |-> u, type |-> t, link |-> l, linked |-> TRUE] \in Notices
  BY DEF Notices
<1> QED
  BY <1>1 DEF TypeOK, CreateNotifications

LEMMA CreateType ==
  ASSUME TypeOK, NEW h \in Handlers, NEW u \in Users, NEW k \in Keywords, NEW s \in Scopes,
         NEW l \in Links,
         \/ CreateLink(l, u, k, s) /\ UNCHANGED handler
         \/ SubmitLinkForApproval(l, u, k, s) /\ UNCHANGED handler
         \/ SubmitLinkForApproval(l, u, k, s) /\ Begin(h, "announce link", u, l),
         UNCHANGED <<edits, notices, applied>>
  PROVE  TypeOK'
<1>1. LinksOK' /\ SubmittersKept
  BY InsertKeeps
<1>2. CASE UNCHANGED handler
  BY <1>1, <1>2, ReportKeptIdle, TypeParts DEF LinksOK, ReportOK, TypeOK, Reporting
<1>3. CASE Begin(h, "announce link", u, l)
  <2>1. /\ handler' \in [Handlers -> {Idle} \cup LinkTasks \cup EditTasks]
        /\ handler'[h].pc \notin Reporting
        /\ \A g \in Handlers : g # h => handler'[g] = handler[g]
    BY <1>3, BeginLinkType DEF LinkPcs, Reporting
  <2>2. ReportOK'
    BY <1>1, <2>1, ReportKept
  <2> QED
    BY <1>1, <2>1, <2>2 DEF LinksOK, ReportOK, TypeOK, Reporting
<1> QED
  BY <1>2, <1>3

\* A request that has only read so far.
LEMMA ReadOnlyType ==
  ASSUME TypeOK, NEW h \in Handlers, NEW u \in Users, NEW l \in Links, NEW pc \in LinkPcs,
         pc \notin Reporting,
         Begin(h, pc, u, l), UNCHANGED <<links, edits, notices, applied>>
  PROVE  TypeOK'
<1>1. LinksOK' /\ SubmittersKept
  BY LinksUnchanged
<1>2. /\ handler' \in [Handlers -> {Idle} \cup LinkTasks \cup EditTasks]
      /\ handler'[h].pc \notin Reporting
      /\ \A g \in Handlers : g # h => handler'[g] = handler[g]
  BY BeginLinkType
<1>3. ReportOK'
  BY <1>1, <1>2, ReportKept
<1> QED
  BY <1>1, <1>2, <1>3 DEF LinksOK, ReportOK, TypeOK, Reporting

\* A decision that will be reported.
LEMMA DecisionType ==
  ASSUME TypeOK, NEW h \in Handlers, NEW u \in Users, NEW l \in Links,
         NEW pc \in {"withdraw approved", "withdraw rejected"},
         ApproveLink(l, u) \/ RejectLink(l, u),
         Begin(h, pc, u, l), UNCHANGED <<edits, notices, applied>>
  PROVE  TypeOK'
<1>1. links[l].submittedBy \in Users
  BY DEF ApproveLink, RejectLink, TypeOK
<1>2. LinksOK' /\ SubmittersKept
  BY ApproveLinkEffect, RejectLinkEffect, ChangeKeeps
<1>3. /\ handler' \in [Handlers -> {Idle} \cup LinkTasks \cup EditTasks]
      /\ handler'[h].subject = l
      /\ \A g \in Handlers : g # h => handler'[g] = handler[g]
  <2>1. pc \in LinkPcs
    BY DEF LinkPcs
  <2> QED
    BY <2>1, BeginLinkType
<1>4. ReportOK'
  BY <1>1, <1>2, <1>3, ReportKept DEF SubmittersKept
<1> QED
  BY <1>2, <1>3, <1>4 DEF LinksOK, ReportOK, TypeOK, Reporting

LEMMA RequestType ==
  ASSUME TypeOK, NEW h \in Handlers, NEW u \in Users, Request(h, u)
  PROVE  TypeOK'
<1>1. ASSUME NEW k \in Keywords, CreateGlobalLink(h, u, k)
      PROVE  TypeOK'
  BY <1>1, CreateType DEF CreateGlobalLink, Scopes
<1>2. ASSUME NEW k \in Keywords, NEW o \in Orgs, CreateOrgLink(h, u, k, o)
      PROVE  TypeOK'
  BY <1>2, CreateType DEF CreateOrgLink, Scopes
<1>3. ASSUME NEW l \in Links, Approve(h, u, l) \/ Reject(h, u, l)
      PROVE  TypeOK'
  BY <1>3, DecisionType DEF Approve, Reject
<1>4. ASSUME NEW l \in Links,
             \/ Delete(h, u, l) \/ RequestDeletion(h, u, l)
             \/ RequestEdit(h, u, l) \/ SubmitSuggestEdit(h, u, l)
      PROVE  TypeOK'
  <2>1. \E pc \in LinkPcs : /\ pc \notin Reporting
                            /\ Begin(h, pc, u, l)
                            /\ UNCHANGED <<links, edits, notices, applied>>
    BY <1>4 DEF Delete, RequestDeletion, RequestEdit, SubmitSuggestEdit, LinkPcs, Reporting
  <2> QED
    BY <2>1, ReadOnlyType
<1>5. ASSUME NEW e \in Edits, ApproveEdit(h, u, e)
      PROVE  TypeOK'
  <2>1. LinksOK' /\ SubmittersKept
    BY <1>5, LinksUnchanged DEF ApproveEdit
  <2>2. /\ handler' = [handler EXCEPT ![h] = [pc |-> "approve edit", user |-> u, subject |-> e]]
        /\ [pc |-> "approve edit", user |-> u, subject |-> e] \in EditTasks
    BY <1>5 DEF ApproveEdit, Begin, EditTasks
  <2>3. /\ handler' \in [Handlers -> {Idle} \cup LinkTasks \cup EditTasks]
        /\ handler'[h].pc \notin Reporting
        /\ \A g \in Handlers : g # h => handler'[g] = handler[g]
    BY <2>2 DEF TypeOK, Reporting
  <2>4. ReportOK'
    BY <2>1, <2>3, ReportKept
  <2> QED
    BY <1>5, <2>1, <2>3, <2>4 DEF ApproveEdit, LinksOK, ReportOK, TypeOK, Reporting
<1> QED
  BY <1>1, <1>2, <1>3, <1>4, <1>5 DEF Request

LEMMA SingleCallType ==
  ASSUME TypeOK, NEW u \in Users, SingleCall(u)
  PROVE  TypeOK'
<1>1. ASSUME NEW k \in Keywords, NEW s \in Scopes, NEW l \in Links,
             CreateLink(l, u, k, s) \/ SubmitLinkForApproval(l, u, k, s),
             UNCHANGED <<edits, notices, handler, applied>>
      PROVE  TypeOK'
  <2>1. LinksOK' /\ SubmittersKept
    BY <1>1, InsertKeeps
  <2>2. ReportOK'
    BY <1>1, <2>1, ReportKeptIdle
  <2> QED
    BY <1>1, <2>1, <2>2 DEF LinksOK, ReportOK, TypeOK, Reporting
<1>2. ASSUME NEW k \in Keywords, ApiCreateGlobalLink(u, k)
      PROVE  TypeOK'
  BY <1>1, <1>2 DEF ApiCreateGlobalLink, Scopes
<1>3. ASSUME NEW k \in Keywords, NEW o \in Orgs, ApiCreateOrgLink(u, k, o)
      PROVE  TypeOK'
  BY <1>1, <1>3 DEF ApiCreateOrgLink, Scopes
<1>4. ASSUME NEW l \in Links, ApiApprove(u, l) \/ ApiReject(u, l) \/ RejectDeletion(u, l)
      PROVE  TypeOK'
  <2>1. LinksOK' /\ SubmittersKept
    BY <1>4, ApproveLinkEffect, RejectLinkEffect, RejectDeletionEffect, ChangeKeeps
    DEF ApiApprove, ApiReject
  <2>2. UNCHANGED <<edits, notices, handler, applied>>
    BY <1>4 DEF ApiApprove, ApiReject, RejectDeletion
  <2>3. ReportOK'
    BY <2>1, <2>2, ReportKeptIdle
  <2> QED
    BY <2>1, <2>2, <2>3 DEF LinksOK, ReportOK, TypeOK, Reporting
<1>5. ASSUME NEW l \in Links, ApproveDeletion(u, l)
      PROVE  TypeOK'
  <2>1. Exists(l) /\ Remove(l) /\ UNCHANGED <<handler, applied>>
    BY <1>5 DEF ApproveDeletion, Exists
  <2>2. LinksOK' /\ SubmittersKept
    BY <2>1, RemoveEffect, ChangeKeeps
  <2>3. ReportOK'
    BY <2>1, <2>2, ReportKeptIdle
  <2> QED
    BY <2>1, <2>2, <2>3, RemoveEffect DEF LinksOK, ReportOK, TypeOK, Reporting
<1>6. ASSUME NEW e \in Edits, RejectEdit(u, e)
      PROVE  TypeOK'
  <2>1. edits[e] \in EditRows
    BY <1>6, EditRowType DEF RejectEdit, RejectEditRequest
  <2>2. edits' = [edits EXCEPT ![e] = edits'[e]]
        /\ edits'[e] = [edits[e] EXCEPT !.status = "rejected", !.reviewedBy = u]
    BY <1>6 DEF RejectEdit, RejectEditRequest, TypeOK
  <2>3. edits'[e] \in EditRows
    BY <2>1, <2>2 DEF EditRows, Person
  <2> QED
    BY <1>6, <2>2, <2>3 DEF RejectEdit, TypeOK
<1> QED
  BY <1>2, <1>3, <1>4, <1>5, <1>6 DEF SingleCall

LEMMA TellType ==
  ASSUME TypeOK, NEW h \in Handlers, NEW U \in SUBSET Users,
         NEW t \in {"link_submitted", "link_approved", "link_rejected", "edit_suggested"},
         handler[h].pc \in LinkPcs, CreateNotifications(U, t, handler[h].subject),
         Finish(h), UNCHANGED <<links, edits, applied>>
  PROVE  TypeOK'
<1>1. LinksOK' /\ SubmittersKept
  BY LinksUnchanged
<1>2. notices' \subseteq Notices
  BY LinkTaskType, CreateNotificationsType
<1>3. /\ handler' \in [Handlers -> {Idle} \cup LinkTasks \cup EditTasks]
      /\ handler'[h].pc \notin Reporting
      /\ \A g \in Handlers : g # h => handler'[g] = handler[g]
  BY FinishType, IdlePc DEF Reporting
<1>4. ReportOK'
  BY <1>1, <1>3, ReportKept
<1> QED
  BY <1>1, <1>2, <1>3, <1>4 DEF LinksOK, ReportOK, TypeOK, Reporting

\* The end of a request, however it changed the links.
LEMMA EndType ==
  ASSUME TypeOK, NEW h \in Handlers, Finish(h), LinksOK', SubmittersKept,
         edits' \in [Edits -> {NoEdit} \cup EditRows], notices' \subseteq Notices,
         applied' \subseteq Edits
  PROVE  TypeOK'
<1>1. /\ handler' \in [Handlers -> {Idle} \cup LinkTasks \cup EditTasks]
      /\ handler'[h].pc \notin Reporting
      /\ \A g \in Handlers : g # h => handler'[g] = handler[g]
  BY FinishType, IdlePc DEF Reporting
<1>2. ReportOK'
  BY <1>1, ReportKept
<1> QED
  BY <1>1, <1>2 DEF LinksOK, ReportOK, TypeOK, Reporting

\* A reviewer works on an edit request that the SELECT has found.
ReviewedFound ==
  \A h \in Handlers : handler[h].pc = "approve edit" => edits[handler[h].subject].status # "none"

LEMMA ContinueType ==
  ASSUME TypeOK, ReviewedFound, NEW h \in Handlers, Continue(h)
  PROVE  TypeOK'
<1>1. CASE AnnounceLink(h)
  BY <1>1, TellType, ModeratorsType DEF AnnounceLink, LinkPcs
<1>2. CASE AnnounceEdit(h)
  BY <1>2, TellType, ModeratorsType DEF AnnounceEdit, LinkPcs
<1>3. CASE TellSubmitter(h)
  <2>1. links[handler[h].subject].submittedBy \in Users
    BY <1>3 DEF TellSubmitter, TypeOK
  <2> QED
    BY <1>3, <2>1, TellType DEF TellSubmitter, LinkPcs
<1>4. CASE WithdrawNotices(h)
  <2>1. PICK pc \in {"tell approved", "tell rejected"} :
          GoOn(h, pc) /\ handler[h].pc \in {"withdraw approved", "withdraw rejected"}
    BY <1>4 DEF WithdrawNotices
  <2>2. /\ handler' \in [Handlers -> {Idle} \cup LinkTasks \cup EditTasks]
        /\ handler'[h].subject = handler[h].subject
        /\ \A g \in Handlers : g # h => handler'[g] = handler[g]
    <3>1. pc \in LinkPcs /\ handler[h].pc \in LinkPcs
      BY <2>1 DEF LinkPcs
    <3> QED
      BY <2>1, <3>1, GoOnType
  <2>3. LinksOK' /\ SubmittersKept /\ links' = links
    BY <1>4, LinksUnchanged DEF WithdrawNotices
  <2>4. links'[handler'[h].subject].submittedBy \in Users
    BY <2>1, <2>2, <2>3 DEF TypeOK
  <2>5. ReportOK'
    BY <2>2, <2>3, <2>4, ReportKept
  <2>6. notices' \subseteq Notices
    BY <1>4 DEF WithdrawNotices, DeleteNotificationsForLink, TypeOK
  <2> QED
    BY <1>4, <2>2, <2>3, <2>5, <2>6 DEF WithdrawNotices, LinksOK, ReportOK, TypeOK, Reporting
<1>5. CASE RequestLinkDeletion(h)
  <2> DEFINE l == handler[h].subject
  <2>1. l \in Links
    BY <1>5, LinkTaskType DEF RequestLinkDeletion, LinkPcs
  <2>2. LinksOK' /\ SubmittersKept
    <3>1. CASE links[l].status = "approved"
      BY <1>5, <2>1, <3>1, RequestLinkDeletionEffect, ChangeKeeps DEF RequestLinkDeletion
    <3>2. CASE links[l].status # "approved"
      BY <1>5, <3>2, LinksUnchanged DEF RequestLinkDeletion
    <3> QED
      BY <3>1, <3>2
  <2> QED
    BY <1>5, <2>2, EndType DEF RequestLinkDeletion, TypeOK
<1>6. CASE DeleteLink(h)
  <2> DEFINE l == handler[h].subject
  <2>1. l \in Links
    BY <1>6, LinkTaskType DEF DeleteLink, LinkPcs
  <2>2. CASE Exists(l)
    <3>1. LinksOK' /\ SubmittersKept
      BY <1>6, <2>1, <2>2, RemoveEffect, ChangeKeeps DEF DeleteLink
    <3> QED
      BY <1>6, <2>1, <2>2, <3>1, RemoveEffect, EndType DEF DeleteLink, TypeOK
  <2>3. CASE ~Exists(l)
    BY <1>6, <2>3, LinksUnchanged, EndType DEF DeleteLink, TypeOK
  <2> QED
    BY <2>2, <2>3
<1>7. CASE CreateEditRequest(h)
  <2> DEFINE u == handler[h].user
             l == handler[h].subject
  <2>1. l \in Links /\ u \in Users
    BY <1>7, LinkTaskType DEF CreateEditRequest, LinkPcs
  <2>2. LinksOK' /\ SubmittersKept /\ links' = links
    BY <1>7, LinksUnchanged DEF CreateEditRequest
  <2>3. edits' \in [Edits -> {NoEdit} \cup EditRows]
    <3>1. NewEdit(l, u) \in EditRows
      BY <2>1 DEF NewEdit, EditRows, Person
    <3> QED
      BY <1>7, <3>1 DEF CreateEditRequest, TypeOK
  <2>4. CASE Finish(h)
    BY <1>7, <2>2, <2>3, <2>4, EndType DEF CreateEditRequest, TypeOK
  <2>5. CASE GoOn(h, "announce edit")
    <3>1. /\ handler' \in [Handlers -> {Idle} \cup LinkTasks \cup EditTasks]
          /\ handler'[h].pc = "announce edit"
          /\ \A g \in Handlers : g # h => handler'[g] = handler[g]
      <4>1. "announce edit" \in LinkPcs /\ handler[h].pc \in LinkPcs
        BY <1>7 DEF CreateEditRequest, LinkPcs
      <4> QED
        BY <2>5, <4>1, GoOnType
    <3>2. ReportOK'
      BY <2>2, <3>1, ReportKept DEF Reporting
    <3> QED
      BY <1>7, <2>2, <2>3, <3>1, <3>2
      DEF CreateEditRequest, LinksOK, ReportOK, TypeOK, Reporting
  <2> QED
    BY <1>7, <2>4, <2>5 DEF CreateEditRequest
<1>8. CASE ApproveEditRequest(h)
  <2> DEFINE e == handler[h].subject
             u == handler[h].user
  <2>1. e \in Edits /\ u \in Users
    BY <1>8, EditTaskType DEF ApproveEditRequest
  <2>2. LinksOK' /\ SubmittersKept
    BY <1>8, LinksUnchanged DEF ApproveEditRequest
  <2>3. CASE edits[e].status = "deleted"
    BY <1>8, <2>2, <2>3, EndType DEF ApproveEditRequest, TypeOK
  <2>4. CASE edits[e].status # "deleted"
    <3>1. edits[e] \in EditRows
      BY <1>8, <2>1, EditRowType DEF ApproveEditRequest, ReviewedFound
    <3>2. /\ edits' = [edits EXCEPT ![e] = edits'[e]]
          /\ edits'[e] = [edits[e] EXCEPT !.status = "approved", !.reviewedBy = u]
          /\ applied' = applied \cup {e}
      BY <1>8, <2>1, <2>4 DEF ApproveEditRequest, TypeOK
    <3>3. edits'[e] \in EditRows
      BY <2>1, <3>1, <3>2 DEF EditRows, Person
    <3>4. edits' \in [Edits -> {NoEdit} \cup EditRows]
      BY <3>2, <3>3 DEF TypeOK
    <3> QED
      BY <1>8, <2>1, <2>2, <3>2, <3>4, EndType DEF ApproveEditRequest, TypeOK
  <2> QED
    BY <2>3, <2>4
<1> QED
  BY <1>1, <1>2, <1>3, <1>4, <1>5, <1>6, <1>7, <1>8 DEF Continue

LEMMA TypeStep ==
  ASSUME TypeOK, ReviewedFound, [Next]_vars
  PROVE  TypeOK'
<1>1. ASSUME NEW h \in Handlers, Fail(h)
      PROVE  TypeOK'
  BY <1>1, LinksUnchanged, EndType DEF Fail, TypeOK
<1>2. ASSUME NEW n \in notices, DeleteNotification(n)
      PROVE  TypeOK'
  BY <1>2 DEF DeleteNotification, TypeOK
<1>3. CASE UNCHANGED vars
  BY <1>3 DEF vars, TypeOK
<1> QED
  BY <1>1, <1>2, <1>3, RequestType, SingleCallType, ContinueType DEF Next

-----------------------------------------------------------------------------
(* The record of an edit request.                                          *)

\* What can happen to an edit request in one step.
EditMoves(e) ==
  \/ edits'[e] = edits[e]
  \/ edits[e].status = "none" /\ edits'[e].status = "pending"
  \/ edits[e].status = "pending" /\ edits'[e].status = "rejected"
  \/ BeingApproved(e) /\ edits'[e].status = "approved"
  \/ edits'[e].status = "deleted"

EditsMove ==
  /\ \A e \in Edits : EditMoves(e)
  /\ \A e \in applied' : e \in applied \/ edits'[e].status = "approved"

LEMMA EditsUnchanged ==
  ASSUME UNCHANGED <<edits, applied>>
  PROVE  EditsMove
  BY DEF EditsMove, EditMoves

LEMMA EditsStep ==
  ASSUME TypeOK, ReviewedFound, [Next]_vars
  PROVE  EditsMove
<1>1. ASSUME NEW l \in Links, Exists(l), Remove(l), UNCHANGED applied
      PROVE  EditsMove
  BY <1>1, RemoveEffect DEF EditsMove, EditMoves
<1>2. ASSUME NEW h \in Handlers, NEW u \in Users, Request(h, u)
      PROVE  EditsMove
  BY <1>2, EditsUnchanged
  DEF Request, CreateGlobalLink, CreateOrgLink, Approve, Reject, Delete, RequestDeletion,
      RequestEdit, SubmitSuggestEdit, ApproveEdit
<1>3. ASSUME NEW u \in Users, SingleCall(u)
      PROVE  EditsMove
  <2>1. ASSUME NEW l \in Links, ApproveDeletion(u, l)
        PROVE  EditsMove
    BY <1>1, <2>1 DEF ApproveDeletion, Exists
  <2>2. ASSUME NEW e \in Edits, RejectEdit(u, e)
        PROVE  EditsMove
    <3>1. edits[e].status = "pending" /\ edits'[e].status = "rejected"
      <4>1. edits[e].status = "pending"
            /\ edits'[e] = [edits[e] EXCEPT !.status = "rejected", !.reviewedBy = u]
        BY <2>2 DEF RejectEdit, RejectEditRequest, TypeOK
      <4>2. edits[e] \in EditRows
        BY <4>1, EditRowType
      <4> QED
        BY <4>1, <4>2 DEF EditRows
    <3>2. applied' = applied /\ \A d \in Edits : d # e => edits'[d] = edits[d]
      BY <2>2 DEF RejectEdit, RejectEditRequest, TypeOK
    <3> QED
      BY <3>1, <3>2 DEF EditsMove, EditMoves
  <2> QED
    BY <1>3, <2>1, <2>2, EditsUnchanged
    DEF SingleCall, ApiCreateGlobalLink, ApiCreateOrgLink, ApiApprove, ApiReject, RejectDeletion
<1>4. ASSUME NEW h \in Handlers, Continue(h)
      PROVE  EditsMove
  <2>1. CASE DeleteLink(h)
    <3>1. handler[h].subject \in Links
      BY <2>1, LinkTaskType DEF DeleteLink, LinkPcs
    <3> QED
      BY <1>1, <2>1, <3>1, EditsUnchanged DEF DeleteLink
  <2>2. CASE CreateEditRequest(h)
    <3>1. NewEdit(handler[h].subject, handler[h].user).status = "pending"
      BY DEF NewEdit
    <3> QED
      BY <2>2, <3>1 DEF CreateEditRequest, EditsMove, EditMoves, TypeOK
  <2>3. CASE ApproveEditRequest(h)
    <3> DEFINE e == handler[h].subject
    <3>1. e \in Edits
      BY <2>3, EditTaskType DEF ApproveEditRequest
    <3>2. CASE edits[e].status = "deleted"
      BY <2>3, <3>2, EditsUnchanged DEF ApproveEditRequest
    <3>3. CASE edits[e].status # "deleted"
      <4>1. edits'[e].status = "approved" /\ applied' = applied \cup {e}
        <5>1. /\ edits'[e] = [edits[e] EXCEPT !.status = "approved",
                                             !.reviewedBy = handler[h].user]
              /\ applied' = applied \cup {e}
          BY <2>3, <3>1, <3>3 DEF ApproveEditRequest, TypeOK
        <5>2. edits[e] \in EditRows
          BY <2>3, <3>1, EditRowType DEF ApproveEditRequest, ReviewedFound
        <5> QED
          BY <5>1, <5>2 DEF EditRows
      <4>2. \A d \in Edits : d # e => edits'[d] = edits[d]
        BY <2>3, <3>1, <3>3 DEF ApproveEditRequest, TypeOK
      <4>3. BeingApproved(e)
        BY <2>3 DEF ApproveEditRequest, BeingApproved
      <4> QED
        BY <4>1, <4>2, <4>3 DEF EditsMove, EditMoves
    <3> QED
      BY <3>2, <3>3
  <2> QED
    BY <1>4, <2>1, <2>2, <2>3, EditsUnchanged
    DEF Continue, AnnounceLink, AnnounceEdit, TellSubmitter, WithdrawNotices, RequestLinkDeletion
<1>5. CASE UNCHANGED vars
  BY <1>5, EditsUnchanged DEF vars
<1> QED
  BY <1>2, <1>3, <1>4, <1>5, EditsUnchanged DEF Next, Fail, DeleteNotification

\* What can happen to a handler in one step: nothing, or one action of it.
HandlerMoves(g) ==
  \/ handler'[g] = handler[g]
  \/ handler'[g].pc = "idle"
  \/ \E u \in Users, l \in Links, pc \in LinkPcs \ Reporting : Begin(g, pc, u, l)
  \/ \E u \in Users, l \in Links : Approve(g, u, l) \/ Reject(g, u, l)
  \/ \E u \in Users, e \in Edits : ApproveEdit(g, u, e)
  \/ WithdrawNotices(g)
  \/ GoOn(g, "announce edit") /\ handler[g].pc = "suggest edit"

LEMMA HandlerStep ==
  ASSUME TypeOK, [Next]_vars, NEW g \in Handlers
  PROVE  HandlerMoves(g)
<1>1. ASSUME NEW h \in Handlers, Finish(h)
      PROVE  HandlerMoves(g)
  BY <1>1, FinishType, IdlePc DEF HandlerMoves
<1>2. ASSUME NEW h \in Handlers, NEW u \in Users, NEW x, NEW pc, Begin(h, pc, u, x), g # h
      PROVE  handler'[g] = handler[g]
  BY <1>2 DEF Begin, TypeOK
<1>3. ASSUME NEW h \in Handlers, NEW u \in Users, Request(h, u)
      PROVE  HandlerMoves(g)
  <2>1. ASSUME NEW l \in Links, NEW pc \in LinkPcs \ Reporting, Begin(h, pc, u, l)
        PROVE  HandlerMoves(g)
    BY <1>2, <2>1 DEF HandlerMoves
  <2>2. ASSUME NEW l \in Links, Approve(h, u, l) \/ Reject(h, u, l)
        PROVE  HandlerMoves(g)
    BY <1>2, <2>2 DEF HandlerMoves, Approve, Reject
  <2>3. ASSUME NEW e \in Edits, ApproveEdit(h, u, e)
        PROVE  HandlerMoves(g)
    BY <1>2, <2>3 DEF HandlerMoves, ApproveEdit
  <2>4. ASSUME NEW k \in Keywords, CreateGlobalLink(h, u, k) \/ \E o \in Orgs : CreateOrgLink(h, u, k, o)
        PROVE  HandlerMoves(g)
    <3>1. UNCHANGED handler \/ \E l \in Links : Begin(h, "announce link", u, l)
      BY <2>4 DEF CreateGlobalLink, CreateOrgLink
    <3>2. "announce link" \in LinkPcs \ Reporting
      BY DEF LinkPcs, Reporting
    <3> QED
      BY <2>1, <3>1, <3>2 DEF HandlerMoves
  <2>5. ASSUME NEW l \in Links,
               \/ Delete(h, u, l) \/ RequestDeletion(h, u, l)
               \/ RequestEdit(h, u, l) \/ SubmitSuggestEdit(h, u, l)
        PROVE  HandlerMoves(g)
    <3>1. \E pc \in LinkPcs \ Reporting : Begin(h, pc, u, l)
      BY <2>5 DEF Delete, RequestDeletion, RequestEdit, SubmitSuggestEdit, LinkPcs, Reporting
    <3> QED
      BY <2>1, <3>1
  <2> QED
    BY <1>3, <2>2, <2>3, <2>4, <2>5 DEF Request
<1>4. ASSUME NEW u \in Users, SingleCall(u)
      PROVE  HandlerMoves(g)
  BY <1>4 DEF SingleCall, ApiCreateGlobalLink, ApiCreateOrgLink, ApiApprove, ApiReject,
              ApproveDeletion, RejectDeletion, RejectEdit, HandlerMoves
<1>5. ASSUME NEW h \in Handlers, Continue(h)
      PROVE  HandlerMoves(g)
  <2>1. CASE WithdrawNotices(h)
    <3>1. g # h => handler'[g] = handler[g]
      BY <2>1 DEF WithdrawNotices, GoOn, TypeOK
    <3> QED
      BY <2>1, <3>1 DEF HandlerMoves
  <2>2. CASE CreateEditRequest(h)
    <3>1. Finish(h) \/ (GoOn(h, "announce edit") /\ handler[h].pc = "suggest edit")
      BY <2>2 DEF CreateEditRequest
    <3>2. GoOn(h, "announce edit") => (g # h => handler'[g] = handler[g])
      BY DEF GoOn, TypeOK
    <3> QED
      BY <1>1, <3>1, <3>2 DEF HandlerMoves
  <2>3. CASE AnnounceLink(h) \/ TellSubmitter(h) \/ RequestLinkDeletion(h)
               \/ DeleteLink(h) \/ AnnounceEdit(h) \/ ApproveEditRequest(h)
    BY <1>1, <2>3 DEF AnnounceLink, TellSubmitter, RequestLinkDeletion, DeleteLink,
                      AnnounceEdit, ApproveEditRequest
  <2> QED
    BY <1>5, <2>1, <2>2, <2>3 DEF Continue
<1>6. CASE UNCHANGED vars
  BY <1>6 DEF vars, HandlerMoves
<1> QED
  BY <1>1, <1>3, <1>4, <1>5, <1>6 DEF Next, Fail, DeleteNotification, HandlerMoves

\* Only ApproveEdit takes up an edit request.
LEMMA TakenUp ==
  ASSUME TypeOK, [Next]_vars, NEW g \in Handlers,
         handler'[g].pc = "approve edit", handler'[g] # handler[g]
  PROVE  \E u \in Users, e \in Edits : ApproveEdit(g, u, e)
<1>1. ASSUME NEW u \in Users, NEW l \in Links, NEW pc \in LinkPcs, Begin(g, pc, u, l)
      PROVE  FALSE
  BY <1>1, BeginLinkType DEF LinkPcs
<1>2. ASSUME NEW pc \in LinkPcs, handler[g].pc \in LinkPcs, GoOn(g, pc)
      PROVE  FALSE
  BY <1>2, GoOnType DEF LinkPcs
<1> QED
  BY <1>1, <1>2, HandlerStep
  DEF HandlerMoves, Approve, Reject, WithdrawNotices, LinkPcs, Reporting

\* ApproveEdit has just found the request that it takes up.
LEMMA ReviewedStep ==
  ASSUME TypeOK, ReviewedFound, [Next]_vars
  PROVE  ReviewedFound'
<1> SUFFICES ASSUME NEW g \in Handlers, handler'[g].pc = "approve edit"
             PROVE  edits'[handler'[g].subject].status # "none"
  BY DEF ReviewedFound
<1>1. CASE handler'[g] = handler[g]
  BY <1>1, EditsStep, EditTaskType DEF ReviewedFound, EditsMove, EditMoves
<1>2. CASE handler'[g] # handler[g]
  <2>1. PICK u \in Users, e \in Edits : ApproveEdit(g, u, e)
    BY <1>2, TakenUp
  <2> QED
    BY <2>1 DEF ApproveEdit, Begin, TypeOK
<1> QED
  BY <1>1, <1>2

\* A request that is decided and that nobody is approving stays so: nobody takes
\* it up, and only who has taken it up could decide it again.
LEMMA SettledStep ==
  ASSUME TypeOK, ReviewedFound, [Next]_vars, NEW e \in Edits,
         edits[e].status \in {"approved", "rejected"}, ~BeingApproved(e)
  PROVE  /\ edits'[e] = edits[e] \/ edits'[e].status = "deleted"
         /\ ~BeingApproved(e)'
<1>1. edits'[e] = edits[e] \/ edits'[e].status = "deleted"
  BY EditsStep DEF EditsMove, EditMoves
<1>2. ASSUME NEW g \in Handlers, handler'[g].pc = "approve edit", handler'[g].subject = e
      PROVE  FALSE
  <2>1. handler'[g] # handler[g]
    BY <1>2 DEF BeingApproved
  <2>2. PICK u \in Users, d \in Edits : ApproveEdit(g, u, d)
    BY <1>2, <2>1, TakenUp
  <2>3. edits[d].status = "pending" /\ handler'[g].subject = d
    BY <2>2 DEF ApproveEdit, Begin, TypeOK
  <2> QED
    BY <1>2, <2>3
<1> QED
  BY <1>1, <1>2 DEF BeingApproved

-----------------------------------------------------------------------------
(* The life of a link.                                                     *)

Added(l, st) ==
  /\ links[l].status = "none"
  /\ Becomes(l, st)
  /\ \E u \in Users, k \in Keywords, s \in Scopes :
       /\ Free(k, s)
       /\ \/ st = "approved" /\ CanModerate(u, s) /\ links'[l] = NewLink(st, k, s, u, Nobody)
          \/ st = "pending" /\ links'[l] = NewLink(st, k, s, Nobody, u)

Moved(l, from, to) == links[l].status = from /\ Becomes(l, to) /\ KeepsOrigin(l)

\* What can happen to the one link that a step changes.
LinkMoves(l) ==
  \/ Added(l, "approved") \/ Added(l, "pending")
  \/ Moved(l, "pending", "approved") /\ links'[l].createdBy = links[l].submittedBy
       /\ \E u \in Users : CanModerate(u, links[l].scope) /\ links'[l].reviewedBy = u
  \/ Moved(l, "pending", "rejected") /\ links'[l].createdBy = links[l].createdBy
  \/ Moved(l, "approved", "deletion_requested")
       /\ links'[l].createdBy = links[l].createdBy /\ links'[l].reviewedBy = links[l].reviewedBy
  \/ Moved(l, "deletion_requested", "approved")
       /\ links'[l].createdBy = links[l].createdBy
       /\ \E u \in Users : CanModerate(u, links[l].scope) /\ links'[l].reviewedBy = u
  \/ Exists(l) /\ Becomes(l, "deleted") /\ KeepsOrigin(l)
       /\ links'[l].createdBy = links[l].createdBy

LinksMove == UNCHANGED links \/ \E l \in Links : LinkMoves(l)

LEMMA AddedIntro ==
  ASSUME TypeOK, NEW l \in Links, NEW u \in Users, NEW k \in Keywords, NEW s \in Scopes,
         \/ CanModerate(u, s) /\ CreateLink(l, u, k, s)
         \/ SubmitLinkForApproval(l, u, k, s)
  PROVE  LinksMove
<1>1. CASE CanModerate(u, s) /\ CreateLink(l, u, k, s)
  <2>1. Free(k, s)
    BY <1>1 DEF CreateLink
  <2>2. /\ links[l].status = "none" /\ Becomes(l, "approved")
        /\ links'[l] = NewLink("approved", k, s, u, Nobody)
    BY <1>1, CreateLinkEffect
  <2>3. Added(l, "approved")
    BY <1>1, <2>1, <2>2 DEF Added
  <2> QED
    BY <2>3 DEF LinkMoves, LinksMove
<1>2. CASE SubmitLinkForApproval(l, u, k, s)
  <2>1. Free(k, s)
    BY <1>2 DEF SubmitLinkForApproval
  <2>2. /\ links[l].status = "none" /\ Becomes(l, "pending")
        /\ links'[l] = NewLink("pending", k, s, Nobody, u)
    BY <1>2, SubmitLinkEffect
  <2>3. Added(l, "pending")
    BY <2>1, <2>2 DEF Added
  <2> QED
    BY <2>3 DEF LinkMoves, LinksMove
<1> QED
  BY <1>1, <1>2

LEMMA DecidedIntro ==
  ASSUME TypeOK, NEW l \in Links, NEW u \in Users, CanModerate(u, links[l].scope),
         ApproveLink(l, u) \/ RejectLink(l, u)
  PROVE  LinksMove
<1>1. CASE ApproveLink(l, u)
  BY <1>1, ApproveLinkEffect DEF Moved, LinkMoves, LinksMove
<1>2. CASE RejectLink(l, u)
  BY <1>2, RejectLinkEffect DEF Moved, LinkMoves, LinksMove
<1> QED
  BY <1>1, <1>2

LEMMA RemovedIntro ==
  ASSUME TypeOK, NEW l \in Links, Exists(l), Remove(l)
  PROVE  LinksMove
  BY RemoveEffect DEF LinkMoves, LinksMove

LEMMA ScopeOfModerator ==
  ASSUME NEW u \in Users
  PROVE  /\ IsGlobalMod(u) => CanModerate(u, Global)
         /\ \A o \in Orgs : CanModerateOrg(u, o) => CanModerate(u, o)
  BY RolesAssumption DEF CanModerate

LEMMA LinksStep ==
  ASSUME TypeOK, [Next]_vars
  PROVE  LinksMove
<1>1. ASSUME NEW h \in Handlers, NEW u \in Users, Request(h, u)
      PROVE  LinksMove
  <2>1. ASSUME NEW k \in Keywords, CreateGlobalLink(h, u, k)
        PROVE  LinksMove
    BY <2>1, AddedIntro, ScopeOfModerator DEF CreateGlobalLink, Scopes
  <2>2. ASSUME NEW k \in Keywords, NEW o \in Orgs, CreateOrgLink(h, u, k, o)
        PROVE  LinksMove
    BY <2>2, AddedIntro, ScopeOfModerator DEF CreateOrgLink, Scopes
  <2>3. ASSUME NEW l \in Links, Approve(h, u, l) \/ Reject(h, u, l)
        PROVE  LinksMove
    BY <2>3, DecidedIntro DEF Approve, Reject
  <2> QED
    BY <1>1, <2>1, <2>2, <2>3
    DEF Request, Delete, RequestDeletion, RequestEdit, SubmitSuggestEdit, ApproveEdit, LinksMove
<1>2. ASSUME NEW u \in Users, SingleCall(u)
      PROVE  LinksMove
  <2>1. ASSUME NEW k \in Keywords, ApiCreateGlobalLink(u, k)
        PROVE  LinksMove
    BY <2>1, AddedIntro, ScopeOfModerator DEF ApiCreateGlobalLink, Scopes
  <2>2. ASSUME NEW k \in Keywords, NEW o \in Orgs, ApiCreateOrgLink(u, k, o)
        PROVE  LinksMove
    BY <2>2, AddedIntro, ScopeOfModerator DEF ApiCreateOrgLink, Scopes
  <2>3. ASSUME NEW l \in Links, ApiApprove(u, l) \/ ApiReject(u, l)
        PROVE  LinksMove
    BY <2>3, DecidedIntro DEF ApiApprove, ApiReject
  <2>4. ASSUME NEW l \in Links, ApproveDeletion(u, l)
        PROVE  LinksMove
    BY <2>4, RemovedIntro DEF ApproveDeletion, Exists
  <2>5. ASSUME NEW l \in Links, RejectDeletion(u, l)
        PROVE  LinksMove
    <3>1. CanModerate(u, links[l].scope)
      BY <2>5 DEF RejectDeletion
    <3> QED
      BY <2>5, <3>1, RejectDeletionEffect DEF Moved, LinkMoves, LinksMove
  <2> QED
    BY <1>2, <2>1, <2>2, <2>3, <2>4, <2>5 DEF SingleCall, RejectEdit, LinksMove
<1>3. ASSUME NEW h \in Handlers, Continue(h)
      PROVE  LinksMove
  <2>1. CASE RequestLinkDeletion(h)
    <3>1. handler[h].subject \in Links
      BY <2>1, LinkTaskType DEF RequestLinkDeletion, LinkPcs
    <3>2. CASE links[handler[h].subject].status = "approved"
      BY <2>1, <3>1, <3>2, RequestLinkDeletionEffect
      DEF RequestLinkDeletion, Moved, LinkMoves, LinksMove
    <3>3. CASE links[handler[h].subject].status # "approved"
      BY <2>1, <3>3 DEF RequestLinkDeletion, LinksMove
    <3> QED
      BY <3>2, <3>3
  <2>2. CASE DeleteLink(h)
    <3>1. handler[h].subject \in Links
      BY <2>2, LinkTaskType DEF DeleteLink, LinkPcs
    <3> QED
      BY <2>2, <3>1, RemovedIntro DEF DeleteLink, LinksMove
  <2> QED
    BY <1>3, <2>1, <2>2
    DEF Continue, AnnounceLink, AnnounceEdit, TellSubmitter, WithdrawNotices,
        CreateEditRequest, ApproveEditRequest, LinksMove
<1> QED
  BY <1>1, <1>2, <1>3 DEF Next, Fail, DeleteNotification, vars, LinksMove

-----------------------------------------------------------------------------
(* Active links are reviewed.                                              *)

LEMMA ActiveStep ==
  ASSUME TypeOK, ActiveIsReviewed, [Next]_vars
  PROVE  ActiveIsReviewed'
<1> DEFINE Reviewed(row) == IF row.submittedBy = Nobody
                            THEN CanModerate(row.createdBy, row.scope)
                            ELSE row.reviewedBy \in Moderators(row.scope)
<1> SUFFICES ASSUME NEW l \in Links, links'[l].status \in {"approved", "deletion_requested"}
             PROVE  Reviewed(links'[l])
  BY DEF ActiveIsReviewed
<1>1. links[l].status \in {"approved", "deletion_requested"} => Reviewed(links[l])
  BY DEF ActiveIsReviewed
<1>2. CASE links'[l] = links[l]
  BY <1>1, <1>2
<1>3. ASSUME LinkMoves(l)
      PROVE  Reviewed(links'[l])
  <2>1. CASE Added(l, "approved") \/ Added(l, "pending")
    <3>1. PICK u \in Users, k \in Keywords, s \in Scopes :
            CanModerate(u, s) /\ links'[l] = NewLink("approved", k, s, u, Nobody)
      <4>1. links'[l].status # "pending"
        OBVIOUS
      <4> QED
        BY <2>1, <4>1 DEF Added, Becomes
    <3> QED
      BY <3>1 DEF NewLink
  <2>2. CASE Moved(l, "pending", "approved")
               /\ \E u \in Users : CanModerate(u, links[l].scope) /\ links'[l].reviewedBy = u
    <3>1. links[l].submittedBy # Nobody
      BY <2>2, NobodyIsNoId DEF Moved, TypeOK
    <3> QED
      BY <2>2, <3>1 DEF Moved, KeepsOrigin, Moderators
  <2>3. CASE Moved(l, "approved", "deletion_requested")
               /\ links'[l].createdBy = links[l].createdBy
               /\ links'[l].reviewedBy = links[l].reviewedBy
    BY <1>1, <2>3 DEF Moved, KeepsOrigin
  <2>4. CASE Moved(l, "deletion_requested", "approved")
               /\ links'[l].createdBy = links[l].createdBy
               /\ \E u \in Users : CanModerate(u, links[l].scope) /\ links'[l].reviewedBy = u
    BY <1>1, <2>4 DEF Moved, KeepsOrigin, Moderators
  <2>5. CASE Moved(l, "pending", "rejected") \/ Becomes(l, "deleted")
    BY <2>5 DEF Moved, Becomes
  <2> QED
    BY <1>3, <2>1, <2>2, <2>3, <2>4, <2>5 DEF LinkMoves
<1>4. ASSUME NEW m \in Links, m # l, LinkMoves(m)
      PROVE  links'[l] = links[l]
  BY <1>4 DEF LinkMoves, Added, Moved, Becomes, TypeOK
<1> QED
  BY <1>2, <1>3, <1>4, LinksStep DEF LinksMove

-----------------------------------------------------------------------------
(* Submitters are told the truth.                                          *)

Granted == {"approved", "deletion_requested", "deleted"}
Denied == {"rejected", "deleted"}

\* A decision is final, whatever else happens to the link.
LEMMA DecisionIsFinal ==
  ASSUME TypeOK, [Next]_vars, NEW l \in Links
  PROVE  /\ links[l].status \in Granted => links'[l].status \in Granted
         /\ links[l].status \in Denied => links'[l].status \in Denied
<1>1. CASE links'[l] = links[l]
  BY <1>1
<1>2. CASE LinkMoves(l)
  BY <1>2 DEF LinkMoves, Added, Moved, Becomes, Exists, Granted, Denied
<1>3. ASSUME NEW m \in Links, m # l, LinkMoves(m)
      PROVE  links'[l] = links[l]
  BY <1>3 DEF LinkMoves, Added, Moved, Becomes, TypeOK
<1> QED
  BY <1>1, <1>2, <1>3, LinksStep DEF LinksMove

\* A handler that reports a decision reports the one that was taken.
ReportsAgree ==
  \A h \in Handlers :
    /\ handler[h].pc \in {"withdraw approved", "tell approved"}
         => links[handler[h].subject].status \in Granted
    /\ handler[h].pc \in {"withdraw rejected", "tell rejected"}
         => links[handler[h].subject].status \in Denied

LEMMA ReportsStep ==
  ASSUME TypeOK, ReportsAgree, [Next]_vars
  PROVE  ReportsAgree'
<1> DEFINE Agrees(pc, st) ==
      /\ pc \in {"withdraw approved", "tell approved"} => st \in Granted
      /\ pc \in {"withdraw rejected", "tell rejected"} => st \in Denied
<1> SUFFICES ASSUME NEW g \in Handlers
             PROVE  Agrees(handler'[g].pc, links'[handler'[g].subject].status)
  BY DEF ReportsAgree
<1>1. Agrees(handler[g].pc, links[handler[g].subject].status)
  BY DEF ReportsAgree
<1>2. CASE handler'[g] = handler[g]
  <2>1. CASE handler[g].pc \in LinkPcs
    <3>1. handler[g].subject \in Links
      BY <2>1, LinkTaskType
    <3> QED
      BY <1>1, <1>2, <3>1, DecisionIsFinal
  <2>2. CASE handler[g].pc \notin LinkPcs
    BY <1>2, <2>2 DEF LinkPcs
  <2> QED
    BY <2>1, <2>2
<1>3. CASE handler'[g].pc = "idle"
  BY <1>3
<1>4. ASSUME NEW u \in Users, NEW l \in Links, NEW pc \in LinkPcs \ Reporting, Begin(g, pc, u, l)
      PROVE  handler'[g].pc \notin Reporting
  BY <1>4, BeginLinkType
<1>5. ASSUME NEW u \in Users, NEW l \in Links, Approve(g, u, l)
      PROVE  Agrees(handler'[g].pc, links'[handler'[g].subject].status)
  <2>1. links'[l].status = "approved"
    BY <1>5, ApproveLinkEffect DEF Approve, Becomes
  <2>2. handler'[g].pc = "withdraw approved" /\ handler'[g].subject = l
    <3>1. "withdraw approved" \in LinkPcs
      BY DEF LinkPcs
    <3> QED
      BY <1>5, <3>1, BeginLinkType DEF Approve
  <2> QED
    BY <2>1, <2>2 DEF Granted
<1>6. ASSUME NEW u \in Users, NEW l \in Links, Reject(g, u, l)
      PROVE  Agrees(handler'[g].pc, links'[handler'[g].subject].status)
  <2>1. links'[l].status = "rejected"
    BY <1>6, RejectLinkEffect DEF Reject, Becomes
  <2>2. handler'[g].pc = "withdraw rejected" /\ handler'[g].subject = l
    <3>1. "withdraw rejected" \in LinkPcs
      BY DEF LinkPcs
    <3> QED
      BY <1>6, <3>1, BeginLinkType DEF Reject
  <2> QED
    BY <2>1, <2>2 DEF Denied
<1>7. ASSUME NEW u \in Users, NEW e \in Edits, ApproveEdit(g, u, e)
      PROVE  handler'[g].pc \notin Reporting
  BY <1>7 DEF ApproveEdit, Begin, TypeOK, Reporting
<1>8. CASE WithdrawNotices(g)
  <2>1. /\ handler[g].pc = "withdraw approved" => GoOn(g, "tell approved")
        /\ handler[g].pc = "withdraw rejected" => GoOn(g, "tell rejected")
        /\ handler[g].pc \in LinkPcs
        /\ handler[g].pc \in {"withdraw approved", "withdraw rejected"}
        /\ links' = links
    BY <1>8 DEF WithdrawNotices, LinkPcs
  <2>2. /\ handler'[g].subject = handler[g].subject
        /\ handler[g].pc = "withdraw approved" => handler'[g].pc = "tell approved"
        /\ handler[g].pc = "withdraw rejected" => handler'[g].pc = "tell rejected"
    <3>1. "tell approved" \in LinkPcs /\ "tell rejected" \in LinkPcs
      BY DEF LinkPcs
    <3> QED
      BY <2>1, <3>1, GoOnType
  <2> QED
    BY <1>1, <2>1, <2>2
<1>9. CASE GoOn(g, "announce edit") /\ handler[g].pc = "suggest edit"
  BY <1>9, GoOnType DEF LinkPcs
<1> QED
  BY <1>2, <1>3, <1>4, <1>5, <1>6, <1>7, <1>8, <1>9, HandlerStep DEF HandlerMoves, Reporting

\* Where the notices after a step come from.
NoticeMoves(n) ==
  \/ \E m \in notices : n.link = m.link /\ n.type = m.type
  \/ n.type \in {"link_submitted", "edit_suggested"}
  \/ \E h \in Handlers :
       /\ n.link = handler[h].subject
       /\ Exists(n.link) /\ UNCHANGED links
       /\ \/ handler[h].pc = "tell approved" /\ n.type = "link_approved"
          \/ handler[h].pc = "tell rejected" /\ n.type = "link_rejected"

LEMMA NoticesStep ==
  ASSUME TypeOK, [Next]_vars, NEW n \in notices'
  PROVE  NoticeMoves(n)
<1>1. CASE n \in notices
  BY <1>1 DEF NoticeMoves
<1>2. ASSUME NEW l \in Links, Exists(l), Remove(l)
      PROVE  NoticeMoves(n)
  BY <1>2, RemoveEffect DEF NoticeMoves
<1>3. ASSUME NEW U, NEW t, NEW l, CreateNotifications(U, t, l), n \notin notices
      PROVE  n.type = t /\ n.link = l /\ Exists(l)
  BY <1>3 DEF CreateNotifications
<1>4. ASSUME NEW h \in Handlers, Continue(h), n \notin notices
      PROVE  NoticeMoves(n)
  <2>1. CASE AnnounceLink(h) \/ AnnounceEdit(h)
    BY <1>3, <1>4, <2>1 DEF AnnounceLink, AnnounceEdit, NoticeMoves
  <2>2. CASE TellSubmitter(h)
    BY <1>3, <1>4, <2>2 DEF TellSubmitter, NoticeMoves
  <2>3. CASE WithdrawNotices(h)
    BY <1>4, <2>3 DEF WithdrawNotices, DeleteNotificationsForLink
  <2>4. CASE DeleteLink(h)
    <3>1. handler[h].subject \in Links
      BY <2>4, LinkTaskType DEF DeleteLink, LinkPcs
    <3> QED
      BY <1>2, <1>4, <2>4, <3>1 DEF DeleteLink
  <2> QED
    BY <1>4, <2>1, <2>2, <2>3, <2>4
    DEF Continue, RequestLinkDeletion, CreateEditRequest, ApproveEditRequest
<1>5. ASSUME NEW h \in Handlers, NEW u \in Users, Request(h, u)
      PROVE  NoticeMoves(n)
  BY <1>1, <1>5
  DEF Request, CreateGlobalLink, CreateOrgLink, Approve, Reject, Delete, RequestDeletion,
      RequestEdit, SubmitSuggestEdit, ApproveEdit
<1>6. ASSUME NEW u \in Users, SingleCall(u)
      PROVE  NoticeMoves(n)
  <2>1. ASSUME NEW l \in Links, ApproveDeletion(u, l)
        PROVE  NoticeMoves(n)
    BY <1>2, <2>1 DEF ApproveDeletion, Exists
  <2> QED
    BY <1>1, <1>6, <2>1
    DEF SingleCall, ApiCreateGlobalLink, ApiCreateOrgLink, ApiApprove, ApiReject,
        RejectDeletion, RejectEdit
<1> QED
  BY <1>1, <1>4, <1>5, <1>6 DEF Next, Fail, DeleteNotification, vars

LEMMA TruthStep ==
  ASSUME TypeOK, TypeOK', ReportsAgree, AuthorsToldTheTruth, [Next]_vars
  PROVE  AuthorsToldTheTruth'
<1>1. ASSUME NEW n \in notices', n.type = "link_approved"
      PROVE  n.link \in Links /\ links[n.link].status \in Granted
  <2>1. n.link \in Links
    BY DEF TypeOK, Notices
  <2> QED
    BY <1>1, <2>1, NoticesStep DEF NoticeMoves, AuthorsToldTheTruth, ReportsAgree, Granted
<1>2. ASSUME NEW n \in notices', n.type = "link_rejected"
      PROVE  n.link \in Links /\ links[n.link].status \in Denied
  <2>1. n.link \in Links
    BY DEF TypeOK, Notices
  <2> QED
    BY <1>2, <2>1, NoticesStep DEF NoticeMoves, AuthorsToldTheTruth, ReportsAgree, Denied
<1>3. ASSUME NEW n \in notices', NEW m \in notices', m.link = n.link,
             n.type = "link_approved", m.type = "link_rejected"
      PROVE  FALSE
  <2>1. ~Exists(n.link)
    BY <1>1, <1>2, <1>3 DEF Granted, Denied, Exists
  <2>2. \E x \in notices : x.link = n.link /\ x.type = "link_approved"
    BY <1>3, <2>1, NoticesStep DEF NoticeMoves
  <2>3. \E x \in notices : x.link = n.link /\ x.type = "link_rejected"
    BY <1>3, <2>1, NoticesStep DEF NoticeMoves
  <2> QED
    BY <2>2, <2>3 DEF AuthorsToldTheTruth
<1>4. ASSUME NEW n \in notices', n.type = "link_approved"
      PROVE  links'[n.link].status \in Granted
  BY <1>1, <1>4, DecisionIsFinal
<1>5. ASSUME NEW n \in notices', n.type = "link_rejected"
      PROVE  links'[n.link].status \in Denied
  BY <1>2, <1>5, DecisionIsFinal
<1> QED
  BY <1>3, <1>4, <1>5 DEF AuthorsToldTheTruth, Granted, Denied

-----------------------------------------------------------------------------
(* The moderation implements the life cycle of links.                      *)

statuses == [m \in Links |-> links[m].status]
places   == [m \in Links |-> <<links[m].keyword, links[m].scope>>]

LEMMA MapBecomes ==
  ASSUME TypeOK, NEW l \in Links, NEW st, Becomes(l, st)
  PROVE  /\ statuses' = [statuses EXCEPT ![l] = st]
         /\ places' = [places EXCEPT ![l] = <<links'[l].keyword, links'[l].scope>>]
<1>1. links'[l].status = st /\ \A m \in Links : m # l => links'[m] = links[m]
  BY DEF Becomes, TypeOK
<1> QED
  BY <1>1 DEF statuses, places

LEMMA MapKeeps ==
  ASSUME TypeOK, NEW l \in Links, NEW st, Becomes(l, st), KeepsOrigin(l)
  PROVE  places' = places
  BY MapBecomes DEF KeepsOrigin, places

LEMMA MapInit == Init => Lifecycle!Init
  BY DEF Init, Lifecycle!Init, NoLink

LEMMA MapAdded ==
  ASSUME TypeOK, NEW l \in Links, NEW st \in {"approved", "pending"}, Added(l, st)
  PROVE  Lifecycle!Next
<1>1. PICK k \in Keywords, s \in Scopes :
        Free(k, s) /\ links'[l].keyword = k /\ links'[l].scope = s
  BY DEF Added, NewLink
<1>2. <<k, s>> \in Keywords \X Scopes
  OBVIOUS
<1>3. /\ statuses' = [statuses EXCEPT ![l] = st]
      /\ places' = [places EXCEPT ![l] = <<k, s>>]
  BY <1>1, MapBecomes DEF Added
<1>4. statuses[l] = "none"
  BY DEF Added, statuses
<1>5. \A m \in Links : Lifecycle!Exists(m) => places[m] # <<k, s>>
  BY <1>1 DEF Free, Exists, Lifecycle!Exists, places
<1>6. Lifecycle!Add(l, <<k, s>>, st)
  BY <1>3, <1>4, <1>5 DEF Lifecycle!Add, Lifecycle!Exists, statuses, places
<1> QED
  BY <1>2, <1>6 DEF Lifecycle!Next, Lifecycle!Create, Lifecycle!Submit

LEMMA MapMoved ==
  ASSUME TypeOK, NEW l \in Links, NEW from, NEW to, Moved(l, from, to)
  PROVE  Lifecycle!Move(l, from, to)
<1>1. statuses' = [statuses EXCEPT ![l] = to] /\ places' = places
  BY MapBecomes, MapKeeps DEF Moved
<1>2. statuses[l] = from
  BY DEF Moved, statuses
<1> QED
  BY <1>1, <1>2 DEF Lifecycle!Move, statuses, places

LEMMA MapRemoved ==
  ASSUME TypeOK, NEW l \in Links, Exists(l), Becomes(l, "deleted"), KeepsOrigin(l)
  PROVE  Lifecycle!Delete(l)
<1>1. statuses' = [statuses EXCEPT ![l] = "deleted"] /\ places' = places
  BY MapBecomes, MapKeeps
<1>2. Lifecycle!Exists(l)
  BY DEF Exists, Lifecycle!Exists
<1> QED
  BY <1>1, <1>2 DEF Lifecycle!Delete, statuses, places

LEMMA MapStep ==
  ASSUME TypeOK, [Next]_vars
  PROVE  [Lifecycle!Next]_(Lifecycle!lifecycleVars)
<1>1. ASSUME NEW l \in Links, LinkMoves(l)
      PROVE  Lifecycle!Next
  <2>1. CASE Added(l, "approved") \/ Added(l, "pending")
    BY <2>1, MapAdded
  <2>2. CASE Moved(l, "pending", "approved") \/ Moved(l, "pending", "rejected")
    BY <2>2, MapMoved DEF Lifecycle!Next, Lifecycle!Decide
  <2>3. CASE Moved(l, "approved", "deletion_requested")
    BY <2>3, MapMoved DEF Lifecycle!Next, Lifecycle!RequestDeletion
  <2>4. CASE Moved(l, "deletion_requested", "approved")
    BY <2>4, MapMoved DEF Lifecycle!Next, Lifecycle!Restore
  <2>5. CASE Exists(l) /\ Becomes(l, "deleted") /\ KeepsOrigin(l)
    BY <2>5, MapRemoved DEF Lifecycle!Next
  <2> QED
    BY <1>1, <2>1, <2>2, <2>3, <2>4, <2>5 DEF LinkMoves
<1>2. CASE UNCHANGED links
  BY <1>2 DEF Lifecycle!lifecycleVars
<1> QED
  BY <1>1, <1>2, LinksStep DEF LinksMove

-----------------------------------------------------------------------------
(* Theorems.                                                               *)

IInv == TypeOK /\ ReviewedFound /\ AppliedEditsAreApproved
        /\ ActiveIsReviewed /\ ReportsAgree /\ AuthorsToldTheTruth

LEMMA InitInv == Init => IInv
<1> SUFFICES ASSUME Init
             PROVE  IInv
  OBVIOUS
<1>1. TypeOK
  <2>1. \A h \in Handlers : handler[h].pc = "idle"
    BY DEF Init, Idle
  <2>2. \A l \in Links : links[l].status = "none"
    BY DEF Init, NoLink
  <2> QED
    BY <2>1, <2>2 DEF Init, TypeOK
<1>2. ReviewedFound /\ ReportsAgree
  BY DEF Init, Idle, ReviewedFound, ReportsAgree
<1>3. AppliedEditsAreApproved /\ AuthorsToldTheTruth
  BY DEF Init, AppliedEditsAreApproved, AuthorsToldTheTruth
<1>4. ActiveIsReviewed
  BY DEF Init, NoLink, ActiveIsReviewed
<1> QED
  BY <1>1, <1>2, <1>3, <1>4 DEF IInv

LEMMA NextInv == IInv /\ [Next]_vars => IInv'
<1> SUFFICES ASSUME IInv, [Next]_vars
             PROVE  IInv'
  OBVIOUS
<1>1. TypeOK'
  BY TypeStep DEF IInv
<1>2. ReviewedFound'
  BY ReviewedStep DEF IInv
<1>3. AppliedEditsAreApproved'
  <2>1. \A e \in applied' : e \in Edits
    BY <1>1 DEF TypeOK
  <2> QED
    BY <2>1, EditsStep DEF IInv, AppliedEditsAreApproved, EditsMove, EditMoves
<1>4. ActiveIsReviewed'
  BY ActiveStep DEF IInv
<1>5. ReportsAgree'
  BY ReportsStep DEF IInv
<1>6. AuthorsToldTheTruth'
  BY <1>1, TruthStep DEF IInv
<1> QED
  BY <1>1, <1>2, <1>3, <1>4, <1>5, <1>6 DEF IInv

LEMMA Invariant == Spec => []IInv
  BY InitInv, NextInv, PTL DEF Spec

\* The tables and the requests being served keep their types.
THEOREM TypeCorrect == Spec => []TypeOK
<1>1. IInv => TypeOK
  BY DEF IInv
<1> QED
  BY <1>1, Invariant, PTL

\* Whatever path a link took to be active, a moderator of its scope created,
\* approved or restored it.
THEOREM OnlyReviewedLinksAreActive == Spec => []ActiveIsReviewed
<1>1. IInv => ActiveIsReviewed
  BY DEF IInv
<1> QED
  BY <1>1, Invariant, PTL

\* No notice to a submitter contradicts what became of the link, with any
\* number of reviewers and requests at a time.
THEOREM SubmittersAreToldTheTruth == Spec => []AuthorsToldTheTruth
<1>1. IInv => AuthorsToldTheTruth
  BY DEF IInv
<1> QED
  BY <1>1, Invariant, PTL

\* An edit request whose change was made is never on record as rejected.
THEOREM AppliedEditsAreOnRecord == Spec => []AppliedEditsAreApproved
<1>1. IInv => AppliedEditsAreApproved
  BY DEF IInv
<1> QED
  BY <1>1, Invariant, PTL

\* The decision of an edit request that nobody is still approving is final, with
\* any number of reviewers and requests at a time.
THEOREM EditDecisionsSettle == Spec => DecisionsSettle
<1>1. IInv /\ [Next]_vars =>
        [\A e \in Edits : edits[e].status \in {"approved", "rejected"} /\ ~BeingApproved(e) =>
           /\ edits'[e] = edits[e] \/ edits'[e].status = "deleted"
           /\ ~BeingApproved(e)']_vars
  BY SettledStep DEF IInv
<1> QED
  BY <1>1, Invariant, PTL DEF Spec, DecisionsSettle

\* The handlers implement the life cycle of links: initial states map to
\* initial states, and every step to a step of one link or to none.
THEOREM RefinesLifecycle == Spec => ImplementsLifecycle
<1>1. Init => Lifecycle!Init
  BY MapInit
<1>2. TypeOK /\ [Next]_vars => [Lifecycle!Next]_(Lifecycle!lifecycleVars)
  BY MapStep
<1> QED
  BY <1>1, <1>2, TypeCorrect, PTL DEF Spec, ImplementsLifecycle, Lifecycle!Spec
=============================================================================
