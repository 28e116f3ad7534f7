------------------------------ MODULE HealthCheck ------------------------------
(***************************************************************************)
(* Health checks of shared links: the background job                       *)
(* (internal/jobs/health_checker.go), the checks that moderators ask for   *)
(* (internal/handlers/health.go and api/health.go) and the edits that      *)
(* reset a result (internal/handlers/manage.go, api/links.go).             *)
(*                                                                         *)
(* A check reads a row, asks the URL for up to ten seconds and writes what *)
(* it found into the row by id.  Of a result the module keeps only the URL *)
(* it is about; of time only the order of the checks and which of them     *)
(* are older than maxAge.                                                  *)
(***************************************************************************)
EXTENDS Integers, SequencesExt

CONSTANTS
  Links,
  URLs,
  Handlers,  \* checks asked for by moderators at the same time
  None,      \* no URL, no result
  BatchSize, \* links per round of the job (50)
  MaxEdits   \* bound on the edits in a behaviour

ASSUME HealthAssumption ==
  /\ None \notin Links \cup URLs
  /\ BatchSize \in Nat \ {0}
  /\ MaxEdits \in Nat

VARIABLES
  links,     \* table links: status, URL and the URL that health_status is about
  checked,   \* the links with a health_checked_at, oldest first
  expired,   \* those among them that were checked before the cutoff
  job,       \* what is left of the round of the job
  manual,    \* the row each handler is checking
  edits,     \* number of edits (bounds the model)
  overtaken  \* history: links that got another URL during a check of the old one

vars == <<links, checked, expired, job, manual, edits, overtaken>>

NoLink == [status |-> "none", url |-> None, result |-> None]

Deleted == [NoLink EXCEPT !.status = "deleted"]

\* "hidden" stands for every status but approved.
Exists(l)   == links[l].status \in {"approved", "hidden"}
Approved(l) == links[l].status = "approved"

\* What a check reads of a link and keeps until its result is written.
Row(l) == [link |-> l, url |-> links[l].url]
Idle   == [link |-> None, url |-> None]

\* The rows that were read and whose result is not written.
BeingChecked == ToSet(job) \cup {manual[h] : h \in Handlers}

Init ==
  /\ links = [l \in Links |-> NoLink]
  /\ checked = <<>>
  /\ expired = {}
  /\ job = <<>>
  /\ manual = [h \in Handlers |-> Idle]
  /\ edits = 0
  /\ overtaken = {}

-----------------------------------------------------------------------------
(* Checks.                                                                 *)

Expire ==
  /\ \E n \in DOMAIN checked :
       /\ checked[n] \notin expired
       /\ expired' = expired \cup {checked[i] : i \in 1..n}
  /\ UNCHANGED <<links, checked, job, manual, edits, overtaken>>

\* The row may be gone, which is an error that changes nothing.
UpdateLinkHealthStatus(row) ==
  \/ /\ Exists(row.link)
     /\ links' = [links EXCEPT ![row.link].result = row.url]
     /\ checked' = Append(RemoveFirst(checked, row.link), row.link)
     /\ expired' = expired \ {row.link}
  \/ ~Exists(row.link) /\ UNCHANGED <<links, checked, expired>>

Due == {l \in Links : Approved(l) /\ (l \in ToSet(checked) => l \in expired)}

CheckedBefore(l, m) == \E i, j \in DOMAIN checked : i < j /\ checked[i] = l /\ checked[j] = m

\* Mutant of Older: NULLS LAST, the default of ORDER BY.
OlderNullsLast(l, m) ==
  \/ l \in ToSet(checked) /\ m \notin ToSet(checked)
  \/ CheckedBefore(l, m)

\* ORDER BY health_checked_at NULLS FIRST.
Older(l, m) ==
  \/ l \notin ToSet(checked) /\ m \in ToSet(checked)
  \/ CheckedBefore(l, m)

GetLinksNeedingHealthCheck ==
  {batch \in SeqOf(Due, BatchSize) :
     /\ IsInjective(batch)
     /\ Len(batch) = BatchSize \/ ToSet(batch) = Due
     /\ \A i, j \in DOMAIN batch : i < j => ~Older(batch[j], batch[i])
     /\ \A l \in Due \ ToSet(batch), i \in DOMAIN batch : ~Older(l, batch[i])}

\* A round begins at the start and whenever the ticker finds the job idle; the last
\* row of it is checked some minutes after it was read.
CheckAll ==
  /\ job = <<>>
  /\ \E batch \in GetLinksNeedingHealthCheck :
       /\ batch # <<>>
       /\ job' = [i \in DOMAIN batch |-> Row(batch[i])]
  /\ UNCHANGED <<links, checked, expired, manual, edits, overtaken>>

\* The result of the next link of the round is written.
StoreJobResult(l) ==
  /\ job # <<>> /\ Head(job).link = l
  /\ UpdateLinkHealthStatus(Head(job))
  /\ job' = Tail(job)
  /\ UNCHANGED <<manual, edits, overtaken>>

\* The database refuses it; the round goes on.
LoseJobResult ==
  /\ job # <<>>
  /\ job' = Tail(job)
  /\ UNCHANGED <<links, checked, expired, manual, edits, overtaken>>

\* The page and the API do the same.
CheckLink(h, l) ==
  /\ manual[h] = Idle
  /\ Exists(l)
  /\ manual' = [manual EXCEPT ![h] = Row(l)]
  /\ UNCHANGED <<links, checked, expired, job, edits, overtaken>>

StoreManualResult(h) ==
  /\ manual[h] # Idle
  /\ UpdateLinkHealthStatus(manual[h])
  /\ manual' = [manual EXCEPT ![h] = Idle]
  /\ UNCHANGED <<job, edits, overtaken>>

-----------------------------------------------------------------------------
(* What happens to the links meanwhile.                                    *)

CreateLink(l, u, status) ==
  /\ links[l] = NoLink
  /\ links' = [links EXCEPT ![l] = [status |-> status, url |-> u, result |-> None]]
  /\ UNCHANGED <<checked, expired, job, manual, edits, overtaken>>

\* Reviews and requests of deletion, refused or not; a link may be checked in any status.
SetStatus(l, status) ==
  /\ Exists(l)
  /\ links' = [links EXCEPT ![l].status = status]
  /\ UNCHANGED <<checked, expired, job, manual, edits, overtaken>>

DeleteLink(l) ==
  /\ Exists(l)
  /\ links' = [links EXCEPT ![l] = Deleted]
  /\ checked' = RemoveFirst(checked, l)
  /\ expired' = expired \ {l}
  /\ UNCHANGED <<job, manual, edits, overtaken>>

\* Is a check of l under way that read another URL?
Overtakes(l, u) == \E row \in BeingChecked : row.link = l /\ row.url # u

Edit(l, u) ==
  /\ Exists(l)
  /\ edits < MaxEdits
  /\ edits' = edits + 1
  /\ overtaken' = IF Overtakes(l, u) THEN overtaken \cup {l} ELSE overtaken
  /\ UNCHANGED <<job, manual>>

\* Mutant of UpdateLinkAndResetHealth: UpdateLink, which resets nothing.
UpdateLink(l, u) ==
  /\ Edit(l, u)
  /\ links' = [links EXCEPT ![l].url = u]
  /\ UNCHANGED <<checked, expired>>

\* Mutant of UpdateLinkAndResetHealth: health_checked_at stays.
UpdateLinkAndResetStatus(l, u) ==
  /\ Edit(l, u)
  /\ links' = [links EXCEPT ![l].url = u, ![l].result = None]
  /\ UNCHANGED <<checked, expired>>

\* A direct edit, or an approved edit request.
UpdateLinkAndResetHealth(l, u) ==
  /\ Edit(l, u)
  /\ links' = [links EXCEPT ![l].url = u, ![l].result = None]
  /\ checked' = RemoveFirst(checked, l)
  /\ expired' = expired \ {l}

\* The process stops in the middle of everything and starts again.
Restart ==
  /\ job' = <<>>
  /\ manual' = [h \in Handlers |-> Idle]
  /\ UNCHANGED <<links, checked, expired, edits, overtaken>>

-----------------------------------------------------------------------------

Checks ==
  \/ Expire \/ CheckAll \/ LoseJobResult
  \/ \E l \in Links : StoreJobResult(l)
  \/ \E h \in Handlers, l \in Links : CheckLink(h, l)
  \/ \E h \in Handlers : StoreManualResult(h)

Changes(l) ==
  \/ \E u \in URLs, status \in {"approved", "hidden"} : CreateLink(l, u, status)
  \/ \E status \in {"approved", "hidden"} : SetStatus(l, status)
  \/ DeleteLink(l)
  \/ \E u \in URLs : UpdateLinkAndResetHealth(l, u)

Next == Checks \/ (\E l \in Links : Changes(l)) \/ Restart

Spec == Init /\ [][Next]_vars

\* Time passes, the ticker ticks, and a database that is asked again and again
\* to store the result for a link does so in the end.
Fairness ==
  /\ WF_vars(Expire)
  /\ WF_vars(CheckAll)
  /\ \A l \in Links : SF_vars(StoreJobResult(l))

FairSpec == Spec /\ Fairness

-----------------------------------------------------------------------------
(* Properties.                                                             *)

Rows == [link : Links, url : URLs]

LinksType ==
  links \in [Links -> {NoLink, Deleted} \cup [status : {"approved", "hidden"}, url : URLs,
                                             result : URLs \cup {None}]]

\* Every variable has its type; a link has a result exactly when it has a time
\* of its last check, and old checks are the first of them.
TypeOK ==
  /\ LinksType
  /\ IsInjective(checked)
  /\ ToSet(checked) = {l \in Links : links[l].result # None}
  /\ \E n \in 0..Len(checked) : expired = {checked[i] : i \in 1..n}
  /\ job \in Seq(Rows) /\ Len(job) <= BatchSize
  /\ manual \in [Handlers -> Rows \cup {Idle}]
  /\ edits \in 0..MaxEdits
  /\ overtaken \subseteq Links

\* manage.go, Update: "If URL changed, reset health status".  A result about a URL
\* that the link does not have comes only from a check that an edit overtook.
WrongOnlyIfOvertaken ==
  \A l \in Links : Exists(l) /\ links[l].result \notin {None, links[l].url} => l \in overtaken

\* README: "URL health monitoring".  An approved link without a result, or with the
\* result of a URL it had before, is checked in the end, however many links wait,
\* restarts and failed writes there are.
EveryLinkIsChecked ==
  \A l \in Links : Approved(l) ~> (Approved(l) => links[l].result = links[l].url)
================================================================================
