# golinks: specifications, model checking and proofs

golinks is a "go/keyword" service: a Go web server (fiber) in front of
PostgreSQL, with an optional Redis, an OIDC provider and SMTP. Any number of
requests run at the same time, every database call is a transaction of its own
(the code opens an explicit transaction in one place only), and a few goroutines
run for the life of the process. This directory holds TLA+ models of the parts
where order, failure and concurrency decide whether the program is correct,
the TLC runs that check them and the proofs that TLAPS checks.

## 1. Inventory

| part | code | state | operations | what must hold | model |
|---|---|---|---|---|---|
| Counting clicks and lookups | `internal/db/write_buffer.go`, `deduplicate.go`, `handlers/redirect.go`, `metrics/metrics.go`, `cmd/server/main.go` | in-memory maps under a mutex; `links.click_count`, `user_links.click_count`, `click_history`, `keyword_lookups`; Redis keys | record, swap, flush by ticker, last flush at shutdown | nothing counted twice; nothing lost without a failure; totals agree with history; counts arrive; shutdown ends | `WriteBuffer`, abstract `ClickLedger` |
| Links and their moderation | `internal/handlers/{links,manage,moderation,notifications}.go`, `handlers/api/{links,moderation}.go`, `internal/db/{links,link_edit_requests,notifications}.go` | tables `links`, `link_edit_requests`, `notifications` | create, submit, approve, reject, request/approve/refuse deletion, delete, request/suggest/approve/reject edits, notices | only reviewed links are active; only the author or a moderator deletes; reports are true; limits | `Moderation`, abstract `LinkLifecycle` |
| Roles and permissions | `internal/models/user.go`, `canModerate`, `canManageLink`, `canDelete` | `users.role`, `users.organization_id` | checks | the scope of a link decides who may moderate it; queues and mails agree with that | `Roles`, `Listings` |
| Personal and shared links | `internal/db/{shared_links,user_links}.go`, `handlers/{shared_links,user_links}.go` | `shared_links`, `user_links` | offer, accept (copy, then delete), decline, withdraw, create, delete | limits; an accepted offer is copied; one offer per sender, recipient and keyword | `SharedLinks` |
| Health checks | `internal/jobs/health_checker.go`, `handlers/health.go`, `handlers/api/health.go` | `links.health_*` | hourly job, manual check, reset when the URL changes | a status belongs to the present URL; every link is checked | `HealthCheck` |
| Login and users | `handlers/{auth,users}.go`, `api/users.go`, `internal/db/{users,organizations}.go` | `users`, `organizations` | OIDC callback, creation of organizations, promotion, role and organization changes, deletion | the role agrees with its source; one organization per slug; an administrator remains | `Accounts` |
| Signing in and out | `middleware/auth.go`, `handlers/{auth,redirect}.go`, `oidchealth/probe.go`, session middleware of `server/server.go` | the session behind the cookie; the probe's verdict | redirect to the login, OIDC round trip, callback and its recovery, sign-out, probe | a visit ends where it was meant to; no loop of redirects; a sign-out holds | `SignIn` |
| Keyword resolution and lists | `internal/db/{resolve,links,users}.go`, `handlers/{links,moderation,manage}.go`, `middleware/unfurl.go` | reads the tables above | resolve, search, suggest, browse, check a keyword, queues, management | personal before organization before global, approved links only; every copy of a condition agrees with the others | `Listings` |
| Email | `internal/email` | none | notify moderators and authors | those moderators are mailed who may decide | the moderators mailed, in `Listings` |
| Fallback redirects | `handlers/{fallback_redirects,profile,redirect}.go`, `internal/db/fallback_redirects.go`, `config.go` (REDIRECT_FALLBACKS), `cmd/server/main.go` | `fallback_redirects`, `users.fallback_redirect_id` | options of an organization, choices of users, redirect, sync at every start | a choice leads to an option of the own organization and survives restarts; the configured default is there once | `Fallbacks` |
| Configuration, validation, texts, views, migrations, chart | `internal/{config,validation}`, `email/templates.go`, `server/routes.go`, `views`, `migrations`, `chart` | none that changes at run time | - | - | not modelled: parsing, text, wiring. The unique indexes and foreign keys of the migrations are part of the models |

How they interact: a request handler reads the user row once (middleware), then
makes its database calls; between two of them any other request may run.
Redirects hand their counts to detached goroutines, which share the write
buffer with the ticker and with `main` during shutdown. Deleting a link cascades
to its history and edit requests and unlinks its notices, so moderation
interferes with the flush (a count for a deleted link) and with other requests
(an edit request that is gone). Hazards, with their lines, are in
`PROJECT.json`.

## 2. Modules

| module | what it is |
|---|---|
| `ClickLedger` | abstract: increments become outstanding, are stored at most once, all of a batch at once, or are lost |
| `WriteBuffer` | the counters of one process, from the redirect to the row; `ImplementsLedger` is its refinement of `ClickLedger` |
| `WriteBufferProofs` | theorems about `WriteBuffer` |
| `Roles` | the permission checks, over constant roles |
| `LinkLifecycle` | abstract: the life of a link and of its place (keyword and scope) |
| `Moderation` | handlers and database statements about shared links; `ImplementsLifecycle` is its refinement of `LinkLifecycle` |
| `ModerationProofs` | theorems about `Moderation` |
| `Listings` | what readers, moderators and authors are shown of the links of `Moderation` (EXTENDS it) |
| `ListingsProofs` | theorems about `Listings`, about deletions and about the limit of pending requests |
| `MCModeration` | `Listings` with role assignments and symmetry for TLC |
| `Accounts` | users, roles and organizations: the OIDC callback and the administrators |
| `MCAccounts` | the first administrator and symmetry for TLC |
| `AccountsProofs` | theorems about `Accounts` |
| `SharedLinks` | personal links and the offers by which users share them |
| `MCSharedLinks` | symmetry for TLC |
| `SharedLinksProofs` | theorems about `SharedLinks` |
| `HealthCheck` | the background job, checks by moderators and the edits that reset a result |
| `HealthCheckProofs` | a theorem about `HealthCheck` |
| `Fallbacks` | options, choices and the sync of fallback redirects |
| `MCFallbacks` | the configured organization and symmetry for TLC |
| `FallbacksProofs` | theorems about `Fallbacks` |
| `SignIn` | the tabs of one browser, its session, the issuer and the probe |
| `SignInProofs` | theorems about `SignIn` |

### WriteBuffer

* `buffer` is the struct `writeBuffer`. Its maps for links, personal links and
  lookups have disjoint keys and are one function `count`; `historyClicks` is
  `history`, per link and hour. A missing map entry is 0.
* `Resolve` / `Redirect` / `Miss` / `Random` are the handlers: a redirect holds
  the row it resolved (`request`), then starts its goroutines (`Spawn`). A
  goroutine is a unit of `spawned`; `Record` is `record*`, one step since it
  holds the mutex.
* `Swap` / `FinalSwap` are `swap` called by the ticker and by `main`; `Send` is
  the moment `SendBatch` owns a connection; `Commit` and `Abort` are the two
  outcomes of the implicit transaction the pipeline of statements forms. `Abort`
  needs a reason: a history row for a deleted link (foreign key), an INTEGER
  column out of range, a deadlock with the other batch (Go iterates its maps in
  random order, so two batches with two common rows of one table may lock them
  in opposite orders), a failing database, or the end of the 30 s of the
  shutdown. `SendTooLate` is a ticker batch that finds the pool closed.
* `BeginShutdown`, `Drained`, `FinalSwap`, `Exit`, `ForcedExit` follow the end of
  `main`; `Exit` waits for connections in use as `pgxpool.Close` does. `Crash`
  and `Restart` keep the database and Redis and forget the rest.
* `counted` and `mishaps` are history variables, read by properties only.
* `Environment` selects which outside events a run allows. Bounds: `MaxRedirects`,
  `MaxHour`; `MaxCount` stands for 2^31 - 1.

### Moderation

* `links`, `edits`, `notices` are the tables. A deleted row keeps what it held,
  with status `deleted`, so that properties can speak about it; ids (UUIDs) are
  not reused. `notices` is a set: a duplicate notice is the same notice. After a
  deletion a notice has `linked = FALSE` (ON DELETE SET NULL).
* An action that ends with `Begin(h, pc, ...)` is the first part of a handler,
  up to its first effect; the action that names this `pc` is the next call. The
  order of calls is the order in the code, and `Fail` may end any of them. A
  read is merged with the call that follows it only when nothing can change the
  answer in between: the caller's role (the row the middleware read), the scope
  and the submitter of a link.
* `Free` is the two unique indexes of migration 008, which ignore the status: a
  rejected or pending link still occupies its keyword. The handlers also look for
  a conflict first; that check only words the answer and is left out.
* `ApproveEditRequest` has an explicit transaction, whose two updates commit
  together; its SELECT does not lock, so it belongs to the earlier action.
* One keyword per creation: `Create` with several keywords is the same action
  several times (`Request`). `Delete` of the pages and of the API are one action since they do
  the same. The direct `Update` by a moderator changes only the URL, the
  description and the health of a link, none of which the module has.
* A submission that was rejected keeps its row, so nobody can have its keyword in this
  scope until the row is deleted. The row is on no queue and not on the management
  page, to which the notice of the rejection links; only the submitter's profile shows it.
* `applied` is a history variable: the edit requests whose values reached the link.

### Listings

* It adds operators to `Moderation` and no variable: every query of the code that
  selects links is one operator, named after the function, and the properties compare
  these in every state that submission, review and deletion can reach. The code writes
  the condition "approved, and global or of the reader's organization" about a dozen
  times, and the conditions for moderators once per page.
* `Readers` ranges over sessions, organizations and sets of personal keywords;
  `Members` over every role and organization, because these change at any time: what
  is compared is a query with a permission for one and the same user row.
* `Candidates` are the four UNIONs of `ResolveKeywordForUser`, which leaves the rows of
  the best priority among them: LIMIT 1 is a matter of one row because of the unique
  indexes, which is part of what is checked.
* Three differences are in the code and in the statements: `CheckKeyword` looks at
  approved links only, so that a keyword it calls free may be taken (the property has
  the other direction); a moderator of an organization does not find the links he
  wrote elsewhere on his management page; and any moderator of an organization may decide
  any edit request.
* The last of these is `MayDecideEdits`: `ApproveEdit` and `RejectEdit` only ask
  `IsOrgMod`, where all other decisions ask `canModerate`. Queue and mails of edit requests keep to
  the moderator's scope, so `QueuesMatchPermissions` says of them that they agree and that
  the moderator may decide what he is shown; that he may decide nothing else is promised by the
  documentation and not true (section 5).
* A page and its total are two calls and need not agree when another request
  commits between them; `BrowseIsConsistent` is about one state.
* Of the mails, the choice of moderators is compared with their permissions. Mails to
  authors are left out: a decision mails whoever submitted the link, and nothing calls the function that would mail about a deletion.

### Accounts

* `users` is the table without the profile; a row that was deleted stays as
  `Gone`, since its id is not used again (a person who comes back gets a new row).
  `orgs` holds the slugs that have a row; nothing in the code deletes one.
* A login is `Callback` (up to `UpsertUser`), then `GetOrganizationBySlug`,
  `CreateOrganization`, `JoinOrganization`, `PromoteOrgModerators`, `MapRole`: one
  action per statement, in the order of the code. `handler` keeps what the callback
  keeps in variables. The errors that the code ignores or logs are the second
  disjunct of these actions, and `SkipOrganization`; in particular a login goes on
  with the organization that it failed to write.
* An administrator's request is a pair of actions: `RequestRole`, `RequestOrg`,
  `RequestDeletion` with the checks on the row that the middleware read, and the
  statement. The pages and the API have the same checks and statements.
* Whether groups are mapped at all is the constant `HasGroupRoleMapping`; the claim
  and the groups of a login are chosen anew each time.
* `author`, `lapses` and `adrift` are history variables, read by properties only. A row is
  adrift from the moment its role and its organization may have come apart (an UPDATE of a
  login that failed or never came, a login beside another of the same row, a move by an
  administrator) until a login begins that is alone.

### SharedLinks

* `shares` is the table `shared_links`, which holds pending offers only: a row that
  was deleted stays as `Deleted`, since its id is not used again, and counts nowhere.
  `personal` is `user_links` under its unique index, one URL per user and keyword.
* `Create` is the handler up to the two counts of `db.CreateSharedLink`
  (`CountShares`), which are one query; the insertion (`CreateSharedLink`) is the next
  statement and fails on the index `unique_pending_share`. The recipient's own
  link, looked for by the handler, may appear meanwhile.
* `Accept` reads the offer; `CopyLink` inserts the recipient's link or ends the
  request; `DeleteSharedLink` is the DELETE that acceptances, refusals and
  withdrawals share. `Fail` may end any of them, which leaves an offer that was
  copied and not deleted: it can be declined or withdrawn, and accepted only after the
  copy was deleted.
* Requests about one's own links are single statements without a handler, so they fall
  between any two steps of the others.
* `copied` and `crowded` are history variables, read by properties only.

### HealthCheck

* `links` keeps of a row its status (approved or not, since the job asks nothing
  else), its URL and, for `health_status`, the URL the result is about. `checked` is
  `health_checked_at` without the clock: the links that have one, oldest first;
  `expired` are those before the cutoff of 24 hours, and `Expire` is the time passing.
* `CheckAll` is `GetLinksNeedingHealthCheck`: any choice of rows that ORDER BY and
  LIMIT allow. The rows stay in `job` while each URL is asked in turn;
  `StoreJobResult` is the UPDATE for the first of them and `LoseJobResult` its failure,
  which the job only logs. `CheckLink` and `StoreManualResult` are the two halves of
  the handler, which the pages and the API share.
* `UpdateLinkAndResetHealth` is the direct edit and the edit that an approved request
  makes. It resets the health even when the URL stays, whatever manage.go:193 says.
* `Restart` empties `job` and `manual`; the job begins a round when it starts.
* `overtaken` is a history variable, read by properties only.

### Fallbacks

* `options` is the table `fallback_redirects` (a deleted row keeps what it held),
  `users` the two columns that matter. An administrator's request is one statement;
  the requests of users are two actions with the row of the middleware in between:
  `UpdateFallbackPreference` and `UpdateUserFallback`, `Redirect` and `FollowFallback`.
* `Sync` is one turn of the loop of `SyncFallbackRedirects`, over a Go map and so in any
  order; `SyncFails` ends the loop, and the server serves nevertheless. `Serving` is
  the time after it.
* `UpdateUserOrganization` leaves the choice alone, so a user who was moved is still sent
  to the option of his old organization: `moved` (history) is exactly this exception
  in `ChoiceIsOfOwnOrg`.
* A request that read the organization before a move, and stores the choice after it, has
  the same effect. `edited` (history) are the organizations whose default somebody
  changed since it was synced.

### SignIn

* One browser with several tabs, which share the cookie. `tab` is the request of each:
  with the browser, being served, at the issuer, or shown. A request takes a copy
  of the session when it arrives (`Arrive`) and `Save`, `Destroy` or `Regenerate` replace the
  stored one when it ends: the middleware of Fiber, modelled from how the code uses it.
* `session.state` is `oauth_state` with the PKCE verifier, named by the tab that took it to
  the issuer; `session.target` is `redirect_after_login`.
* `Go`, `Page`, `Login`, `InvalidState`, `SignInUser`, `RecoverFromCallbackFailure`,
  `Logout` and `Unavailable` are the handlers with their middleware. A handler makes
  no difference between its first and its last read here, since its copy is private.
* `Probe` is a tick of the probe, `Outage` and `Recovery` the issuer; `LoseSessions` stands for
  expiry and for a restart with sessions in memory; `DeleteAccount` for a deletion
  while the user is signed in. A call that fails is a fault too: the middleware that cannot
  read the user's row destroys the session as if there were none (`Unknown`), and
  the exchange of the code, the claims or `UpsertUser` may fail while the issuer is up
  (`ExchangeFails`, `SignInFails`). `MaxFaults` bounds all of them together (`Fault`).
* `HasEndSession`: the issuer ends its own session, so that signing out leads there; otherwise,
  and while the probe has the issuer down, straight home.
* A visit of `/auth/login` itself, which leads to the issuer whatever the probe says, is only
  made on the way. Answers arrive in the order in which they were sent.
* `disturbed` and `signed` are history variables: the visits that something interfered with,
  and what the last sign-in or sign-out asked for.

## 3. Runs

Every run explores its whole state space.

| run | bounds | what it shows |
|---|---|---|
| `WriteBuffer_safety` | a shared link, a personal link, 2 lookup keys, 1 visitor with Redis, 2 redirects, 2 hours, `MaxCount` 1, every outside event | `TypeOK`, `NeverCountsTwice`, `LostOnlyByMishap`, `HistoryAgrees`, refinement of `ClickLedger` |
| `WriteBuffer_overlap` | 3 lookup keys, 4 redirects, shutdown | two flushers with two common rows, deadlock broken by the database; `EveryCountArrives` and `ShutdownEnds` under fairness; the model itself does not deadlock |
| `WriteBuffer_lost_at_exit` | 1 link, 1 redirect, graceful shutdown only | **violated**: docs/database.md:118 promises that no counts are lost |
| `WriteBuffer_lost_by_deletion` | 2 links, 2 redirects, deletions only, fair | **violated**: docs/usage.md:90 promises that every redirect counts |
| `Moderation_review` | a global moderator and a user, 2 links of 1 keyword, 1 edit request, 2 requests at a time, limit 1 | `TypeOK`, `ActiveIsReviewed`, `AuthorsToldTheTruth`, `AppliedEditsAreApproved`, `EditsOvershootByConcurrency`, `DecisionsSettle`, refinement of `LinkLifecycle` |
| `Moderation_orgs` | an admin, a moderator of one organization, a member of another; 2 links of 1 keyword, 1 request at a time beside single calls | `ActiveIsReviewed` and `DeletionIsAuthorized` over organization scopes; `ResolutionAgreesWithSearch`, `BrowseIsConsistent`, `QueuesMatchPermissions`, `ManagementListsWhatItManages` for every kind of reader and moderator |
| `Moderation_edit_decided_twice` | 1 link, 1 edit request, 2 requests | **violated**: a decision on an edit request is overwritten |
| `Accounts_roles` | an administrator and a newcomer, 1 organization, 2 requests at a time, 4 in all | `TypeOK`, `RoleAgreesWithGroups`, `RoleFitsOrganization`, `AnAdminRemains` |
| `SharedLinks_offers` | 3 users, 1 keyword, 3 offers, limit 1, 2 requests at a time, 5 in all | `TypeOK`, `LimitsHoldUnlessCrowded`, `AcceptedIsCopied` |
| `HealthCheck_job` | 2 links, 2 URLs, rounds of 1 link, 1 check by a moderator, 2 edits | `TypeOK`, `WrongOnlyIfOvertaken`; `EveryLinkIsChecked` under fairness |
| `Fallbacks_options` | 1 user, 2 organizations of which one is configured, 3 options, 2 names, 2 URLs, 1 request at a time | `TypeOK`, `ChoiceIsOfOwnOrg`, `SeedHolds`, `ChoiceIsKept` over restarts and syncs that fail |
| `SignIn_tabs` | 2 tabs, 1 fault, an issuer with an end-session endpoint | `TypeOK`, `ArrivesWhereAsked`, `SignedAsAsked`; `EveryVisitEnds` under fairness |

Why the bounds are enough: a hazard here needs two batches with two common rows
(four redirects), a deletion and a count of another row in one batch (two
redirects), two reviewers and a third change of the same row (two requests in
progress plus single calls, which take no handler), or two links that want one
keyword. `MaxCount = 1` makes the second click overflow. The limit of pending
requests is 1 instead of 5; the overshoot depends on the concurrency only. (Submissions count
towards that limit but are not refused by it, so links alone may exceed it; the
property counts edit requests.) It counts those that passed the check and are not inserted
yet as well, so that one edit request and two requests at a time reach its bound; the
proof is about any number.
Two links of one keyword in two scopes, or as a rejected and a new submission, are all
that resolution and the lists can tell apart.

In `Accounts` four requests are two logins of an organization that is new, an
edit and a deletion or a second edit; only two run at once because every race of the
callback is between two requests.

In `SharedLinks` the limit is 1 instead of 5, so that two concurrent offers of one
sender, or to one recipient, exceed it; five requests are two offers, two
answers to one of them and one more.

In `HealthCheck` a round of one link with two links waiting is the case in which an
order may starve a link; two edits give a second overtaken check. Without a bound on the
edits a link could be edited for ever, and then no check would last.

In `Fallbacks` three ids are the configured option, one an administrator made and one that
comes after a deletion; two names make the default one of several, and a rename possible.
In `SignIn` two tabs are enough for one to overwrite what the other saved, and one fault
for an outage, a lost session, a deletion or a failing call in the middle of a visit; the issuer may come
back at any time, and visits go on for ever.

The runs of `Moderation` (with `Listings`), `Accounts` and `SharedLinks` switch deadlock off because ids or requests
run out, which is a bound and not a property of the system; the two violation runs of `WriteBuffer` switch it
off because the redirects run out.

Fairness (`FairSpec` of `WriteBuffer`): the Go scheduler runs every goroutine,
the ticker ticks for ever, a handler that has resolved its keyword finishes, the
database answers a batch in some way (`Attempt`), and `main` goes on. Nothing is
assumed of clicks, signals, crashes, expiry or the clock.
`FairSpec` of `HealthCheck`: checks grow old, the ticker ticks, and the UPDATE for a
link that the job comes to again and again succeeds some time (strong fairness, since
a restart or an error of the database may take it away). Nothing is assumed of
moderators and their checks.
`FairSpec` of `SignIn`: the ticker of the probe ticks, and what a tab is in the middle of goes
on (`Proceed`): requests are served, redirects followed, and a user at the issuer signs in,
or tries again while it is down. Nothing is assumed of new visits, outages and their
end. `EveryVisitEnds` is about a tab while no other is under way: others that keep coming
may each write an old copy of the session over a sign-in, and then a tab can be sent to
the login for ever.

## 4. Proofs

All theorems hold for every value of the constants that satisfies the ASSUMEs
(any number of links, users, organizations, visitors and concurrent requests).

`WriteBufferProofs`: `IInv` = `TypeOK` /\ `IdleHoldsNothing` /\ `NeverCountsTwice`
/\ `LostOnlyByMishap`. The property is about sums over buffer, batches
and goroutines, so it is not inductive without knowing that an idle flusher holds
an empty batch: otherwise the swap could overwrite one. Each action moves units
between the terms of `Unwritten(c)` and `table.count[c]`; one lemma per kind of
move. Theorems: `TypeCorrect`, `CountsAtMostOnce`, `NothingLostSilently`,
`RefinesLedger`, `HistoriesAgree`. The last one has its own invariant, `Agreed`: every
place that holds counts (buffer, both batches, the table of live links) agrees with its
hourly history, because `Record` adds one to both and `Applied` adds a whole batch to both.
`SumFunction` is a fold, which its library defines by recursion over finite sets; the
section "Sums over finite sets" derives from that definition what is needed of it (the sum
exists, is zero of zeros, of a sum of functions, of one more at one place). An induction
over the size of a set is written as the search for a smallest counterexample there.

`ModerationProofs` (finitely many concurrent requests and a limit of at least one are
assumed): `IInv` = `TypeOK` /\ `ReviewedFound` /\
`AppliedEditsAreApproved` /\ `ActiveIsReviewed` /\ `ReportsAgree` /\
`AuthorsToldTheTruth`. `ReportsAgree` strengthens the property about notices to
the handlers that have decided and not reported yet; `ReviewedFound` says that
an edit request being approved exists. Theorems: `TypeCorrect`,
`OnlyReviewedLinksAreActive`, `SubmittersAreToldTheTruth`,
`AppliedEditsAreOnRecord`, `EditDecisionsSettle`, `RefinesLifecycle`. `EditDecisionsSettle`
is the action property that is left of `EditDecidedOnce`: it holds because only
`ApproveEdit` takes up a request (`TakenUp`), which it finds pending.

`AccountsProofs`: `IInv` = `SoundTasks` /\ `SoundRows` /\ `AnAdminRemains` and the types.
`SoundTask` says what a request under way may rely on: organizations that exist, a
claim while it needs one, and that a change of role or a deletion is not aimed at its
own sender; the last is what keeps an administrator. `SoundRow` holds `Agrees`, the
agreement of role and mapped role. `RoleFitsOrganization` speaks of the time between logins and
has an invariant of its own, `FitInv`, about rows that are not adrift: at most one login
of the row is under way (`OneLogin`); what that login holds as organization is what the row holds
(`Informed`); and without a login the role fits (`Settled`). A role comes
from groups only where they are mapped (`OnlyWhenMapped`), so that a login which joined
another organization still has the role ahead of it. Theorems: `TypeCorrect`,
`RolesAgreeWithGroups`, `RolesFitOrganizations`, `AdministratorsRemain`.

`SharedLinksProofs`: `IInv` = `TypeOK` /\ finitely many pending offers /\ `RoomForAll`
/\ `CopiedFirst`. The limits are not inductive: between count and insert a party who is
not crowded must still have room, so `RoomForAll` says that such a party has one request
in between and fewer offers than the limit, or none and at most the limit (`RoomTaken`,
`RoomUsed` and `RoomShrinks` are its three moves). `CopiedFirst` says that what an
acceptance is about to delete was copied or is gone. Theorems: `TypeCorrect`,
`LimitsHold`, `AcceptedLinksAreCopied`.

`HealthCheckProofs`: `IInv` = types of the tables and of the checks /\ `RowsSound` /\
`WrongOnlyIfOvertaken`. `RowsSound` says that a row being checked holds the URL of its
link unless that link was overtaken; an edit keeps it because it looks at the rows being
checked, a new link because no check can know its id. For `TypeOK` the order of the checks
is the difficult part: `OrderType` says that `checked` names the links with a result, each
once, and that the expired ones are the first of it. A check, an edit and a deletion take a
link out of the order and a check adds it at the end, so the proof rests on what
`RemoveFirst` and `Append` do to such an order (`RemoveOrder`, `AppendOrder`). Theorems:
`HealthIsWrongOnlyIfOvertaken`, `TypeCorrect`.

`ListingsProofs` extends the invariant of `ModerationProofs` by `RowsInv`: one row per
keyword and scope (`OneLinkPerPlace`), which author columns go with which status
(`AuthorKnown`), and that who is about to delete a link had, and so keeps, the permission
(`Deleter`). The properties of the lists follow from it by cases over status, scope and
role. For the limit, `Overshoot(u)` counts the pending edit requests of u together with
the requests that passed the check and have not inserted yet: at most the limit plus the
concurrency less one. A request joins them only while fewer than the limit are pending,
and an insertion turns one of the second kind into one of the first; `FiniteRows` is
what cardinalities need. Theorems: `DeletionsAreAuthorized`, `SearchAgrees`,
`QueuesAgree`, `ManagementAgrees`, `LimitIsExceededByConcurrency`,
`BrowseAgrees`. For the totals of Browse, shared links are counted by a bijection between
rows and their ids, personal ones by a bijection between rows and keywords; a reader has
finitely many personal keywords and there are finitely many rows (`FiniteRows`).

`FallbacksProofs`: `IInv` = `TypeOK` /\ `KnownOptions` /\ `ChoiceIsOfOwnOrg` /\ `SeedHolds`.
`KnownOptions` says that the option a request holds was once a row, and a row never changes its
organization. `ChoiceIsKept` is an action property that follows from it. Theorems:
`TypeCorrect`, `ChoicesAreOfOwnOrg`, `SeedsHold`, `ChoicesAreKept`.

`SignInProofs`: `IInv` = types /\ `RowsSound` /\ `StatesTaken` /\ `AllSteered` /\ `AllAgree`.
`StatesTaken` says that a session names only tabs that are on their way to the
callback. `AllSteered`: while a visit is undisturbed, its request works on the stored
session, which has the target the visit set and, on the way to the callback, its state.
`AllAgree`: while nothing raced, copies of requests being served agree with the last sign-in or
sign-out. Theorems: `TypeCorrect`, `VisitsArrive`, `SignInsLast`.

Only model-checked: liveness (`EveryCountArrives`, `ShutdownEnds`,
`EveryLinkIsChecked`, `EveryVisitEnds`), which the prover does not do; and the violations,
which are counterexamples. Every invariant, action property and refinement of the passing
runs is a theorem.

## 5. What the models do not say

URLs, descriptions, reasons, texts of notices and emails; search words, paging and
the order of lists; tokens, PKI certificates and the JSON API's own sessions; rate limits,
CSRF and the encryption of cookies; read marks of notices; what a health check finds (only
that it found something); the roles of users, which are constant in `Moderation`
(`Listings` compares queries with permissions for every role, in one state); several
processes on one database (`WriteBuffer` has one: the batches of two replicas meet as
those of two flushers do; `Fallbacks` has one, while replicas that start together would
sync together); queries that fail before they change anything, which end a request
(`Fail`).

Not modelled as components: configuration and validation compute values from strings and
keep no state (only REDIRECT_FALLBACKS, which has a state to sync with, is in `Fallbacks`);
views, static files and mail templates are text; the chart and the development environment
are deployment.

Hazards without a property: a notice to review may be written after the approval that should have
withdrawn it (links.go:654); a user who is moved keeps the fallback of his old organization
(users.go:119, the exception `moved` in `ChoiceIsOfOwnOrg`); and a slow request writes its old copy of
the session over a sign-in or sign-out (server.go:203, `"raced"` in `SignedAsAsked`). The
code lets all three happen, so there is nothing to state but the exceptions.

Where code and documentation differ, without a run of their own because it can be read off:

* docs/administration.md:8 and :61 limit an organization's moderators to their organization. They may
  decide any edit request (handlers/moderation.go:299 and :337, reached from
  server/routes.go:114-115): `MayDecideEdits` in `Listings`.
* docs/configuration.md:259, :260, :267 and :268 promise mails when a link is deleted and when a health
  check fails. `NotifyUserLinkDeleted` and `NotifyModeratorsHealthChecksFailed`
  (email/notifications.go:123 and :152) have no callers, nor has `NotifyWelcome` (:202).

## 6. Plan

1. Compose `Accounts` with `Moderation`: roles that change while a review is under way.
2. Health filters and the pages of click statistics, which read what `WriteBuffer` stores.
3. Proofs: with roles that change, `ActiveIsReviewed` is about the moderators of the time of
   the review, so it needs a history of who moderated when, and a new inductive invariant.
