------------------------------- MODULE Fallbacks -------------------------------
(***************************************************************************)
(* Fallback redirects: where a user is sent whose keyword is not found     *)
(* (internal/handlers/fallback_redirects.go, profile.go and redirect.go    *)
(* with internal/db/fallback_redirects.go, and the tables of migration     *)
(* 014).  Administrators keep named options for each organization, users   *)
(* choose one, and every start of the server writes the options of         *)
(* REDIRECT_FALLBACKS again.                                               *)
(*                                                                         *)
(* A request works on the user row that its middleware read; in between    *)
(* other requests move users between organizations and change options.     *)
(* An administrator's request is one statement: the row it reads before    *)
(* only tells which list to draw afterwards.                               *)
(*                                                                         *)
(* One process serves; it starts to do so after the options are synced or  *)
(* the sync has failed.  The slug of an organization is its id, and ids    *)
(* of options are never used twice.                                        *)
(***************************************************************************)
CONSTANTS
  Users, Orgs,
  Options,     \* ids of fallback_redirects
  Names,       \* their names
  Default,     \* the name "<organization> default"
  Urls,
  Seed,        \* REDIRECT_FALLBACKS: the URL for each organization, or None
  Requests,    \* requests served at the same time
  None         \* NULL

ASSUME FallbacksAssumption ==
  /\ Default \in Names
  /\ Seed \in [Orgs -> Urls \cup {None}]
  /\ None \notin Orgs \cup Options \cup Names \cup Urls \cup Users

VARIABLES
  options,   \* table fallback_redirects, the deleted rows with what they held
  users,     \* columns organization_id and fallback_redirect_id of users
  request,   \* what is left to do for each request being served; stray: history,
             \* was its user in moved when the middleware read his row?
  toSync,    \* organizations that the starting server has still to sync
  moved,     \* history: users whose organization is not the one they chose in
  edited     \* history: seeded organizations not synced since their last change

vars == <<options, users, request, toSync, moved, edited>>

Seeded == {o \in Orgs : Seed[o] # None}

NoOption == [state |-> "none", org |-> None, name |-> None, url |-> None]
\* Mutant of NewOption: the parameters of the INSERT in another order.
NewOptionSwapped(o, n, x) == [state |-> "live", org |-> o, name |-> x, url |-> n]
NewOption(o, n, x) == [state |-> "live", org |-> o, name |-> n, url |-> x]
Idle == [pc |-> "idle", user |-> None, org |-> None, option |-> None, stray |-> FALSE]

Live(f) == options[f].state = "live"
Serving == toSync = {}

\* UNIQUE (organization_id, name).
Taken(o, n) == \E f \in Options : Live(f) /\ options[f].org = o /\ options[f].name = n

Init ==
  /\ options = [f \in Options |-> NoOption]
  /\ users \in [Users -> [org : Orgs \cup {None}, fallback : {None}]]
  /\ request = [h \in Requests |-> Idle]
  /\ toSync = Seeded
  /\ moved = {}
  /\ edited = Seeded

Begin(h, pc, u, f) ==
  /\ request[h] = Idle
  /\ Serving
  /\ request' = [request EXCEPT ![h] = [pc |-> pc, user |-> u, org |-> users[u].org, option |-> f,
                                        stray |-> u \in moved]]

Finish(h) == request' = [request EXCEPT ![h] = Idle]

\* The seed of the organization of option f may differ from the table from now on.
Touch(o, n) == edited' = IF n = Default /\ o \in Seeded THEN edited \cup {o} ELSE edited

-----------------------------------------------------------------------------
(* Administration.                                                         *)

Create(o, n, x) ==
  /\ Serving
  /\ ~Taken(o, n)
  /\ \E f \in Options :
       /\ options[f] = NoOption
       /\ options' = [options EXCEPT ![f] = NewOption(o, n, x)]
  /\ Touch(o, n)
  /\ UNCHANGED <<users, request, toSync, moved>>

\* A change of name that makes the default option another one, or another the
\* default one, touches the seed as well.
Update(f, n, x) ==
  /\ Serving
  /\ Live(f)
  /\ n = options[f].name \/ ~Taken(options[f].org, n)
  /\ options' = [options EXCEPT ![f].name = n, ![f].url = x]
  /\ Touch(options[f].org, IF options[f].name = Default THEN Default ELSE n)
  /\ UNCHANGED <<users, request, toSync, moved>>

\* ON DELETE SET NULL: the choices of this option are cleared with it.
Delete(f) ==
  /\ Serving
  /\ Live(f)
  /\ options' = [options EXCEPT ![f].state = "deleted"]
  /\ users' = [u \in Users |-> IF users[u].fallback = f THEN [users[u] EXCEPT !.fallback = None]
                               ELSE users[u]]
  /\ Touch(options[f].org, options[f].name)
  /\ UNCHANGED <<request, toSync, moved>>

\* A login or an administrator moves a user; his choice stays as it is.
UpdateUserOrganization(u, o) ==
  /\ Serving
  /\ o # users[u].org
  /\ users' = [users EXCEPT ![u].org = o]
  /\ moved' = moved \cup {u}
  /\ UNCHANGED <<options, request, toSync, edited>>

-----------------------------------------------------------------------------
(* Users.                                                                  *)

\* Mutant of MayChoose: any option, not only those of the own organization.
MayChooseAny(u, f) == Live(f)

\* "Verify the fallback belongs to the user's org".
MayChoose(u, f) == Live(f) /\ users[u].org # None /\ users[u].org = options[f].org

\* ProfileHandler.UpdateFallbackPreference: the check ...
UpdateFallbackPreference(h, u, f) ==
  /\ MayChoose(u, f)
  /\ Begin(h, "choose", u, f)
  /\ UNCHANGED <<options, users, toSync, moved, edited>>

\* ... and the UPDATE, which the foreign key refuses when the option is gone.
UpdateUserFallback(h) ==
  /\ request[h].pc = "choose"
  /\ LET u == request[h].user IN
       IF Live(request[h].option)
       THEN /\ users' = [users EXCEPT ![u].fallback = request[h].option]
            /\ moved' = IF users[u].org = request[h].org THEN moved \ {u} ELSE moved \cup {u}
       ELSE UNCHANGED <<users, moved>>
  /\ Finish(h)
  /\ UNCHANGED <<options, toSync, edited>>

\* The choice "none" is not checked.
ClearFallback(u) ==
  /\ Serving
  /\ users' = [users EXCEPT ![u].fallback = None]
  /\ moved' = moved \ {u}
  /\ UNCHANGED <<options, request, toSync, edited>>

\* RedirectHandler.Redirect of a keyword that is not found: the user row names
\* an option ...
Redirect(h, u) ==
  /\ users[u].fallback # None
  /\ Begin(h, "redirect", u, users[u].fallback)
  /\ UNCHANGED <<options, users, toSync, moved, edited>>

\* ... which is read now: the user is sent there, or gets the not-found page.
FollowFallback(h) ==
  /\ request[h].pc = "redirect"
  /\ IF Live(request[h].option) THEN request' = [request EXCEPT ![h].pc = "sent"] ELSE Finish(h)
  /\ UNCHANGED <<options, users, toSync, moved, edited>>

\* The answer arrives, or the request fails before.
End(h) ==
  /\ request[h] # Idle
  /\ Finish(h)
  /\ UNCHANGED <<options, users, toSync, moved, edited>>

-----------------------------------------------------------------------------
(* Start of the server.                                                    *)

Restart ==
  /\ request' = [h \in Requests |-> Idle]
  /\ toSync' = Seeded
  /\ UNCHANGED <<options, users, moved, edited>>

\* Mutant of Upsert: the old default option is deleted, and the choices with it.
Replace(o) ==
  /\ \E f \in Options :
       /\ options[f] = NoOption
       /\ options' = [g \in Options |->
            IF g = f THEN NewOption(o, Default, Seed[o])
            ELSE IF Live(g) /\ options[g].org = o /\ options[g].name = Default
            THEN [options[g] EXCEPT !.state = "deleted"] ELSE options[g]]
  /\ users' = [u \in Users |->
       IF users[u].fallback # None /\ options[users[u].fallback].org = o
            /\ options[users[u].fallback].name = Default
       THEN [users[u] EXCEPT !.fallback = None] ELSE users[u]]

\* Mutant of Upsert: ON CONFLICT DO NOTHING, as the migration says it.
InsertIfMissing(o) ==
  /\ \/ Taken(o, Default) /\ UNCHANGED options
     \/ /\ ~Taken(o, Default)
        /\ \E f \in Options :
             options[f] = NoOption /\ options' = [options EXCEPT ![f] = NewOption(o, Default, Seed[o])]
  /\ UNCHANGED users

\* INSERT ... ON CONFLICT (organization_id, name) DO UPDATE SET url.
Upsert(o) ==
  /\ \E f \in Options :
       \/ /\ Live(f) /\ options[f].org = o /\ options[f].name = Default
          /\ options' = [options EXCEPT ![f].url = Seed[o]]
       \/ /\ ~Taken(o, Default)
          /\ options[f] = NoOption
          /\ options' = [options EXCEPT ![f] = NewOption(o, Default, Seed[o])]
  /\ UNCHANGED users

\* One turn of the loop of SyncFallbackRedirects, over a map: in any order.
Sync(o) ==
  /\ o \in toSync
  /\ Upsert(o)
  /\ toSync' = toSync \ {o}
  /\ edited' = edited \ {o}
  /\ UNCHANGED <<request, moved>>

\* An error ends the loop; main logs it and serves all the same.
SyncFails ==
  /\ toSync # {}
  /\ toSync' = {}
  /\ UNCHANGED <<options, users, request, moved, edited>>

-----------------------------------------------------------------------------

Administration ==
  \/ \E o \in Orgs, n \in Names, x \in Urls : Create(o, n, x)
  \/ \E f \in Options : Delete(f) \/ \E n \in Names, x \in Urls : Update(f, n, x)
  \/ \E u \in Users, o \in Orgs \cup {None} : UpdateUserOrganization(u, o)

Serve(h) ==
  \/ \E u \in Users : Redirect(h, u) \/ \E f \in Options : UpdateFallbackPreference(h, u, f)
  \/ UpdateUserFallback(h) \/ FollowFallback(h) \/ End(h)

Next ==
  \/ Administration
  \/ \E h \in Requests : Serve(h)
  \/ \E u \in Users : ClearFallback(u)
  \/ Restart \/ SyncFails \/ \E o \in Orgs : Sync(o)

Spec == Init /\ [][Next]_vars

-----------------------------------------------------------------------------
(* Properties.                                                             *)

OptionRows == [state : {"live", "deleted"}, org : Orgs, name : Names, url : Urls]

Tasks == [pc : {"choose", "redirect", "sent"}, user : Users, org : Orgs \cup {None},
          option : Options, stray : BOOLEAN]

\* Every variable has its type.
TypeOK ==
  /\ options \in [Options -> {NoOption} \cup OptionRows]
  /\ users \in [Users -> [org : Orgs \cup {None}, fallback : Options \cup {None}]]
  /\ request \in [Requests -> {Idle} \cup Tasks]
  /\ toSync \subseteq Seeded
  /\ moved \subseteq Users
  /\ edited \subseteq Seeded

\* A choice always leads somewhere - its option exists - and it is an option of
\* the user's organization unless he was moved after, or while, he chose it.  A
\* redirect under way keeps to the choice and the organization it read.
ChoiceIsOfOwnOrg ==
  /\ \A u \in Users : LET f == users[u].fallback IN
       f # None => Live(f) /\ (options[f].org = users[u].org \/ u \in moved)
  /\ \A h \in Requests : LET t == request[h] IN
       t # Idle => options[t.option].org = t.org \/ (t.pc # "choose" /\ t.stray)

\* After a start that synced an organization its default option is there once
\* and leads to the configured URL, until an administrator changes it; renaming
\* or deleting it, and failed or repeated starts, never leave two or none.
SeedHolds ==
  /\ \A o \in Seeded \ edited : \E f \in Options : options[f] = NewOption(o, Default, Seed[o])
  /\ \A f, g \in Options : Live(f) /\ Live(g) /\ options[f].org = options[g].org
                             /\ options[f].name = options[g].name => f = g

\* What a user chose changes by his own requests and, while the server serves, by
\* the deletion of the option: no start of the server takes a choice away, and
\* no late UPDATE gives a user what he did not ask for.
ChoiceIsKept ==
  [][\A u \in Users : users'[u].fallback # users[u].fallback =>
       \/ users'[u].fallback = None /\ Serving
       \/ \E h \in Requests : request[h].pc = "choose" /\ request[h].user = u
                                /\ request[h].option = users'[u].fallback]_vars
=============================================================================
