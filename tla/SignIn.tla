-------------------------------- MODULE SignIn --------------------------------
(***************************************************************************)
(* A browser that opens pages before it has signed in: the redirects to    *)
(* the login, the OIDC round trip and its way back, sign-out, and outages  *)
(* of the issuer (internal/middleware/auth.go, handlers/auth.go,           *)
(* handlers/redirect.go, oidchealth/probe.go and the session middleware    *)
(* that internal/server/server.go installs).                               *)
(*                                                                         *)
(* The tabs of one browser share its cookie.  The session middleware of    *)
(* Fiber reads the whole session when a request arrives and writes the     *)
(* whole of it back, with the cookie, when the handler has returned: what  *)
(* another request saved in between is overwritten.  A request is two      *)
(* actions, its arrival and everything else.                               *)
(*                                                                         *)
(* The cookie always names the session that the last answer wrote, so only *)
(* the data of that one is kept: no request reads another, and a session   *)
(* that is gone is read as a blank one.  A state of OIDC is named by the   *)
(* tab that took it to the issuer, and forgotten when that tab gives it    *)
(* up, since it can match no more.                                         *)
(* Client certificates, the JSON API and simple mode, which never use the  *)
(* session to come back, are left out.  Accounts models what the callback  *)
(* does with the tables.                                                   *)
(***************************************************************************)
EXTENDS Naturals

CONSTANTS
  Tabs,
  None,
  HasEndSession,   \* does the issuer advertise an end_session_endpoint?
  MaxFaults        \* bound on outages, lost sessions, deleted users and failed calls

ASSUME SignInAssumption ==
  /\ None \notin Tabs
  /\ HasEndSession \in BOOLEAN
  /\ MaxFaults \in Nat

VARIABLES
  up,         \* is the issuer reachable?
  healthy,    \* what the probe last found
  account,    \* does the row of the user exist?
  session,    \* the stored session that the cookie of the browser names
  tab,        \* what each tab is doing
  faults,     \* number of outside events so far (bounds the model)
  disturbed,  \* history: tabs in whose visit another request or a fault intervened
  signed      \* history: what the last sign-in or sign-out asked for, or raced

vars == <<up, healthy, account, session, tab, faults, disturbed, signed>>

\* user_sub, oauth_state with pkce_verifier, redirect_after_login: without a target
\* the way leads home.
Blank == [in |-> FALSE, state |-> None, target |-> "home"]

\* A tab sends a request, has one served, is at the issuer, or has arrived; the
\* data is the request's copy of the session.
Closed == [at |-> "nowhere", url |-> "none", want |-> "none", data |-> Blank]

\* A keyword, a page, or sign-out.  The login itself, which leads to the issuer
\* whatever the probe says, is only visited on the way.
Visits == {"go", "page", "logout"}

Init ==
  /\ up = TRUE
  /\ healthy = TRUE
  /\ account = FALSE
  /\ session = Blank
  /\ tab = [t \in Tabs |-> Closed]
  /\ faults = 0
  /\ disturbed = {}
  /\ signed = "out"

-----------------------------------------------------------------------------
(* Sessions.                                                               *)

\* A fault, of the world or of a call that a handler makes.
Fault ==
  /\ faults < MaxFaults
  /\ faults' = faults + 1

Underway(t) == tab[t].at \notin {"nowhere", "arrived"}

\* t disturbs the visits of the other tabs.
Disturb(t) == disturbed' = {u \in Tabs : Underway(u)' /\ (u # t \/ u \in disturbed)}

\* The last sign-in or sign-out, unless a request that it overtook is still to save.
Ask(t, what) ==
  signed' = IF \E u \in Tabs \ {t} : tab[u].at = "server" THEN "raced" ELSE what

\* What the browser does with the answer: follow a redirect, or show something,
\* which is of interest only if the visit was not disturbed.
Follow(t, url) == [tab[t] EXCEPT !.at = "browser", !.url = url, !.data = Blank]
Show(t, result) ==
  IF t \in disturbed THEN Closed
  ELSE [Closed EXCEPT !.at = "arrived", !.url = result, !.want = tab[t].want]
ToIssuer(t, back) == [Closed EXCEPT !.at = "issuer", !.url = back, !.want = tab[t].want]

\* d without the state that t took to the issuer.
Forget(t, d) == IF d.state = t THEN [d EXCEPT !.state = None] ELSE d

\* The request of t ends: the session is d, and the state of t is of no more use.
Commit(t, d, answer) ==
  /\ session' = d
  /\ tab' = [u \in Tabs |->
               IF u = t THEN answer ELSE [tab[u] EXCEPT !.data = Forget(t, @)]]

\* The middleware saves the session of the request; Regenerate gives it a new id.
Save(t, d, answer)       == Commit(t, d, answer)
Regenerate(t, d, answer) == Commit(t, d, answer)

\* Mutant of Destroy: the session is saved after the handler has returned.
DestroySaving(t, answer) == Commit(t, tab[t].data, answer)

Destroy(t, answer) == Commit(t, Blank, answer)

-----------------------------------------------------------------------------
(* The browser and the issuer.                                             *)

Visit(t, w) ==
  /\ ~Underway(t)
  /\ tab' = [tab EXCEPT ![t] = [Closed EXCEPT !.at = "browser", !.url = w, !.want = w]]
  /\ UNCHANGED <<up, healthy, account, session, faults, disturbed, signed>>

\* A request arrives: the session of its cookie, or a new one.
Arrive(t) ==
  /\ tab[t].at = "browser"
  /\ tab' = [tab EXCEPT ![t].at = "server", ![t].data = session]
  /\ UNCHANGED <<up, healthy, account, session, faults, disturbed, signed>>

\* The issuer signs the user in and sends him back with the state it was given,
\* or ends its own session.
AnswerOfIssuer(t) ==
  /\ up
  /\ tab[t].at = "issuer"
  /\ tab' = [tab EXCEPT ![t].at = "browser"]
  /\ UNCHANGED <<up, healthy, account, session, faults, disturbed, signed>>

\* The issuer does not answer: the user tries again what he wanted ...
Retry(t) ==
  /\ ~up
  /\ tab[t].at = "issuer"
  /\ Commit(t, Forget(t, session), Follow(t, tab[t].want))
  /\ UNCHANGED <<up, healthy, account, faults, disturbed, signed>>

\* ... or closes the tab.
Leave(t) ==
  /\ tab[t].at = "issuer"
  /\ Commit(t, Forget(t, session), Closed)
  /\ disturbed' = disturbed \ {t}
  /\ UNCHANGED <<up, healthy, account, faults, signed>>

-----------------------------------------------------------------------------
(* Handlers.                                                               *)

Serves(t, url) == tab[t].at = "server" /\ tab[t].url = url
SignedIn(t)    == tab[t].data.in /\ account /\ UNCHANGED faults
Anonymous(t)   == ~tab[t].data.in /\ UNCHANGED faults
Aim(t, target) == [tab[t].data EXCEPT !.target = target]

\* GetUserBySub finds no row for the session, or the database does not answer.
Unknown(t) == tab[t].data.in /\ ((~account /\ UNCHANGED faults) \/ Fault)

\* OptionalAuth and RedirectHandler.Redirect: somebody who is not signed in is
\* sent to the login while the issuer answers, and else gets the global link; so
\* is a user whose row cannot be read.
Go(t) ==
  /\ Serves(t, "go")
  /\ \/ SignedIn(t) /\ Save(t, tab[t].data, Show(t, "go"))
     \/ (Anonymous(t) \/ Unknown(t)) /\ healthy /\ Save(t, Aim(t, "go"), Follow(t, "login"))
     \/ (Anonymous(t) \/ Unknown(t)) /\ ~healthy /\ Save(t, tab[t].data, Show(t, "global link"))
  /\ Disturb(t)
  /\ UNCHANGED <<up, healthy, account, signed>>

\* Mutant of RedirectToLogin: the first target is kept.
RedirectToLoginOnce(t, url) ==
  \/ healthy /\ Save(t, IF tab[t].data.target = "home" THEN Aim(t, url) ELSE tab[t].data, Follow(t, "login"))
  \/ ~healthy /\ Save(t, tab[t].data, Follow(t, "unavailable"))

\* AuthMiddleware.redirectToLogin with the session of the request.
RedirectToLogin(t, url) ==
  \/ healthy /\ Save(t, Aim(t, url), Follow(t, "login"))
  \/ ~healthy /\ Save(t, tab[t].data, Follow(t, "unavailable"))

\* AuthMiddleware.RequireAuth, of a page and of the home page.  The session of a
\* user whose row is gone, or cannot be read, is destroyed: the target is set in vain.
Page(t, url) ==
  /\ Serves(t, url)
  /\ \/ /\ SignedIn(t)
        /\ Save(t, tab[t].data, Show(t, url))
        /\ Disturb(t)
        /\ UNCHANGED signed
     \/ /\ Anonymous(t)
        /\ RedirectToLogin(t, url)
        /\ Disturb(t)
        /\ UNCHANGED signed
     \/ /\ Unknown(t)
        /\ Destroy(t, Follow(t, IF healthy THEN "login" ELSE "unavailable"))
        /\ disturbed' = {u \in Tabs : Underway(u)'}
        /\ Ask(t, "out")
  /\ UNCHANGED <<up, healthy, account>>

Unavailable(t) ==
  /\ Serves(t, "unavailable")
  /\ Save(t, tab[t].data, Show(t, "unavailable"))
  /\ Disturb(t)
  /\ UNCHANGED <<up, healthy, account, faults, signed>>

Login(t) ==
  /\ Serves(t, "login")
  /\ Save(t, [tab[t].data EXCEPT !.state = t], ToIssuer(t, "callback"))
  /\ Disturb(t)
  /\ UNCHANGED <<up, healthy, account, faults, signed>>

\* Callback.  The state must be the one of the session ...
StateMatches(t) == tab[t].data.state = t

InvalidState(t) ==
  /\ Serves(t, "callback")
  /\ ~StateMatches(t)
  /\ Save(t, tab[t].data, Show(t, "invalid state"))
  /\ Disturb(t)
  /\ UNCHANGED <<up, healthy, account, faults, signed>>

\* ... then the code is exchanged, the user gets a row and a new session, and goes
\* where he wanted ...
SignInUser(t) ==
  /\ Serves(t, "callback")
  /\ StateMatches(t)
  /\ up
  /\ account' = TRUE
  /\ Regenerate(t, [Blank EXCEPT !.in = TRUE], Follow(t, tab[t].data.target))
  /\ Disturb(t)
  /\ Ask(t, "in")
  /\ UNCHANGED <<up, healthy, faults>>

\* ... or not, because the claims cannot be read or UpsertUser fails: the answer is an
\* error, and the session, saved all the same, keeps its target ...
SignInFails(t) ==
  /\ Serves(t, "callback")
  /\ StateMatches(t)
  /\ up
  /\ Fault
  /\ Save(t, [tab[t].data EXCEPT !.state = None], Closed)
  /\ Disturb(t)
  /\ UNCHANGED <<up, healthy, account, signed>>

\* The issuer does not answer the exchange of the code, or answers without a valid
\* ID token.
ExchangeFails == (~up /\ UNCHANGED faults) \/ Fault

\* Mutant of RecoverFromCallbackFailure: the state is not deleted.
RecoverKeepingState(t) ==
  /\ Serves(t, "callback")
  /\ StateMatches(t)
  /\ ExchangeFails
  /\ Save(t, [tab[t].data EXCEPT !.target = "home"],
          Show(t, IF tab[t].data.target = "go" THEN "global link" ELSE "failed"))
  /\ Disturb(t)
  /\ UNCHANGED <<up, healthy, account, signed>>

\* ... or the exchange fails: recoverFromCallbackFailure resolves a global link.
RecoverFromCallbackFailure(t) ==
  /\ Serves(t, "callback")
  /\ StateMatches(t)
  /\ ExchangeFails
  /\ Save(t, [tab[t].data EXCEPT !.state = None, !.target = "home"],
          Show(t, IF tab[t].data.target = "go" THEN "global link" ELSE "failed"))
  /\ Disturb(t)
  /\ UNCHANGED <<up, healthy, account, signed>>

\* The way to "/" leads through the issuer if that ends sessions of its own and is
\* believed to answer.
Logout(t) ==
  /\ Serves(t, "logout")
  /\ Destroy(t, IF healthy /\ HasEndSession THEN ToIssuer(t, "home") ELSE Follow(t, "home"))
  /\ Disturb(t)
  /\ Ask(t, "out")
  /\ UNCHANGED <<up, healthy, account, faults>>

-----------------------------------------------------------------------------
(* The probe and the outside world.                                        *)

\* Mutant of Mark: only the first answers after a failure are noticed.
MarkHealthyOnly == healthy' = (healthy \/ up)

\* markHealthy and markUnhealthy.
Mark == healthy' = up

Probe ==
  /\ Mark
  /\ UNCHANGED <<up, account, session, tab, faults, disturbed, signed>>

\* The issuer goes down ...
Outage ==
  /\ Fault
  /\ up' = FALSE
  /\ UNCHANGED <<healthy, account, session, tab, disturbed, signed>>

\* ... and may come back.
Recovery ==
  /\ up' = TRUE
  /\ UNCHANGED <<healthy, account, session, tab, faults, disturbed, signed>>

\* A session expires, or the process restarts and its memory is gone.
LoseSessions ==
  /\ Fault
  /\ session' = Blank
  /\ disturbed' = {t \in Tabs : Underway(t)}
  /\ signed' = IF \E t \in Tabs : tab[t].at = "server" THEN "raced" ELSE "out"
  /\ UNCHANGED <<up, healthy, account, tab>>

\* An administrator deletes the user.
DeleteAccount ==
  /\ Fault
  /\ account
  /\ account' = FALSE
  /\ disturbed' = {t \in Tabs : Underway(t)}
  /\ UNCHANGED <<up, healthy, session, tab, signed>>

-----------------------------------------------------------------------------

Serve(t) ==
  \/ Go(t) \/ Page(t, "page") \/ Page(t, "home") \/ Unavailable(t) \/ Login(t)
  \/ InvalidState(t) \/ SignInUser(t) \/ SignInFails(t) \/ RecoverFromCallbackFailure(t) \/ Logout(t)

Proceed(t) == Arrive(t) \/ Serve(t) \/ AnswerOfIssuer(t) \/ Retry(t)

Next ==
  \/ \E t \in Tabs : Proceed(t) \/ Leave(t) \/ \E w \in Visits : Visit(t, w)
  \/ Probe \/ Outage \/ Recovery \/ LoseSessions \/ DeleteAccount

Spec == Init /\ [][Next]_vars

\* Requests are served, redirects followed, and users who do not leave sign in or
\* try again; the ticker probes for ever.
FairSpec == Spec /\ WF_vars(Probe) /\ \A t \in Tabs : WF_vars(Proceed(t))

-----------------------------------------------------------------------------
(* Properties.                                                             *)

Urls == Visits \cup {"home", "login", "callback", "unavailable"}
Results == {"go", "page", "home", "global link", "unavailable", "invalid state", "failed"}

Sessions ==
  [in : BOOLEAN, state : Tabs \cup {None}, target : {"go", "page", "home"}]

\* A tab is somewhere on the way to the callback.
TakesState(t) == tab[t].at \in {"browser", "server", "issuer"} /\ tab[t].url = "callback"

\* Every variable has its type, and a session only holds the state of a login
\* that is still on its way.
TypeOK ==
  /\ up \in BOOLEAN /\ healthy \in BOOLEAN /\ account \in BOOLEAN
  /\ session \in Sessions
  /\ tab \in [Tabs -> [at : {"nowhere", "browser", "server", "issuer", "arrived"},
                       url : Urls \cup Results \cup {"none"},
                       want : Visits \cup {"none"}, data : Sessions]]
  /\ faults \in 0 .. MaxFaults
  /\ disturbed \subseteq Tabs
  /\ signed \in {"in", "out", "raced"}
  /\ \A t \in Tabs : tab[t].at \in {"browser", "server"} => tab[t].url \in Urls
  /\ \A t \in Tabs : \A d \in {session} \cup {tab[u].data : u \in Tabs} :
       d.state = t => TakesState(t)

\* A visit that no other tab, fault or destroyed session disturbed ends where it
\* was meant to, however often the issuer went down and whatever earlier visits
\* left in the session: a page shows itself or that sign-in is unavailable or
\* failed, a keyword leads to its link, signed in or not, and the state that
\* comes back from the issuer is the one of the session.
ArrivesWhereAsked ==
  \A t \in Tabs : tab[t].at = "arrived" =>
    /\ tab[t].want = "go" => tab[t].url \in {"go", "global link"}
    /\ tab[t].want = "page" => tab[t].url \in {"page", "unavailable", "failed"}
    /\ tab[t].url # "invalid state"

\* The browser is signed in after a sign-in and is not after a sign-out, unless
\* a request that was being served meanwhile wrote its copy of the session back.
SignedAsAsked ==
  /\ signed = "in" => session.in
  /\ signed = "out" => ~session.in

\* A visit ends unless other tabs come in between: no loop of redirects, and an
\* outage that lasts stops nobody for longer than the probe needs to see it - then
\* global links resolve and pages say that sign-in is unavailable.
EveryVisitEnds ==
  \A t \in Tabs :
    LET Alone == \A u \in Tabs \ {t} : ~Underway(u) IN
      Underway(t) /\ Alone ~> ~Underway(t) \/ ~Alone
=============================================================================
