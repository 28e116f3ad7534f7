----------------------------- MODULE SignInProofs -----------------------------
(***************************************************************************)
(* Proofs about SignIn, for any number of tabs and of faults.              *)
(***************************************************************************)
EXTENDS SignIn, TLAPS

Rows == [at : {"nowhere", "browser", "server", "issuer", "arrived"},
         url : Urls \cup Results \cup {"none"}, want : Visits \cup {"none"}, data : Sessions]

OnItsWay(row) == row.at \in {"browser", "server", "issuer"}

\* What holds of a tab by itself: a visit under way is for something, and one that
\* has arrived has got it.
RowSound(row) ==
  /\ OnItsWay(row) => row.url \in Urls /\ row.want \in Visits
  /\ row.at = "arrived" =>
       /\ row.want = "go" => row.url \in {"go", "global link"}
       /\ row.want = "page" => row.url \in {"page", "unavailable", "failed"}
       /\ row.url # "invalid state"

\* What the undisturbed visit of tab t, whose row it is, may rely on in session s.
Steered(t, row, s) ==
  /\ row.at = "server" => row.data = s
  /\ row.url = "callback" => s.state = t
  /\ row.want = "go" => row.url \in {"go", "login", "callback"}
  /\ row.want = "page" => row.url \in {"page", "login", "callback", "unavailable"}
  /\ row.want \in {"go", "page"} /\ row.url \in {"login", "callback"} => s.target = row.want

Agrees(what, d) == (what = "in" => d.in) /\ (what = "out" => ~d.in)

Types ==
  /\ up \in BOOLEAN /\ healthy \in BOOLEAN /\ account \in BOOLEAN
  /\ session \in Sessions
  /\ tab \in [Tabs -> Rows]
  /\ faults \in 0 .. MaxFaults
  /\ disturbed \subseteq Tabs
  /\ signed \in {"in", "out", "raced"}

StateTaken(t, d) == d.state = t => OnItsWay(tab[t]) /\ tab[t].url = "callback"

RowsSound   == \A t \in Tabs : RowSound(tab[t])
StatesTaken == /\ \A t \in Tabs : StateTaken(t, session)
               /\ \A t, u \in Tabs : StateTaken(t, tab[u].data)
AllSteered  == \A t \in Tabs \ disturbed : OnItsWay(tab[t]) => Steered(t, tab[t], session)
AllAgree    == /\ Agrees(signed, session)
               /\ \A t \in Tabs : tab[t].at = "server" => Agrees(signed, tab[t].data)

\* The inductive invariant.
IInv == Types /\ RowsSound /\ StatesTaken /\ AllSteered /\ AllAgree

-----------------------------------------------------------------------------
(* Shapes of sessions and answers.                                         *)

LEMMA BlankShape ==
  /\ Blank \in Sessions /\ Blank.in = FALSE /\ Blank.state = None /\ Blank.target = "home"
  /\ Closed \in Rows /\ Closed.at = "nowhere" /\ Closed.url = "none" /\ Closed.want = "none"
  /\ Closed.data = Blank
<1>1. Blank \in Sessions /\ Blank.in = FALSE /\ Blank.state = None /\ Blank.target = "home"
  BY DEF Blank, Sessions
<1> QED BY <1>1 DEF Closed, Rows

LEMMA RowUnderway ==
  ASSUME Types, NEW t \in Tabs
  PROVE  tab[t] \in Rows /\ (Underway(t) <=> OnItsWay(tab[t]))
  BY DEF Types, Underway, OnItsWay, Rows

LEMMA SessionFields ==
  ASSUME NEW d \in Sessions
  PROVE  d.in \in BOOLEAN /\ d.state \in Tabs \cup {None} /\ d.target \in {"go", "page", "home"}
  BY DEF Sessions

LEMMA ForgetShape ==
  ASSUME NEW t \in Tabs, NEW d \in Sessions
  PROVE  /\ Forget(t, d) \in Sessions /\ Forget(t, d).in = d.in
         /\ Forget(t, d).target = d.target /\ Forget(t, d).state # t
         /\ \A u \in Tabs : Forget(t, d).state = u <=> (d.state = u /\ u # t)
  BY SignInAssumption DEF Forget, Sessions

LEMMA FollowShape ==
  ASSUME NEW t \in Tabs, tab[t] \in Rows, NEW url \in Urls
  PROVE  /\ Follow(t, url) \in Rows /\ Follow(t, url).at = "browser"
         /\ Follow(t, url).url = url /\ Follow(t, url).want = tab[t].want
         /\ Follow(t, url).data = Blank
  BY BlankShape DEF Follow, Rows

LEMMA ShowShape ==
  ASSUME NEW t \in Tabs, tab[t] \in Rows, NEW result \in Results
  PROVE  /\ Show(t, result) \in Rows /\ Show(t, result).at \in {"nowhere", "arrived"}
         /\ Show(t, result).data = Blank
         /\ Show(t, result).at = "arrived" =>
              /\ t \notin disturbed /\ Show(t, result).url = result
              /\ Show(t, result).want = tab[t].want
<1>1. CASE t \in disturbed
  BY <1>1, BlankShape DEF Show
<1>2. CASE t \notin disturbed
  <2>1. Show(t, result) = [Closed EXCEPT !.at = "arrived", !.url = result, !.want = tab[t].want]
    BY <1>2 DEF Show
  <2> QED BY <1>2, <2>1, BlankShape DEF Rows
<1> QED BY <1>1, <1>2

LEMMA ToIssuerShape ==
  ASSUME NEW t \in Tabs, tab[t] \in Rows, NEW back \in Urls
  PROVE  /\ ToIssuer(t, back) \in Rows /\ ToIssuer(t, back).at = "issuer"
         /\ ToIssuer(t, back).url = back /\ ToIssuer(t, back).want = tab[t].want
         /\ ToIssuer(t, back).data = Blank
  BY BlankShape DEF ToIssuer, Rows

LEMMA AimShape ==
  ASSUME Types, NEW t \in Tabs, NEW target \in {"go", "page", "home"}
  PROVE  /\ Aim(t, target) \in Sessions /\ Aim(t, target).target = target
         /\ Aim(t, target).state = tab[t].data.state /\ Aim(t, target).in = tab[t].data.in
  BY DEF Types, Rows, Aim, Sessions

-----------------------------------------------------------------------------
(* The end of a request.                                                   *)

\* What the rows and the session are after d was saved and a answered.
LEMMA CommitRows ==
  ASSUME IInv, NEW t \in Tabs, NEW d \in Sessions, NEW a \in Rows, Commit(t, d, a)
  PROVE  /\ session' = d /\ tab' \in [Tabs -> Rows] /\ tab'[t] = a
         /\ \A u \in Tabs \ {t} :
              /\ tab'[u].at = tab[u].at /\ tab'[u].url = tab[u].url
              /\ tab'[u].want = tab[u].want /\ tab'[u].data = Forget(t, tab[u].data)
<1>1. \A u \in Tabs : tab[u] \in Rows /\ tab[u].data \in Sessions
  BY DEF IInv, Types, Rows
<1>2. \A u \in Tabs : Forget(t, tab[u].data) \in Sessions
  BY <1>1, ForgetShape
<1>3. \A u \in Tabs \ {t} : tab'[u] = [tab[u] EXCEPT !.data = Forget(t, tab[u].data)]
  BY DEF Commit
<1>4. \A u \in Tabs \ {t} :
        /\ tab'[u] \in Rows /\ tab'[u].at = tab[u].at /\ tab'[u].url = tab[u].url
        /\ tab'[u].want = tab[u].want /\ tab'[u].data = Forget(t, tab[u].data)
  <2> SUFFICES ASSUME NEW u \in Tabs \ {t}
               PROVE  /\ tab'[u] \in Rows /\ tab'[u].at = tab[u].at /\ tab'[u].url = tab[u].url
                      /\ tab'[u].want = tab[u].want /\ tab'[u].data = Forget(t, tab[u].data)
    OBVIOUS
  <2>1. PICK row \in Rows : row = tab[u]
    BY <1>1
  <2>2. PICK f \in Sessions : f = Forget(t, tab[u].data)
    BY <1>2
  <2>3. tab'[u] = [row EXCEPT !.data = f]
    BY <1>3, <2>1, <2>2
  <2>4. [row EXCEPT !.data = f] \in Rows
    BY DEF Rows
  <2>5. /\ tab'[u].at = row.at /\ tab'[u].url = row.url
        /\ tab'[u].want = row.want /\ tab'[u].data = f
    BY <2>3 DEF Rows
  <2> QED BY <2>1, <2>2, <2>3, <2>4, <2>5
<1>5. session' = d /\ tab'[t] = a
  BY DEF Commit
<1>6. tab' = [u \in Tabs |-> tab'[u]]
  BY DEF Commit
<1>7. \A u \in Tabs : tab'[u] \in Rows
  BY <1>4, <1>5
<1>8. tab' \in [Tabs -> Rows]
  BY <1>6, <1>7
<1> QED BY <1>4, <1>5, <1>8

\* The rows stay sound, and a state in use is on its way.
LEMMA CommitSound ==
  ASSUME IInv, NEW t \in Tabs, NEW d \in Sessions, NEW a \in Rows, Commit(t, d, a),
         RowSound(a), a.data = Blank,
         d.state = t => OnItsWay(a) /\ a.url = "callback",
         d.state \in {t, None, tab[t].data.state, session.state}
  PROVE  RowsSound' /\ StatesTaken'
<1>1. /\ session' = d /\ tab'[t] = a
      /\ \A u \in Tabs \ {t} :
           /\ tab'[u].at = tab[u].at /\ tab'[u].url = tab[u].url
           /\ tab'[u].want = tab[u].want /\ tab'[u].data = Forget(t, tab[u].data)
  BY CommitRows
<1>2. \A u \in Tabs : tab[u].data \in Sessions
  BY DEF IInv, Types, Rows
<1>3. RowsSound'
  BY <1>1 DEF IInv, RowsSound, RowSound, OnItsWay
<1>4. ASSUME NEW v \in Tabs
      PROVE  StateTaken(v, session)'
  <2>1. CASE v = t
    BY <1>1, <2>1 DEF StateTaken
  <2>2. CASE v # t
    BY <1>1, <2>2, SignInAssumption DEF IInv, StatesTaken, StateTaken, OnItsWay
  <2> QED BY <2>1, <2>2
<1>5. ASSUME NEW v \in Tabs, NEW u \in Tabs
      PROVE  StateTaken(v, tab[u].data)'
  <2>1. CASE u = t
    BY <1>1, <2>1, BlankShape, SignInAssumption DEF StateTaken
  <2>2. CASE u # t
    <3>1. tab'[u].data.state = v <=> tab[u].data.state = v /\ v # t
      BY <1>1, <1>2, <2>2, ForgetShape
    <3> QED BY <1>1, <3>1 DEF IInv, StatesTaken, StateTaken, OnItsWay
  <2> QED BY <2>1, <2>2
<1> QED BY <1>3, <1>4, <1>5 DEF StatesTaken

\* Of the tabs that a request disturbs nothing is claimed; its own tab goes on.
LEMMA DisturbSteers ==
  ASSUME IInv, NEW t \in Tabs, NEW d \in Sessions, NEW a \in Rows, Commit(t, d, a),
         Disturb(t) \/ disturbed' = {u \in Tabs : Underway(u)'},
         t \notin disturbed /\ OnItsWay(a) /\ Disturb(t) => Steered(t, a, d)
  PROVE  AllSteered' /\ disturbed' \subseteq Tabs
<1>1. session' = d /\ tab' \in [Tabs -> Rows] /\ tab'[t] = a
  BY CommitRows
<1>2. \A u \in Tabs : Underway(u)' <=> OnItsWay(tab'[u])
  BY <1>1 DEF Underway, OnItsWay, Rows
<1>3. \A u \in Tabs \ disturbed' : OnItsWay(tab'[u]) => u = t /\ t \notin disturbed /\ Disturb(t)
  BY <1>2 DEF Disturb
<1>4. AllSteered'
  BY <1>1, <1>3 DEF AllSteered
<1> QED BY <1>4 DEF Disturb

\* A request that neither signs in nor out writes back what it read.
LEMMA CommitAgrees ==
  ASSUME IInv, NEW t \in Tabs, NEW d \in Sessions, NEW a \in Rows, Commit(t, d, a),
         a.at # "server", UNCHANGED signed,
         (tab[t].at = "server" /\ d.in = tab[t].data.in) \/ d.in = session.in
  PROVE  AllAgree'
<1>1. /\ session' = d /\ tab'[t] = a
      /\ \A u \in Tabs \ {t} : tab'[u].at = tab[u].at /\ tab'[u].data = Forget(t, tab[u].data)
  BY CommitRows
<1>2. \A u \in Tabs : tab[u].data \in Sessions
  BY DEF IInv, Types, Rows
<1>3. \A u \in Tabs \ {t} : tab'[u].data.in = tab[u].data.in
  BY <1>1, <1>2, ForgetShape
<1>4. Agrees(signed, d)
  BY DEF IInv, AllAgree, Agrees
<1>5. \A u \in Tabs : tab'[u].at = "server" => Agrees(signed, tab'[u].data)
  BY <1>1, <1>3 DEF IInv, AllAgree, Agrees
<1> QED BY <1>1, <1>4, <1>5 DEF AllAgree, Agrees

\* One that does, does so unless another is being served.
LEMMA AskAgrees ==
  ASSUME IInv, NEW t \in Tabs, NEW d \in Sessions, NEW a \in Rows, Commit(t, d, a),
         a.at # "server", NEW what \in {"in", "out"}, Ask(t, what), Agrees(what, d)
  PROVE  AllAgree' /\ signed' \in {"in", "out", "raced"}
<1>1. /\ session' = d /\ tab'[t] = a
      /\ \A u \in Tabs \ {t} : tab'[u].at = tab[u].at
  BY CommitRows
<1>2. CASE \E u \in Tabs \ {t} : tab[u].at = "server"
  BY <1>2 DEF Ask, AllAgree, Agrees
<1>3. CASE ~ \E u \in Tabs \ {t} : tab[u].at = "server"
  <2>1. signed' = what
    BY <1>3 DEF Ask
  <2>2. \A u \in Tabs : tab'[u].at # "server"
    BY <1>1, <1>3
  <2> QED BY <1>1, <2>1, <2>2 DEF AllAgree, Agrees
<1> QED BY <1>2, <1>3

\* A request meets one fault at most.
Faults == Fault \/ UNCHANGED faults

LEMMA FaultsStay ==
  ASSUME Types, Faults
  PROVE  faults' \in 0 .. MaxFaults
  BY SignInAssumption DEF Types, Faults, Fault

\* The conditions on which the end of a request keeps the invariant: the answer a
\* is sound, carries the state of t if d does, and keeps an undisturbed visit on
\* its way.
Answers(t, d, a) ==
  /\ d \in Sessions /\ a \in Rows
  /\ RowSound(a) /\ a.data = Blank /\ a.at # "server"
  /\ d.state = t => OnItsWay(a) /\ a.url = "callback"
  /\ d.state \in {t, None, tab[t].data.state, session.state}
  /\ t \notin disturbed /\ OnItsWay(a) => Steered(t, a, d)

LEMMA SaveStep ==
  ASSUME IInv, NEW t \in Tabs, NEW d, NEW a, Answers(t, d, a), Commit(t, d, a), Disturb(t),
         tab[t].at = "server", d.in = tab[t].data.in,
         Faults, UNCHANGED <<up, healthy, account, signed>>
  PROVE  IInv'
<1>1. RowsSound' /\ StatesTaken'
  BY CommitSound DEF Answers
<1>2. AllSteered' /\ disturbed' \subseteq Tabs
  BY DisturbSteers DEF Answers
<1>3. AllAgree'
  BY CommitAgrees DEF Answers
<1>4. session' = d /\ tab' \in [Tabs -> Rows]
  BY CommitRows DEF Answers
<1>5. Types'
  BY <1>2, <1>4, FaultsStay DEF IInv, Types, Answers
<1> QED BY <1>1, <1>2, <1>3, <1>5 DEF IInv

LEMMA AskStep ==
  ASSUME IInv, NEW t \in Tabs, NEW d, NEW a, Answers(t, d, a), Commit(t, d, a),
         Disturb(t) \/ disturbed' = {u \in Tabs : Underway(u)'},
         NEW what \in {"in", "out"}, Ask(t, what), Agrees(what, d),
         account' \in BOOLEAN, Faults, UNCHANGED <<up, healthy>>
  PROVE  IInv'
<1>1. RowsSound' /\ StatesTaken'
  BY CommitSound DEF Answers
<1>2. AllSteered' /\ disturbed' \subseteq Tabs
  BY DisturbSteers DEF Answers
<1>3. AllAgree' /\ signed' \in {"in", "out", "raced"}
  BY AskAgrees DEF Answers
<1>4. session' = d /\ tab' \in [Tabs -> Rows]
  BY CommitRows DEF Answers
<1>5. Types'
  BY <1>2, <1>3, <1>4, FaultsStay DEF IInv, Types, Answers
<1> QED BY <1>1, <1>2, <1>3, <1>5 DEF IInv

\* What a handler knows of the tab it serves.
LEMMA Served ==
  ASSUME IInv, NEW t \in Tabs, NEW url, Serves(t, url)
  PROVE  /\ tab[t] \in Rows /\ tab[t].at = "server" /\ tab[t].url = url
         /\ tab[t].data \in Sessions /\ tab[t].want \in Visits
         /\ tab[t].data.state = t => url = "callback"
         /\ t \notin disturbed => tab[t].data = session /\ Steered(t, tab[t], session)
<1>1. tab[t] \in Rows /\ tab[t].at = "server" /\ tab[t].url = url
  BY DEF IInv, Types, Serves
<1>2. tab[t].data \in Sessions
  BY <1>1 DEF Rows
<1>3. OnItsWay(tab[t])
  BY <1>1 DEF OnItsWay
<1>4. tab[t].want \in Visits
  BY <1>3 DEF IInv, RowsSound, RowSound
<1>5. tab[t].data.state = t => url = "callback"
  BY <1>1 DEF IInv, StatesTaken, StateTaken
<1>6. t \notin disturbed => tab[t].data = session /\ Steered(t, tab[t], session)
  BY <1>1, <1>3 DEF IInv, AllSteered, Steered
<1> QED BY <1>1, <1>2, <1>4, <1>5, <1>6

-----------------------------------------------------------------------------
(* The answers of the handlers.                                            *)

\* Showing something, with the session the request read.
LEMMA AnswerShow ==
  ASSUME IInv, NEW t \in Tabs, NEW url, Serves(t, url), NEW result \in Results,
         NEW d \in Sessions, d.state \in {None, tab[t].data.state}, d.state # t,
         t \notin disturbed =>
           /\ tab[t].want = "go" => result \in {"go", "global link"}
           /\ tab[t].want = "page" => result \in {"page", "unavailable", "failed"}
           /\ result # "invalid state"
  PROVE  Answers(t, d, Show(t, result))
<1>1. tab[t] \in Rows
  BY Served
<1>2. PICK a : a = Show(t, result)
  OBVIOUS
<1>3. /\ a \in Rows /\ a.at \in {"nowhere", "arrived"} /\ a.data = Blank
      /\ a.at = "arrived" => t \notin disturbed /\ a.url = result /\ a.want = tab[t].want
  BY <1>1, <1>2, ShowShape
<1>4. ~OnItsWay(a)
  BY <1>3 DEF OnItsWay
<1>5. RowSound(a)
  BY <1>3, <1>4 DEF RowSound
<1>6. Answers(t, d, a)
  BY <1>3, <1>4, <1>5 DEF Answers
<1> QED BY <1>2, <1>6

\* Following a redirect, with a session that does not hold the state of the tab.
LEMMA AnswerFollow ==
  ASSUME IInv, NEW t \in Tabs, NEW at, Serves(t, at), NEW url \in Urls, url # "callback",
         NEW d \in Sessions, d.state \in {None, tab[t].data.state}, d.state # t,
         t \notin disturbed =>
           /\ tab[t].want = "go" => url \in {"go", "login"}
           /\ tab[t].want = "page" => url \in {"page", "login", "unavailable"}
           /\ tab[t].want \in {"go", "page"} /\ url = "login" => d.target = tab[t].want
  PROVE  Answers(t, d, Follow(t, url))
<1>1. tab[t] \in Rows /\ tab[t].want \in Visits
  BY Served
<1>2. PICK a : a = Follow(t, url)
  OBVIOUS
<1>3. /\ a \in Rows /\ a.at = "browser" /\ a.data = Blank
      /\ a.url = url /\ a.want = tab[t].want
  BY <1>1, <1>2, FollowShape
<1>4. RowSound(a)
  BY <1>1, <1>3 DEF RowSound
<1>5. t \notin disturbed => Steered(t, a, d)
  BY <1>3 DEF Steered
<1>6. Answers(t, d, a)
  BY <1>3, <1>4, <1>5 DEF Answers
<1> QED BY <1>2, <1>6

LEMMA StepGo ==
  ASSUME IInv, NEW t \in Tabs, Go(t)
  PROVE  IInv'
<1>1. Serves(t, "go") /\ Disturb(t) /\ Faults /\ UNCHANGED <<up, healthy, account, signed>>
  BY DEF Go, SignedIn, Anonymous, Unknown, Faults
<1>2. tab[t].data.state # t /\ tab[t].at = "server" /\ tab[t].data \in Sessions
  BY <1>1, Served
<1>3. t \notin disturbed => tab[t].want # "page"
  BY <1>1, Served DEF Steered
<1>4. CASE Save(t, tab[t].data, Show(t, "go"))
  <2>1. Answers(t, tab[t].data, Show(t, "go"))
    BY <1>1, <1>2, <1>3, AnswerShow DEF Results
  <2> QED BY <1>1, <1>2, <1>4, <2>1, SaveStep DEF Save
<1>5. CASE Save(t, Aim(t, "go"), Follow(t, "login"))
  <2>1. /\ Aim(t, "go") \in Sessions /\ Aim(t, "go").target = "go"
        /\ Aim(t, "go").state = tab[t].data.state /\ Aim(t, "go").in = tab[t].data.in
    BY AimShape DEF IInv
  <2>2. Answers(t, Aim(t, "go"), Follow(t, "login"))
    BY <1>1, <1>2, <1>3, <2>1, AnswerFollow DEF Urls
  <2> QED BY <1>1, <1>2, <1>5, <2>1, <2>2, SaveStep DEF Save
<1>6. CASE Save(t, tab[t].data, Show(t, "global link"))
  <2>1. Answers(t, tab[t].data, Show(t, "global link"))
    BY <1>1, <1>2, <1>3, AnswerShow DEF Results
  <2> QED BY <1>1, <1>2, <1>6, <2>1, SaveStep DEF Save
<1> QED BY <1>4, <1>5, <1>6 DEF Go

\* The home page is nobody's wish: sign-out ends there.
LEMMA StepPage ==
  ASSUME IInv, NEW t \in Tabs, NEW url \in {"page", "home"}, Page(t, url)
  PROVE  IInv'
<1>1. Serves(t, url) /\ Faults /\ UNCHANGED <<up, healthy, account>>
  BY DEF Page, SignedIn, Anonymous, Unknown, Faults
<1>2. tab[t].data.state # t /\ tab[t].at = "server" /\ tab[t].data \in Sessions
  BY <1>1, Served
<1>3. t \notin disturbed => tab[t].want # "go" /\ (tab[t].want = "page" => url = "page")
  BY <1>1, Served DEF Steered
<1>4. ASSUME Save(t, tab[t].data, Show(t, url)), Disturb(t), UNCHANGED signed
      PROVE  IInv'
  <2>1. Answers(t, tab[t].data, Show(t, url))
    BY <1>1, <1>2, <1>3, AnswerShow DEF Results
  <2> QED BY <1>1, <1>2, <1>4, <2>1, SaveStep DEF Save
<1>5. ASSUME RedirectToLogin(t, url), Disturb(t), UNCHANGED signed
      PROVE  IInv'
  <2>1. CASE Save(t, Aim(t, url), Follow(t, "login"))
    <3>1. /\ Aim(t, url) \in Sessions /\ Aim(t, url).target = url
          /\ Aim(t, url).state = tab[t].data.state /\ Aim(t, url).in = tab[t].data.in
      BY AimShape DEF IInv
    <3>2. Answers(t, Aim(t, url), Follow(t, "login"))
      BY <1>1, <1>2, <1>3, <3>1, AnswerFollow DEF Urls
    <3> QED BY <1>1, <1>2, <1>5, <2>1, <3>1, <3>2, SaveStep DEF Save
  <2>2. CASE Save(t, tab[t].data, Follow(t, "unavailable"))
    <3>1. Answers(t, tab[t].data, Follow(t, "unavailable"))
      BY <1>1, <1>2, <1>3, AnswerFollow DEF Urls
    <3> QED BY <1>1, <1>2, <1>5, <2>2, <3>1, SaveStep DEF Save
  <2> QED BY <1>5, <2>1, <2>2 DEF RedirectToLogin
<1>6. ASSUME Destroy(t, Follow(t, IF healthy THEN "login" ELSE "unavailable")),
             disturbed' = {u \in Tabs : Underway(u)'}, Ask(t, "out")
      PROVE  IInv'
  <2> DEFINE to == IF healthy THEN "login" ELSE "unavailable"
  <2>0. /\ Follow(t, to) \in Rows /\ Follow(t, to).at = "browser"
        /\ Follow(t, to).url = to /\ Follow(t, to).want = tab[t].want
        /\ Follow(t, to).data = Blank
    <3>1. to \in Urls
      BY DEF Urls
    <3> HIDE DEF to
    <3> QED BY <1>1, <3>1, Served, FollowShape
  <2>1. RowSound(Follow(t, to))
    <3>1. to \in Urls
      BY DEF Urls
    <3> HIDE DEF to
    <3> QED BY <1>1, <2>0, <3>1, Served DEF RowSound
  <2> HIDE DEF to
  <2>2. Blank.state = None /\ Blank \in Sessions /\ Agrees("out", Blank) /\ None # t
    BY BlankShape, SignInAssumption DEF Agrees
  <2>3. Commit(t, Blank, Follow(t, to))
    BY <1>6 DEF Destroy, to
  <2>4. RowsSound' /\ StatesTaken'
    BY <2>0, <2>1, <2>2, <2>3, CommitSound
  <2>5. session' = Blank /\ tab' \in [Tabs -> Rows]
    BY <2>0, <2>2, <2>3, CommitRows
  <2>6. AllAgree' /\ signed' \in {"in", "out", "raced"}
    BY <1>6, <2>0, <2>2, <2>3, AskAgrees
  <2>7. AllSteered' /\ disturbed' \subseteq Tabs
    BY <1>6, <2>5 DEF AllSteered, Underway, OnItsWay, Rows
  <2>8. Types'
    BY <1>1, <2>2, <2>5, <2>6, <2>7, FaultsStay DEF IInv, Types
  <2> QED BY <2>4, <2>6, <2>7, <2>8 DEF IInv
<1> QED BY <1>4, <1>5, <1>6 DEF Page

LEMMA StepUnavailable ==
  ASSUME IInv, NEW t \in Tabs, Unavailable(t)
  PROVE  IInv'
<1>1. /\ Serves(t, "unavailable") /\ Disturb(t) /\ UNCHANGED <<up, healthy, account, faults, signed>>
      /\ Commit(t, tab[t].data, Show(t, "unavailable"))
  BY DEF Unavailable, Save
<1>2. tab[t].data.state # t /\ tab[t].at = "server" /\ tab[t].data \in Sessions
  BY <1>1, Served
<1>3. t \notin disturbed => tab[t].want # "go"
  BY <1>1, Served DEF Steered
<1>4. Answers(t, tab[t].data, Show(t, "unavailable"))
  BY <1>1, <1>2, <1>3, AnswerShow DEF Results
<1> QED BY <1>1, <1>2, <1>4, SaveStep DEF Faults

LEMMA StepLogin ==
  ASSUME IInv, NEW t \in Tabs, Login(t)
  PROVE  IInv'
<1> DEFINE d == [tab[t].data EXCEPT !.state = t]
           a == ToIssuer(t, "callback")
<1>1. Serves(t, "login") /\ Disturb(t) /\ UNCHANGED <<up, healthy, account, faults, signed>>
  BY DEF Login
<1>2. Commit(t, d, a)
  BY DEF Login, Save
<1>3. /\ tab[t] \in Rows /\ tab[t].at = "server" /\ tab[t].data \in Sessions
      /\ tab[t].want \in Visits
  BY <1>1, Served
<1>4. /\ d \in Sessions /\ d.state = t /\ d.in = tab[t].data.in
      /\ d.target = tab[t].data.target
  BY <1>3 DEF Sessions
<1>5. /\ a \in Rows /\ a.at = "issuer" /\ a.url = "callback" /\ a.data = Blank
      /\ a.want = tab[t].want
  BY <1>3, ToIssuerShape DEF Urls
<1> HIDE DEF d, a
<1>6. RowSound(a) /\ OnItsWay(a)
  BY <1>3, <1>5 DEF RowSound, OnItsWay, Urls
<1>7. t \notin disturbed => Steered(t, a, d)
  BY <1>1, <1>4, <1>5, Served DEF Steered
<1>8. Answers(t, d, a)
  BY <1>4, <1>5, <1>6, <1>7 DEF Answers
<1> QED BY <1>1, <1>2, <1>3, <1>4, <1>8, SaveStep DEF Faults

\* An undisturbed visit never comes here.
LEMMA StepInvalidState ==
  ASSUME IInv, NEW t \in Tabs, InvalidState(t)
  PROVE  IInv'
<1>1. /\ Serves(t, "callback") /\ Disturb(t) /\ UNCHANGED <<up, healthy, account, faults, signed>>
      /\ Commit(t, tab[t].data, Show(t, "invalid state")) /\ tab[t].data.state # t
  BY DEF InvalidState, Save, StateMatches
<1>2. tab[t].at = "server" /\ tab[t].data \in Sessions
  BY <1>1, Served
<1>3. t \in disturbed
  BY <1>1, Served DEF Steered
<1>4. Answers(t, tab[t].data, Show(t, "invalid state"))
  BY <1>1, <1>2, <1>3, AnswerShow DEF Results
<1> QED BY <1>1, <1>2, <1>4, SaveStep DEF Faults

LEMMA StepSignInUser ==
  ASSUME IInv, NEW t \in Tabs, SignInUser(t)
  PROVE  IInv'
<1> DEFINE d == [Blank EXCEPT !.in = TRUE]
           url == tab[t].data.target
<1>1. /\ Serves(t, "callback") /\ Disturb(t) /\ Ask(t, "in") /\ account' = TRUE
      /\ UNCHANGED <<up, healthy, faults>>
  BY DEF SignInUser
<1>2. Commit(t, d, Follow(t, url))
  BY DEF SignInUser, Regenerate
<1>3. url \in Urls /\ url # "callback" /\ url \in {"go", "page", "home"}
  BY <1>1, Served, SessionFields DEF Urls, Visits
<1>4. d \in Sessions /\ d.state = None /\ d.in = TRUE
  BY BlankShape DEF Sessions
<1>5. t \notin disturbed /\ tab[t].want \in {"go", "page"} => url = tab[t].want
  BY <1>1, Served DEF Steered
<1> HIDE DEF d, url
<1>6. Answers(t, d, Follow(t, url))
  BY <1>1, <1>3, <1>4, <1>5, SignInAssumption, AnswerFollow
<1>7. Agrees("in", d) /\ account' \in BOOLEAN
  BY <1>1, <1>4 DEF Agrees
<1> QED BY <1>1, <1>2, <1>6, <1>7, AskStep DEF Faults

LEMMA StepSignInFails ==
  ASSUME IInv, NEW t \in Tabs, SignInFails(t)
  PROVE  IInv'
<1> DEFINE d == [tab[t].data EXCEPT !.state = None]
<1>1. Serves(t, "callback") /\ Disturb(t) /\ Faults /\ UNCHANGED <<up, healthy, account, signed>>
  BY DEF SignInFails, Faults
<1>2. Commit(t, d, Closed)
  BY DEF SignInFails, Save
<1>3. tab[t].at = "server" /\ tab[t].data \in Sessions
  BY <1>1, Served
<1>4. d \in Sessions /\ d.state = None /\ d.in = tab[t].data.in
  BY <1>3 DEF Sessions
<1>5. ~OnItsWay(Closed) /\ RowSound(Closed)
  BY BlankShape DEF OnItsWay, RowSound
<1> HIDE DEF d
<1>6. Answers(t, d, Closed)
  BY <1>4, <1>5, BlankShape, SignInAssumption DEF Answers
<1> QED BY <1>1, <1>2, <1>3, <1>4, <1>6, SaveStep

LEMMA StepRecover ==
  ASSUME IInv, NEW t \in Tabs, RecoverFromCallbackFailure(t)
  PROVE  IInv'
<1> DEFINE d == [tab[t].data EXCEPT !.state = None, !.target = "home"]
           result == IF tab[t].data.target = "go" THEN "global link" ELSE "failed"
<1>1. Serves(t, "callback") /\ Disturb(t) /\ Faults /\ UNCHANGED <<up, healthy, account, signed>>
  BY DEF RecoverFromCallbackFailure, ExchangeFails, Faults
<1>2. Commit(t, d, Show(t, result))
  BY DEF RecoverFromCallbackFailure, Save
<1>3. tab[t].at = "server" /\ tab[t].data \in Sessions
  BY <1>1, Served
<1>4. d \in Sessions /\ d.state = None /\ d.in = tab[t].data.in
  BY <1>3 DEF Sessions
<1>5. /\ result \in Results /\ result # "invalid state"
      /\ tab[t].data.target = "go" => result = "global link"
      /\ tab[t].data.target # "go" => result = "failed"
  BY DEF Results
<1>6. t \notin disturbed /\ tab[t].want \in {"go", "page"} => tab[t].data.target = tab[t].want
  BY <1>1, Served DEF Steered
<1> HIDE DEF d, result
<1>7. Answers(t, d, Show(t, result))
  BY <1>1, <1>4, <1>5, <1>6, SignInAssumption, AnswerShow
<1> QED BY <1>1, <1>2, <1>3, <1>4, <1>7, SaveStep

LEMMA StepLogout ==
  ASSUME IInv, NEW t \in Tabs, Logout(t)
  PROVE  IInv'
<1>1. /\ Serves(t, "logout") /\ Disturb(t) /\ Ask(t, "out") /\ UNCHANGED <<up, healthy, account, faults>>
  BY DEF Logout
<1>2. Blank \in Sessions /\ Blank.state = None /\ Agrees("out", Blank) /\ account' \in BOOLEAN
  BY <1>1, BlankShape DEF Agrees, IInv, Types
<1>3. t \notin disturbed => tab[t].want \notin {"go", "page"}
  BY <1>1, Served DEF Steered
<1>4. tab[t] \in Rows /\ tab[t].want \in Visits
  BY <1>1, Served
<1>5. CASE healthy /\ HasEndSession
  <2>1. Commit(t, Blank, ToIssuer(t, "home"))
    BY <1>5 DEF Logout, Destroy
  <2>2. PICK a : a = ToIssuer(t, "home")
    OBVIOUS
  <2>3. /\ a \in Rows /\ a.at = "issuer" /\ a.url = "home" /\ a.data = Blank
        /\ a.want = tab[t].want
    BY <1>4, <2>2, ToIssuerShape DEF Urls
  <2>4. RowSound(a) /\ OnItsWay(a)
    BY <1>4, <2>3 DEF RowSound, OnItsWay, Urls
  <2>5. t \notin disturbed => Steered(t, a, Blank)
    BY <1>3, <2>3 DEF Steered
  <2>6. Answers(t, Blank, a)
    BY <1>2, <2>3, <2>4, <2>5, SignInAssumption DEF Answers
  <2> QED BY <1>1, <1>2, <2>1, <2>2, <2>6, AskStep DEF Faults
<1>6. CASE ~(healthy /\ HasEndSession)
  <2>1. Commit(t, Blank, Follow(t, "home"))
    BY <1>6 DEF Logout, Destroy
  <2>2. Answers(t, Blank, Follow(t, "home"))
    BY <1>1, <1>2, <1>3, SignInAssumption, AnswerFollow DEF Urls
  <2> QED BY <1>1, <1>2, <2>1, <2>2, AskStep DEF Faults
<1> QED BY <1>5, <1>6

-----------------------------------------------------------------------------
(* The browser, the probe and the outside world.                           *)

\* One row changes and nothing else: a is as far as the tab was, or further.
LEMMA RowMoves ==
  ASSUME IInv, NEW t \in Tabs, NEW a \in Rows, tab' = [tab EXCEPT ![t] = a],
         UNCHANGED <<up, healthy, account, session, faults, disturbed, signed>>,
         RowSound(a), a.data = session \/ (a.data = Blank /\ a.at # "server") \/ (a.data = tab[t].data /\ a.at # "server"),
         OnItsWay(tab[t]) /\ tab[t].url = "callback" => OnItsWay(a) /\ a.url = "callback",
         t \notin disturbed /\ OnItsWay(a) => Steered(t, a, session)
  PROVE  IInv'
<1>1. tab' \in [Tabs -> Rows] /\ tab'[t] = a /\ \A u \in Tabs \ {t} : tab'[u] = tab[u]
  BY DEF IInv, Types
<1>2. Types'
  BY <1>1 DEF IInv, Types
<1>3. RowsSound'
  BY <1>1 DEF IInv, RowsSound
<1>4. \A u, v \in Tabs : tab'[u].data.state = v =>
        session.state = v \/ \E w \in Tabs : tab[w].data.state = v
  BY <1>1, BlankShape, SignInAssumption
<1>5. \A v \in Tabs : session.state = v \/ (\E w \in Tabs : tab[w].data.state = v) =>
        OnItsWay(tab'[v]) /\ tab'[v].url = "callback"
  BY <1>1 DEF IInv, StatesTaken, StateTaken
<1>6. StatesTaken'
  BY <1>4, <1>5 DEF StatesTaken, StateTaken
<1>7. AllSteered'
  BY <1>1 DEF IInv, AllSteered
<1>8. AllAgree'
  BY <1>1 DEF IInv, AllAgree, Agrees
<1> QED BY <1>2, <1>3, <1>6, <1>7, <1>8 DEF IInv

LEMMA StepVisit ==
  ASSUME IInv, NEW t \in Tabs, NEW w \in Visits, Visit(t, w)
  PROVE  IInv'
<1>1. /\ ~OnItsWay(tab[t])
      /\ UNCHANGED <<up, healthy, account, session, faults, disturbed, signed>>
  BY RowUnderway DEF Visit, IInv
<1>2. PICK a : a = [Closed EXCEPT !.at = "browser", !.url = w, !.want = w]
  OBVIOUS
<1>3. tab' = [tab EXCEPT ![t] = a]
  BY <1>2 DEF Visit
<1>4. a \in Rows /\ a.at = "browser" /\ a.url = w /\ a.want = w /\ a.data = Blank
  BY <1>2, BlankShape DEF Rows, Urls
<1>5. RowSound(a) /\ Steered(t, a, session)
  BY <1>4 DEF RowSound, Steered, Urls, Visits
<1> QED BY <1>1, <1>3, <1>4, <1>5, RowMoves

LEMMA StepArrive ==
  ASSUME IInv, NEW t \in Tabs, Arrive(t)
  PROVE  IInv'
<1>1. /\ tab[t] \in Rows /\ tab[t].at = "browser" /\ OnItsWay(tab[t])
      /\ session \in Sessions
      /\ UNCHANGED <<up, healthy, account, session, faults, disturbed, signed>>
  BY DEF Arrive, IInv, Types, OnItsWay
<1>2. PICK a : a = [tab[t] EXCEPT !.at = "server", !.data = session]
  OBVIOUS
<1>3. tab' = [tab EXCEPT ![t] = a]
  BY <1>2 DEF Arrive, IInv, Types
<1>4. /\ a \in Rows /\ a.at = "server" /\ a.url = tab[t].url /\ a.want = tab[t].want
      /\ a.data = session
  BY <1>1, <1>2 DEF Rows
<1>5. RowSound(a) /\ OnItsWay(a)
  BY <1>1, <1>4 DEF RowSound, OnItsWay, IInv, RowsSound
<1>6. t \notin disturbed => Steered(t, a, session)
  BY <1>1, <1>4 DEF IInv, AllSteered, Steered
<1> QED BY <1>1, <1>3, <1>4, <1>5, <1>6, RowMoves

LEMMA StepAnswerOfIssuer ==
  ASSUME IInv, NEW t \in Tabs, AnswerOfIssuer(t)
  PROVE  IInv'
<1>1. /\ tab[t] \in Rows /\ tab[t].at = "issuer" /\ OnItsWay(tab[t])
      /\ UNCHANGED <<up, healthy, account, session, faults, disturbed, signed>>
  BY DEF AnswerOfIssuer, IInv, Types, OnItsWay
<1>2. PICK a : a = [tab[t] EXCEPT !.at = "browser"]
  OBVIOUS
<1>3. tab' = [tab EXCEPT ![t] = a]
  BY <1>2 DEF AnswerOfIssuer, IInv, Types
<1>4. /\ a \in Rows /\ a.at = "browser" /\ a.url = tab[t].url /\ a.want = tab[t].want
      /\ a.data = tab[t].data
  BY <1>1, <1>2 DEF Rows
<1>5. RowSound(a) /\ OnItsWay(a)
  BY <1>1, <1>4 DEF RowSound, OnItsWay, IInv, RowsSound
<1>6. t \notin disturbed => Steered(t, a, session)
  BY <1>1, <1>4 DEF IInv, AllSteered, Steered
<1> QED BY <1>1, <1>3, <1>4, <1>5, <1>6, RowMoves

\* A tab comes back from the issuer without an answer; no other tab has its state.
LEMMA ComeBack ==
  ASSUME IInv, NEW t \in Tabs, NEW a \in Rows, Commit(t, Forget(t, session), a),
         tab[t].at = "issuer", RowSound(a), a.data = Blank, a.at # "server",
         disturbed' = disturbed \/ (disturbed' = disturbed \ {t} /\ ~OnItsWay(a)),
         UNCHANGED <<up, healthy, account, faults, signed>>,
         OnItsWay(a) => Steered(t, a, Forget(t, session))
  PROVE  IInv'
<1>1. session \in Sessions /\ \A u \in Tabs : tab[u] \in Rows
  BY DEF IInv, Types
<1>2. PICK d : d = Forget(t, session)
  OBVIOUS
<1>3. /\ d \in Sessions /\ d.in = session.in /\ d.target = session.target /\ d.state # t
      /\ \A u \in Tabs : d.state = u <=> (session.state = u /\ u # t)
  BY <1>1, <1>2, ForgetShape
<1>4. d.state \in {None, session.state}
  BY <1>1, <1>3, SessionFields
<1>5. /\ session' = d /\ tab' \in [Tabs -> Rows] /\ tab'[t] = a
      /\ \A u \in Tabs \ {t} :
           /\ tab'[u].at = tab[u].at /\ tab'[u].url = tab[u].url
           /\ tab'[u].want = tab[u].want /\ tab'[u].data = Forget(t, tab[u].data)
  BY <1>2, <1>3, CommitRows
<1>6. RowsSound' /\ StatesTaken'
  BY <1>2, <1>3, <1>4, CommitSound
<1>7. AllAgree'
  BY <1>2, <1>3, CommitAgrees
<1>8. ASSUME NEW u \in Tabs \ disturbed', OnItsWay(tab'[u])
      PROVE  Steered(u, tab'[u], session')
  <2>1. CASE u = t
    BY <1>2, <1>5, <1>8, <2>1
  <2>2. CASE u # t
    <3>1. Steered(u, tab[u], session)
      BY <1>5, <1>8, <2>2 DEF IInv, AllSteered, OnItsWay
    <3>2. tab[u].data = session => tab'[u].data = d
      BY <1>2, <1>5, <2>2
    <3> QED BY <1>3, <1>5, <2>2, <3>1, <3>2 DEF Steered
  <2> QED BY <2>1, <2>2
<1>9. AllSteered'
  BY <1>8 DEF AllSteered
<1>10. Types'
  BY <1>3, <1>5 DEF IInv, Types
<1> QED BY <1>6, <1>7, <1>9, <1>10 DEF IInv

LEMMA StepRetry ==
  ASSUME IInv, NEW t \in Tabs, Retry(t)
  PROVE  IInv'
<1>1. /\ tab[t].at = "issuer" /\ Commit(t, Forget(t, session), Follow(t, tab[t].want))
      /\ UNCHANGED <<up, healthy, account, faults, disturbed, signed>>
  BY DEF Retry
<1>2. tab[t] \in Rows /\ tab[t].want \in Visits /\ tab[t].want \in Urls
  BY <1>1 DEF IInv, Types, RowsSound, RowSound, OnItsWay, Urls
<1>3. PICK a : a = Follow(t, tab[t].want)
  OBVIOUS
<1>4. /\ a \in Rows /\ a.at = "browser" /\ a.url = tab[t].want /\ a.want = tab[t].want
      /\ a.data = Blank
  BY <1>2, <1>3, FollowShape
<1>5. RowSound(a) /\ Steered(t, a, Forget(t, session))
  BY <1>2, <1>4 DEF RowSound, Steered, Visits
<1> QED BY <1>1, <1>3, <1>4, <1>5, ComeBack

LEMMA StepLeave ==
  ASSUME IInv, NEW t \in Tabs, Leave(t)
  PROVE  IInv'
<1>1. RowSound(Closed) /\ ~OnItsWay(Closed)
  BY BlankShape DEF RowSound, OnItsWay
<1> QED BY <1>1, BlankShape, ComeBack DEF Leave

\* Events that touch no tab: the visits that rely on what changes are disturbed.
LEMMA StepWorld ==
  ASSUME IInv, Probe \/ Outage \/ Recovery \/ LoseSessions \/ DeleteAccount
  PROVE  IInv'
<1>1. faults + 1 \in 0 .. MaxFaults \/ ~Fault
  BY SignInAssumption DEF IInv, Types, Fault
<1>2. CASE Probe \/ Outage \/ Recovery
  <2>1. UNCHANGED <<session, tab, disturbed, signed>>
    BY <1>2 DEF Probe, Outage, Recovery
  <2>2. up' \in BOOLEAN /\ healthy' \in BOOLEAN /\ account' \in BOOLEAN /\ faults' \in 0 .. MaxFaults
    BY <1>1, <1>2 DEF IInv, Types, Probe, Mark, Outage, Recovery, Fault
  <2>3. Types'
    BY <2>1, <2>2 DEF IInv, Types
  <2>4. RowsSound' /\ StatesTaken' /\ AllSteered' /\ AllAgree'
    BY <2>1 DEF IInv, RowsSound, StatesTaken, StateTaken, AllSteered, AllAgree, Agrees
  <2> QED BY <2>3, <2>4 DEF IInv
<1>3. CASE LoseSessions
  <2>1. /\ session' = Blank /\ disturbed' = {t \in Tabs : Underway(t)} /\ UNCHANGED <<up, healthy, account, tab>>
        /\ signed' = IF \E t \in Tabs : tab[t].at = "server" THEN "raced" ELSE "out"
    BY <1>3 DEF LoseSessions
  <2>2. faults' \in 0 .. MaxFaults
    BY <1>1, <1>3 DEF LoseSessions, Fault
  <2>3. Types'
    BY <2>1, <2>2, BlankShape DEF IInv, Types
  <2>4. RowsSound' /\ StatesTaken'
    BY <2>1, BlankShape, SignInAssumption DEF IInv, RowsSound, StatesTaken, StateTaken
  <2>5. AllSteered'
    BY <2>1, RowUnderway DEF IInv, AllSteered
  <2>6. AllAgree'
    BY <2>1, BlankShape DEF AllAgree, Agrees
  <2> QED BY <2>3, <2>4, <2>5, <2>6 DEF IInv
<1>4. CASE DeleteAccount
  <2>1. /\ account' = FALSE /\ disturbed' = {t \in Tabs : Underway(t)}
        /\ UNCHANGED <<up, healthy, session, tab, signed>>
    BY <1>4 DEF DeleteAccount
  <2>2. faults' \in 0 .. MaxFaults
    BY <1>1, <1>4 DEF DeleteAccount, Fault
  <2>3. Types'
    BY <2>1, <2>2 DEF IInv, Types
  <2>4. AllSteered'
    BY <2>1, RowUnderway DEF IInv, AllSteered
  <2>5. RowsSound' /\ StatesTaken' /\ AllAgree'
    BY <2>1 DEF IInv, RowsSound, StatesTaken, StateTaken, AllAgree, Agrees
  <2> QED BY <2>3, <2>4, <2>5 DEF IInv
<1> QED BY <1>2, <1>3, <1>4

-----------------------------------------------------------------------------
(* The theorems.                                                           *)

LEMMA InitInv == Init => IInv
<1> SUFFICES ASSUME Init PROVE IInv
  OBVIOUS
<1>1. \A t \in Tabs : tab[t] = Closed
  BY DEF Init
<1>2. Types
  <2>1. tab \in [Tabs -> Rows]
    BY BlankShape DEF Init
  <2>2. session \in Sessions
    BY BlankShape DEF Init
  <2>3. faults \in 0 .. MaxFaults
    BY SignInAssumption DEF Init
  <2> QED BY <2>1, <2>2, <2>3 DEF Init, Types
<1>3. RowsSound /\ AllSteered
  BY <1>1, BlankShape DEF RowsSound, RowSound, AllSteered, OnItsWay
<1>4. StatesTaken
  BY <1>1, BlankShape, SignInAssumption DEF Init, StatesTaken, StateTaken
<1>5. AllAgree
  BY <1>1, BlankShape DEF Init, AllAgree, Agrees
<1> QED BY <1>2, <1>3, <1>4, <1>5 DEF IInv

LEMMA NextInv == IInv /\ [Next]_vars => IInv'
<1> SUFFICES ASSUME IInv, [Next]_vars PROVE IInv'
  OBVIOUS
<1>1. CASE UNCHANGED vars
  <2>1. UNCHANGED <<up, healthy, account, session, tab, faults, disturbed, signed>>
    BY <1>1 DEF vars
  <2> QED BY <2>1 DEF IInv, Types, RowsSound, StatesTaken, StateTaken, AllSteered, AllAgree, Agrees
<1>2. ASSUME NEW t \in Tabs, Serve(t)
      PROVE  IInv'
  BY <1>2, StepGo, StepPage, StepUnavailable, StepLogin, StepInvalidState,
     StepSignInUser, StepSignInFails, StepRecover, StepLogout DEF Serve
<1>3. ASSUME NEW t \in Tabs, Proceed(t) \/ Leave(t) \/ \E w \in Visits : Visit(t, w)
      PROVE  IInv'
  BY <1>2, <1>3, StepArrive, StepAnswerOfIssuer, StepRetry, StepLeave, StepVisit DEF Proceed
<1>4. ASSUME Probe \/ Outage \/ Recovery \/ LoseSessions \/ DeleteAccount
      PROVE  IInv'
  BY <1>4, StepWorld
<1> QED BY <1>1, <1>3, <1>4 DEF Next

LEMMA Invariant == Spec => []IInv
  BY InitInv, NextInv, PTL DEF Spec

\* Every variable keeps its type, and no session holds the state of a login that
\* is not on its way (AuthHandler.Login and Callback).
THEOREM TypeCorrect == Spec => []TypeOK
<1>1. ASSUME IInv PROVE TypeOK
  <2>1. \A t \in Tabs : tab[t].at \in {"browser", "server"} => tab[t].url \in Urls
    BY <1>1 DEF IInv, RowsSound, RowSound, OnItsWay
  <2>2. \A t \in Tabs : \A d \in {session} \cup {tab[u].data : u \in Tabs} :
          d.state = t => TakesState(t)
    BY <1>1 DEF IInv, StatesTaken, StateTaken, OnItsWay, TakesState
  <2>3. tab \in [Tabs -> Rows]
    BY <1>1 DEF IInv, Types
  <2>4. /\ up \in BOOLEAN /\ healthy \in BOOLEAN /\ account \in BOOLEAN
        /\ session \in Sessions /\ faults \in 0 .. MaxFaults
        /\ disturbed \subseteq Tabs /\ signed \in {"in", "out", "raced"}
    BY <1>1 DEF IInv, Types
  <2> QED BY <2>1, <2>2, <2>3, <2>4, Zenon DEF TypeOK, Rows
<1> QED BY <1>1, Invariant, PTL

\* Whatever other tabs and outages do, an undisturbed visit ends where it was
\* meant to (RequireAuth, Login, Callback, recoverFromCallbackFailure).
THEOREM VisitsArrive == Spec => []ArrivesWhereAsked
<1>1. IInv => ArrivesWhereAsked
  BY DEF IInv, RowsSound, RowSound, ArrivesWhereAsked
<1> QED BY <1>1, Invariant, PTL

\* Sign-ins and sign-outs that overtook no other request last (Callback, Logout
\* and the session middleware).
THEOREM SignInsLast == Spec => []SignedAsAsked
<1>1. IInv => SignedAsAsked
  BY DEF IInv, AllAgree, Agrees, SignedAsAsked
<1> QED BY <1>1, Invariant, PTL
=============================================================================
