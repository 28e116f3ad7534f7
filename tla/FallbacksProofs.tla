--------------------------- MODULE FallbacksProofs ---------------------------
(***************************************************************************)
(* Proofs about Fallbacks, for every value of its constants.               *)
(***************************************************************************)
EXTENDS Fallbacks, TLAPS

OptionsType == options \in [Options -> {NoOption} \cup OptionRows]
UsersType   == users \in [Users -> [org : Orgs \cup {None}, fallback : Options \cup {None}]]
RequestType == request \in [Requests -> {Idle} \cup Tasks]

\* A request under way is about an option that exists or existed.
KnownOptions == \A h \in Requests : request[h] # Idle => options[request[h].option] # NoOption

\* The two halves of ChoiceIsOfOwnOrg, of one user and of one request.
OwnChoice(u, row, f, m) == row.fallback = None \/ (f.state = "live" /\ (f.org = row.org \/ u \in m))
OwnTask(t, f) == t = Idle \/ f.org = t.org \/ (t.pc # "choose" /\ t.stray)

\* The inductive invariant.
IInv == TypeOK /\ KnownOptions /\ ChoiceIsOfOwnOrg /\ SeedHolds

-----------------------------------------------------------------------------
(* Shapes of rows and requests.                                            *)

LEMMA Shapes ==
  /\ NoOption.state = "none" /\ NoOption \notin OptionRows
  /\ Idle.pc = "idle" /\ Idle \notin Tasks
  /\ \A r \in OptionRows : r.state \in {"live", "deleted"} /\ r.org \in Orgs
                             /\ r.name \in Names /\ r.url \in Urls /\ r # NoOption
  /\ \A t \in Tasks : t.pc \in {"choose", "redirect", "sent"} /\ t.user \in Users
                        /\ t.org \in Orgs \cup {None} /\ t.option \in Options /\ t # Idle
  BY DEF NoOption, OptionRows, Idle, Tasks

LEMMA SeedShape ==
  /\ Default \in Names
  /\ \A o \in Seeded : o \in Orgs /\ Seed[o] \in Urls
  /\ None \notin Options /\ None \notin Orgs /\ None \notin Users
  BY FallbacksAssumption DEF Seeded

LEMMA NewOptionType ==
  ASSUME NEW o \in Orgs, NEW n \in Names, NEW x \in Urls
  PROVE  /\ NewOption(o, n, x) \in OptionRows
         /\ NewOption(o, n, x).state = "live" /\ NewOption(o, n, x).org = o
         /\ NewOption(o, n, x).name = n
  BY DEF NewOption, OptionRows

LEMMA ExistingOption ==
  ASSUME OptionsType, NEW f \in Options, options[f] # NoOption
  PROVE  options[f] \in OptionRows
  BY DEF OptionsType

LEMMA LiveOption ==
  ASSUME OptionsType, NEW f \in Options, Live(f)
  PROVE  options[f] \in OptionRows /\ options[f] # NoOption
  BY Shapes DEF OptionsType, Live

LEMMA TaskUnderWay ==
  ASSUME RequestType, NEW h \in Requests, request[h] # Idle
  PROVE  request[h] \in Tasks
  BY DEF RequestType

-----------------------------------------------------------------------------
(* What a step does to the options.                                        *)

\* The two ways of Upsert.
LEMMA UpsertCases ==
  ASSUME NEW o, Upsert(o)
  PROVE  \/ \E f \in Options : /\ Live(f) /\ options[f].org = o /\ options[f].name = Default
                               /\ options' = [options EXCEPT ![f].url = Seed[o]]
         \/ \E f \in Options : /\ ~Taken(o, Default) /\ options[f] = NoOption
                               /\ options' = [options EXCEPT ![f] = NewOption(o, Default, Seed[o])]
  BY DEF Upsert

\* A row may change its name and URL or be marked as deleted, or is new.
Changed(f, r) ==
  \/ r = options[f]
  \/ options[f] = NoOption /\ r \in OptionRows /\ r.state = "live"
  \/ /\ Live(f)
     /\ r \in OptionRows /\ r.org = options[f].org
     /\ r.state = "live" \/ (r = [options[f] EXCEPT !.state = "deleted"] /\ Delete(f))

LEMMA OptionsStep ==
  ASSUME TypeOK, [Next]_vars
  PROVE  /\ options' \in [Options -> {NoOption} \cup OptionRows]
         /\ \A f \in Options : Changed(f, options'[f])
<1> DEFINE Goal == /\ options' \in [Options -> {NoOption} \cup OptionRows]
                   /\ \A f \in Options : Changed(f, options'[f])
<1>0. OptionsType
  BY DEF TypeOK, OptionsType
<1>1. CASE UNCHANGED options
  BY <1>0, <1>1 DEF OptionsType, Changed
<1>2. ASSUME NEW o \in Orgs, NEW n \in Names, NEW x \in Urls, Create(o, n, x)
      PROVE  Goal
  <2>1. PICK f \in Options : /\ options[f] = NoOption
                             /\ options' = [options EXCEPT ![f] = NewOption(o, n, x)]
    BY <1>2 DEF Create
  <2> QED
    BY <1>0, <2>1, NewOptionType DEF OptionsType, Changed
<1>3. ASSUME NEW f \in Options, NEW n \in Names, NEW x \in Urls, Update(f, n, x)
      PROVE  Goal
  <2>1. Live(f) /\ options' = [options EXCEPT ![f] = [options[f] EXCEPT !.name = n, !.url = x]]
    BY <1>3, <1>0 DEF Update, OptionsType
  <2>2. options[f] \in OptionRows /\ options[f].state = "live"
    BY <1>0, <2>1, LiveOption DEF Live
  <2>3. /\ [options[f] EXCEPT !.name = n, !.url = x] \in OptionRows
        /\ [options[f] EXCEPT !.name = n, !.url = x].org = options[f].org
        /\ [options[f] EXCEPT !.name = n, !.url = x].state = "live"
    BY <2>2 DEF OptionRows
  <2> QED
    BY <1>0, <2>1, <2>3 DEF OptionsType, Changed
<1>4. ASSUME NEW f \in Options, Delete(f)
      PROVE  Goal
  <2>1. Live(f) /\ options' = [options EXCEPT ![f] = [options[f] EXCEPT !.state = "deleted"]]
    BY <1>4, <1>0 DEF Delete, OptionsType
  <2>2. options[f] \in OptionRows
    BY <1>0, <2>1, LiveOption
  <2>3. /\ [options[f] EXCEPT !.state = "deleted"] \in OptionRows
        /\ [options[f] EXCEPT !.state = "deleted"].org = options[f].org
    BY <2>2 DEF OptionRows
  <2> QED
    BY <1>0, <1>4, <2>1, <2>3 DEF OptionsType, Changed
<1>5. ASSUME NEW o \in Orgs, Sync(o)
      PROVE  Goal
  <2>1. o \in Seeded /\ Upsert(o)
    BY <1>5 DEF Sync, TypeOK
  <2>2. CASE \E f \in Options : /\ Live(f)
                                /\ options' = [options EXCEPT ![f].url = Seed[o]]
    <3>1. PICK f \in Options : Live(f) /\ options' = [options EXCEPT ![f] = [options[f] EXCEPT !.url = Seed[o]]]
      BY <2>2, <1>0 DEF OptionsType
    <3>2. options[f] \in OptionRows /\ options[f].state = "live"
      BY <1>0, <3>1, LiveOption DEF Live
    <3>3. /\ [options[f] EXCEPT !.url = Seed[o]] \in OptionRows
          /\ [options[f] EXCEPT !.url = Seed[o]].org = options[f].org
          /\ [options[f] EXCEPT !.url = Seed[o]].state = "live"
      BY <3>2, <2>1, SeedShape DEF OptionRows
    <3> QED
      BY <1>0, <3>1, <3>3 DEF OptionsType, Changed
  <2>3. CASE \E f \in Options : /\ options[f] = NoOption
                                /\ options' = [options EXCEPT ![f] = NewOption(o, Default, Seed[o])]
    <3>1. PICK f \in Options : /\ options[f] = NoOption
                               /\ options' = [options EXCEPT ![f] = NewOption(o, Default, Seed[o])]
      BY <2>3
    <3>2. NewOption(o, Default, Seed[o]) \in OptionRows /\ NewOption(o, Default, Seed[o]).state = "live"
      BY <2>1, SeedShape, NewOptionType
    <3> QED
      BY <1>0, <3>1, <3>2 DEF OptionsType, Changed
  <2> QED
    BY <2>1, <2>2, <2>3, UpsertCases
<1> QED
  <2>1. CASE UNCHANGED vars
    BY <2>1, <1>1 DEF vars
  <2>2. CASE Administration
    BY <2>2, <1>1, <1>2, <1>3, <1>4 DEF Administration, UpdateUserOrganization
  <2>3. CASE \E h \in Requests : Serve(h)
    BY <2>3, <1>1 DEF Serve, Redirect, UpdateFallbackPreference, UpdateUserFallback, FollowFallback, End
  <2>4. CASE (\E u \in Users : ClearFallback(u)) \/ Restart \/ SyncFails
    BY <2>4, <1>1 DEF ClearFallback, Restart, SyncFails
  <2>5. CASE \E o \in Orgs : Sync(o)
    BY <2>5, <1>5
  <2> QED
    BY <2>1, <2>2, <2>3, <2>4, <2>5 DEF Next

LEMMA RowsKeepTheirOrganization ==
  ASSUME TypeOK, [Next]_vars, NEW f \in Options, options[f] # NoOption
  PROVE  options'[f] # NoOption /\ options'[f].org = options[f].org
<1>1. options[f] \in OptionRows
  BY ExistingOption DEF TypeOK, OptionsType
<1>2. Changed(f, options'[f])
  BY OptionsStep
<1>3. CASE options'[f] = options[f]
  BY <1>3
<1>4. CASE options'[f] \in OptionRows /\ options'[f].org = options[f].org
  BY <1>4, Shapes
<1> QED
  BY <1>2, <1>3, <1>4 DEF Changed

LEMMA OnlyDeleteEnds ==
  ASSUME TypeOK, [Next]_vars, NEW f \in Options, Live(f), ~Delete(f)
  PROVE  options'[f].state = "live"
<1>1. options[f].state = "live" /\ options[f] # NoOption
  BY Shapes DEF Live
<1>2. Changed(f, options'[f])
  BY OptionsStep
<1> QED
  BY <1>1, <1>2 DEF Changed

-----------------------------------------------------------------------------
(* Types.                                                                  *)

LEMMA BeginTypes ==
  ASSUME TypeOK, NEW h \in Requests, NEW u \in Users, NEW f \in Options,
         NEW pc \in {"choose", "redirect", "sent"}, Begin(h, pc, u, f)
  PROVE  RequestType'
<1>1. users[u].org \in Orgs \cup {None}
  BY DEF TypeOK
<1> DEFINE t == [pc |-> pc, user |-> u, org |-> users[u].org, option |-> f, stray |-> u \in moved]
<1>2. t \in Tasks
  BY <1>1 DEF Tasks
<1>3. request' = [request EXCEPT ![h] = t]
  BY DEF Begin
<1> HIDE DEF t
<1> QED
  BY <1>2, <1>3 DEF TypeOK, RequestType

LEMMA FinishTypes ==
  ASSUME TypeOK, NEW h \in Requests, Finish(h)
  PROVE  RequestType'
  BY DEF Finish, TypeOK, RequestType

LEMMA RequestStep ==
  ASSUME TypeOK, [Next]_vars
  PROVE  RequestType'
<1>0. RequestType
  BY DEF TypeOK, RequestType
<1>1. CASE UNCHANGED request
  BY <1>0, <1>1 DEF RequestType
<1>2. ASSUME NEW h \in Requests, Serve(h)
      PROVE  RequestType'
  <2>1. ASSUME NEW u \in Users, Redirect(h, u)
        PROVE  RequestType'
    <3>1. users[u].fallback \in Options
      BY <2>1 DEF Redirect, TypeOK
    <3> QED
      BY <2>1, <3>1, BeginTypes DEF Redirect
  <2>2. ASSUME NEW u \in Users, NEW f \in Options, UpdateFallbackPreference(h, u, f)
        PROVE  RequestType'
    BY <2>2, BeginTypes DEF UpdateFallbackPreference
  <2>3. CASE UpdateUserFallback(h)
    BY <2>3, FinishTypes DEF UpdateUserFallback
  <2>4. CASE FollowFallback(h)
    <3>1. CASE Live(request[h].option)
      <4>1. request[h] \in Tasks
        BY <2>4, <1>0, Shapes DEF FollowFallback, RequestType
      <4>2. [request[h] EXCEPT !.pc = "sent"] \in Tasks
        BY <4>1 DEF Tasks
      <4>3. request' = [request EXCEPT ![h] = [request[h] EXCEPT !.pc = "sent"]]
        BY <2>4, <3>1, <1>0 DEF FollowFallback, RequestType
      <4> QED
        BY <1>0, <4>2, <4>3 DEF RequestType
    <3>2. CASE ~Live(request[h].option)
      BY <2>4, <3>2, FinishTypes DEF FollowFallback
    <3> QED
      BY <3>1, <3>2
  <2>5. CASE End(h)
    BY <2>5, FinishTypes DEF End
  <2> QED
    BY <1>2, <2>1, <2>2, <2>3, <2>4, <2>5 DEF Serve
<1>3. CASE Restart
  BY <1>3 DEF Restart, RequestType
<1>4. CASE UNCHANGED vars \/ Administration \/ SyncFails \/ (\E o \in Orgs : Sync(o))
             \/ \E u \in Users : ClearFallback(u)
  BY <1>4, <1>1 DEF vars, Administration, Create, Update, Delete, UpdateUserOrganization,
                    SyncFails, Sync, ClearFallback
<1> QED
  BY <1>2, <1>3, <1>4 DEF Next

LEMMA UsersStep ==
  ASSUME TypeOK, [Next]_vars
  PROVE  UsersType' /\ moved' \subseteq Users
<1> DEFINE Goal == UsersType' /\ moved' \subseteq Users
<1>0. UsersType /\ moved \subseteq Users
  BY DEF TypeOK, UsersType
<1>1. CASE UNCHANGED <<users, moved>>
  BY <1>0, <1>1 DEF UsersType
<1>2. ASSUME NEW f \in Options, Delete(f)
      PROVE  Goal
  <2>1. \A u \in Users : [users[u] EXCEPT !.fallback = None] \in [org : Orgs \cup {None}, fallback : Options \cup {None}]
    BY <1>0 DEF UsersType
  <2> QED
    BY <1>0, <1>2, <2>1 DEF Delete, UsersType
<1>3. ASSUME NEW u \in Users, NEW o \in Orgs \cup {None}, UpdateUserOrganization(u, o)
      PROVE  Goal
  <2>1. users' = [users EXCEPT ![u] = [users[u] EXCEPT !.org = o]] /\ moved' = moved \cup {u}
    BY <1>3, <1>0 DEF UpdateUserOrganization, UsersType
  <2>2. [users[u] EXCEPT !.org = o] \in [org : Orgs \cup {None}, fallback : Options \cup {None}]
    BY <1>0 DEF UsersType
  <2> QED
    BY <1>0, <2>1, <2>2 DEF UsersType
<1>4. ASSUME NEW u \in Users, ClearFallback(u)
      PROVE  Goal
  <2>1. users' = [users EXCEPT ![u] = [users[u] EXCEPT !.fallback = None]] /\ moved' = moved \ {u}
    BY <1>4, <1>0 DEF ClearFallback, UsersType
  <2>2. [users[u] EXCEPT !.fallback = None] \in [org : Orgs \cup {None}, fallback : Options \cup {None}]
    BY <1>0 DEF UsersType
  <2> QED
    BY <1>0, <2>1, <2>2 DEF UsersType
<1>5. ASSUME NEW h \in Requests, UpdateUserFallback(h)
      PROVE  Goal
  <2>1. request[h] \in Tasks
    BY <1>5, Shapes DEF UpdateUserFallback, TypeOK
  <2>2. PICK u \in Users, f \in Options : u = request[h].user /\ f = request[h].option
    BY <2>1, Shapes
  <2>3. CASE Live(f)
    <3>1. /\ users' = [users EXCEPT ![u] = [users[u] EXCEPT !.fallback = f]]
          /\ moved' \in {moved \ {u}, moved \cup {u}}
      BY <1>5, <2>2, <2>3, <1>0 DEF UpdateUserFallback, UsersType
    <3>2. [users[u] EXCEPT !.fallback = f] \in [org : Orgs \cup {None}, fallback : Options \cup {None}]
      BY <1>0 DEF UsersType
    <3> QED
      BY <1>0, <3>1, <3>2 DEF UsersType
  <2>4. CASE ~Live(f)
    BY <1>1, <1>5, <2>2, <2>4 DEF UpdateUserFallback
  <2> QED
    BY <2>3, <2>4
<1>6. CASE UNCHANGED vars \/ Restart \/ SyncFails \/ \E o \in Orgs : Sync(o)
  BY <1>6, <1>1 DEF vars, Restart, SyncFails, Sync, Upsert
<1>7. CASE Administration
  BY <1>7, <1>1, <1>2, <1>3 DEF Administration, Create, Update
<1>8. CASE \E h \in Requests : Serve(h)
  BY <1>8, <1>1, <1>5 DEF Serve, Redirect, UpdateFallbackPreference, FollowFallback, End
<1> QED
  BY <1>4, <1>6, <1>7, <1>8 DEF Next

LEMMA RestStep ==
  ASSUME TypeOK, [Next]_vars
  PROVE  toSync' \subseteq Seeded /\ edited' \subseteq Seeded
<1>0. toSync \subseteq Seeded /\ edited \subseteq Seeded
  BY DEF TypeOK
<1>1. ASSUME NEW o, NEW n, Touch(o, n)
      PROVE  edited' \subseteq Seeded
  BY <1>0, <1>1 DEF Touch
<1>2. CASE UNCHANGED vars
  BY <1>0, <1>2 DEF vars
<1>3. CASE Administration
  BY <1>0, <1>1, <1>3 DEF Administration, Create, Update, Delete, UpdateUserOrganization
<1>4. CASE \E h \in Requests : Serve(h)
  BY <1>0, <1>4 DEF Serve, Redirect, UpdateFallbackPreference, UpdateUserFallback, FollowFallback, End
<1>5. CASE (\E u \in Users : ClearFallback(u)) \/ Restart \/ SyncFails \/ \E o \in Orgs : Sync(o)
  BY <1>0, <1>5 DEF ClearFallback, Restart, SyncFails, Sync
<1> QED
  BY <1>2, <1>3, <1>4, <1>5 DEF Next

LEMMA TypeInit == Init => TypeOK
  BY DEF Init, TypeOK

LEMMA TypeStep == TypeOK /\ [Next]_vars => TypeOK'
  BY OptionsStep, UsersStep, RequestStep, RestStep DEF TypeOK, UsersType, RequestType

\* Options, users, requests and the history keep their types, for any users,
\* organizations, options and number of requests.
THEOREM TypeCorrect == Spec => []TypeOK
  BY TypeInit, TypeStep, PTL DEF Spec

-----------------------------------------------------------------------------
(* Choices are of the own organization.                                    *)

UserChoices == \A u \in Users : OwnChoice(u, users[u], options[users[u].fallback], moved)
TaskChoices == \A h \in Requests : OwnTask(request[h], options[request[h].option])

LEMMA ChoiceParts == ChoiceIsOfOwnOrg <=> UserChoices /\ TaskChoices
  BY DEF ChoiceIsOfOwnOrg, UserChoices, TaskChoices, OwnChoice, OwnTask, Live

\* A choice stands when neither its option goes nor the user moves.
LEMMA ChoiceStands ==
  ASSUME TypeOK, [Next]_vars, UserChoices, NEW u \in Users,
         users'[u].fallback = users[u].fallback, users'[u].org = users[u].org,
         u \in moved => u \in moved',
         users[u].fallback \in Options => ~Delete(users[u].fallback)
  PROVE  OwnChoice(u, users'[u], options'[users'[u].fallback], moved')
<1>1. CASE users[u].fallback = None
  BY <1>1 DEF OwnChoice
<1>2. CASE users[u].fallback # None
  <2>1. PICK f \in Options : f = users[u].fallback
    BY <1>2 DEF TypeOK
  <2>2. options[f].state = "live" /\ (options[f].org = users[u].org \/ u \in moved)
    BY <1>2, <2>1 DEF UserChoices, OwnChoice
  <2>3. options'[f].state = "live"
    BY <2>1, <2>2, OnlyDeleteEnds DEF Live
  <2>4. options'[f].org = options[f].org
    BY <2>2, Shapes, RowsKeepTheirOrganization
  <2> QED
    BY <2>1, <2>2, <2>3, <2>4 DEF OwnChoice
<1> QED
  BY <1>1, <1>2

LEMMA UserChoicesStep ==
  ASSUME TypeOK, KnownOptions, UserChoices, TaskChoices, [Next]_vars
  PROVE  UserChoices'
<1> USE DEF UserChoices
<1>0. UsersType /\ \A u \in Users : users[u].fallback \in Options \cup {None}
  BY DEF TypeOK, UsersType
<1>a. None \notin Options
  BY SeedShape
<1>1. ASSUME NEW f \in Options, Delete(f)
      PROVE  UserChoices'
  <2> TAKE u \in Users
  <2>1. users'[u] = IF users[u].fallback = f THEN [users[u] EXCEPT !.fallback = None] ELSE users[u]
    BY <1>1 DEF Delete
  <2>2. CASE users[u].fallback = f
    <3>1. users'[u].fallback = None
      BY <2>1, <2>2, <1>0 DEF UsersType
    <3> QED
      BY <3>1 DEF OwnChoice
  <2>3. CASE users[u].fallback # f
    <3>1. OwnChoice(u, users[u], options[users[u].fallback], moved)
      OBVIOUS
    <3>2. moved' = moved /\ users'[u] = users[u]
      BY <1>1, <2>1, <2>3 DEF Delete
    <3>3. users[u].fallback \in Options => options'[users[u].fallback] = options[users[u].fallback]
      BY <1>1, <2>3 DEF Delete, TypeOK
    <3> QED
      BY <1>0, <3>1, <3>2, <3>3 DEF OwnChoice
  <2> QED
    BY <2>2, <2>3
<1> DEFINE NoDelete == \A f \in Options : ~Delete(f)
<1>2. CASE NoDelete /\ UNCHANGED <<users, moved>>
  BY <1>2, ChoiceStands
<1>3. ASSUME NoDelete, NEW u \in Users, NEW o \in Orgs \cup {None}, UpdateUserOrganization(u, o)
      PROVE  UserChoices'
  <2>1. users' = [users EXCEPT ![u] = [users[u] EXCEPT !.org = o]] /\ moved' = moved \cup {u}
    BY <1>3, <1>0 DEF UpdateUserOrganization, UsersType
  <2>2. options' = options
    BY <1>3 DEF UpdateUserOrganization
  <2>3. users'[u].fallback = users[u].fallback /\ u \in moved'
    BY <1>0, <2>1 DEF UsersType
  <2>4. OwnChoice(u, users'[u], options'[users'[u].fallback], moved')
    BY <2>2, <2>3 DEF OwnChoice
  <2>5. \A v \in Users \ {u} : users'[v] = users[v] /\ (v \in moved => v \in moved')
    BY <1>0, <2>1 DEF UsersType
  <2> QED
    BY <1>3, <2>4, <2>5, ChoiceStands
<1>4. ASSUME NoDelete, NEW u \in Users, ClearFallback(u)
      PROVE  UserChoices'
  <2>1. users' = [users EXCEPT ![u] = [users[u] EXCEPT !.fallback = None]] /\ moved' = moved \ {u}
    BY <1>4, <1>0 DEF ClearFallback, UsersType
  <2>2. users'[u].fallback = None
    BY <1>0, <2>1 DEF UsersType
  <2>3. OwnChoice(u, users'[u], options'[users'[u].fallback], moved')
    BY <2>2 DEF OwnChoice
  <2>4. \A v \in Users \ {u} : users'[v] = users[v] /\ (v \in moved => v \in moved')
    BY <1>0, <2>1 DEF UsersType
  <2> QED
    BY <1>4, <2>3, <2>4, ChoiceStands
<1>5. ASSUME NoDelete, NEW h \in Requests, UpdateUserFallback(h)
      PROVE  UserChoices'
  <2>1. request[h] \in Tasks /\ request[h].pc = "choose"
    BY <1>5, Shapes DEF UpdateUserFallback, TypeOK
  <2>2. PICK u \in Users, f \in Options : u = request[h].user /\ f = request[h].option
    BY <2>1, Shapes
  <2>3. CASE ~Live(f)
    BY <1>2, <1>5, <2>2, <2>3 DEF UpdateUserFallback
  <2>4. CASE Live(f)
    <3>1. /\ users' = [users EXCEPT ![u] = [users[u] EXCEPT !.fallback = f]]
          /\ moved' = IF users[u].org = request[h].org THEN moved \ {u} ELSE moved \cup {u}
          /\ options' = options
      BY <1>5, <2>2, <2>4, <1>0 DEF UpdateUserFallback, UsersType
    <3>2. users'[u].fallback = f /\ users'[u].org = users[u].org
      BY <1>0, <3>1 DEF UsersType
    <3>3. options[f].org = request[h].org
      BY <2>1, <2>2, Shapes DEF TaskChoices, OwnTask
    <3>4. OwnChoice(u, users'[u], options'[users'[u].fallback], moved')
      BY <2>4, <3>1, <3>2, <3>3 DEF OwnChoice, Live
    <3>5. \A v \in Users \ {u} : users'[v] = users[v] /\ (v \in moved => v \in moved')
      BY <1>0, <3>1 DEF UsersType
    <3> QED
      BY <1>5, <3>4, <3>5, ChoiceStands
  <2> QED
    BY <2>3, <2>4
<1>6. CASE NoDelete
  <2>1. CASE UNCHANGED vars \/ Restart \/ SyncFails \/ \E o \in Orgs : Sync(o)
    BY <1>2, <1>6, <2>1 DEF vars, Restart, SyncFails, Sync, Upsert
  <2>2. CASE Administration
    BY <1>2, <1>3, <1>6, <2>2 DEF Administration, Create, Update
  <2>3. CASE \E h \in Requests : Serve(h)
    BY <1>2, <1>5, <1>6, <2>3 DEF Serve, Redirect, UpdateFallbackPreference, FollowFallback, End
  <2>4. CASE \E u \in Users : ClearFallback(u)
    BY <1>4, <1>6, <2>4
  <2> QED
    BY <2>1, <2>2, <2>3, <2>4 DEF Next
<1> QED
  BY <1>1, <1>6

\* A request that goes on, to the next of its steps or not at all, keeps what it read.
LEMMA TaskStands ==
  ASSUME TypeOK, KnownOptions, TaskChoices, [Next]_vars, NEW h \in Requests,
         \/ request'[h] \in {request[h], Idle}
         \/ request[h].pc = "redirect" /\ request'[h] = [request[h] EXCEPT !.pc = "sent"]
  PROVE  /\ OwnTask(request'[h], options'[request'[h].option])
         /\ request'[h] # Idle => options'[request'[h].option] # NoOption
<1>1. CASE request'[h] = Idle
  BY <1>1 DEF OwnTask
<1>2. CASE request'[h] # Idle
  <2>1. request[h] # Idle /\ request[h] \in Tasks
    BY <1>2, Shapes DEF TypeOK
  <2>2. PICK f \in Options : f = request[h].option
    BY <2>1, Shapes
  <2>3. /\ request'[h].option = f /\ request'[h].org = request[h].org
        /\ request'[h].stray = request[h].stray
        /\ request'[h].pc # "choose" <=> request[h].pc # "choose"
    BY <1>2, <2>1, <2>2 DEF Tasks
  <2>4. options[f] # NoOption
    BY <2>1, <2>2 DEF KnownOptions
  <2>5. options'[f] # NoOption /\ options'[f].org = options[f].org
    BY <2>4, RowsKeepTheirOrganization
  <2>6. OwnTask(request[h], options[f])
    BY <2>2 DEF TaskChoices
  <2> QED
    BY <2>1, <2>3, <2>5, <2>6 DEF OwnTask
<1> QED
  BY <1>1, <1>2

LEMMA BeginStands ==
  ASSUME TypeOK, KnownOptions, TaskChoices, [Next]_vars, UNCHANGED options, NEW h \in Requests,
         NEW pc \in {"choose", "redirect"}, NEW u \in Users, NEW f \in Options,
         Begin(h, pc, u, f), Live(f),
         options[f].org = users[u].org \/ (pc = "redirect" /\ u \in moved)
  PROVE  TaskChoices' /\ KnownOptions'
<1> DEFINE t == [pc |-> pc, user |-> u, org |-> users[u].org, option |-> f, stray |-> u \in moved]
<1>0. request \in [Requests -> {Idle} \cup Tasks]
  BY DEF TypeOK
<1>1. request' = [request EXCEPT ![h] = t]
  BY DEF Begin
<1>2. request'[h] = t /\ \A g \in Requests \ {h} : request'[g] = request[g]
  BY <1>0, <1>1
<1>a. options'[request'[h].option] = options[f]
  BY <1>2
<1>b. ASSUME options[f].org = users[u].org
      PROVE  OwnTask(request'[h], options'[request'[h].option])
  <2>1. request'[h].org = options[f].org
    BY <1>2, <1>b
  <2> QED
    BY <1>a, <2>1 DEF OwnTask
<1>c. ASSUME pc = "redirect", u \in moved
      PROVE  OwnTask(request'[h], options'[request'[h].option])
  <2>1. request'[h].pc = "redirect"
    BY <1>2, <1>c
  <2>2. (u \in moved) = TRUE
    BY <1>c
  <2>3. request'[h] = [pc |-> pc, user |-> u, org |-> users[u].org, option |-> f, stray |-> TRUE]
    BY <1>2, <2>2, Zenon
  <2>5. request'[h].stray
    BY <2>3
  <2>4. request'[h].pc # "choose"
    BY <2>1
  <2> QED
    BY <2>4, <2>5, Zenon DEF OwnTask
<1>3. OwnTask(request'[h], options'[request'[h].option])
  BY <1>b, <1>c
<1>4. options'[request'[h].option] # NoOption
  BY <1>2, Shapes DEF Live
<1>5. \A g \in Requests \ {h} : /\ OwnTask(request'[g], options'[request'[g].option])
                                /\ request'[g] # Idle => options'[request'[g].option] # NoOption
  BY <1>2, TaskStands
<1> QED
  BY <1>3, <1>4, <1>5 DEF TaskChoices, KnownOptions

LEMMA TaskChoicesStep ==
  ASSUME TypeOK, KnownOptions, UserChoices, TaskChoices, [Next]_vars
  PROVE  TaskChoices' /\ KnownOptions'
<1> DEFINE Goal == TaskChoices' /\ KnownOptions'
<1>0. request \in [Requests -> {Idle} \cup Tasks]
  BY DEF TypeOK
<1>1. ASSUME \A h \in Requests :
               \/ request'[h] \in {request[h], Idle}
               \/ request[h].pc = "redirect" /\ request'[h] = [request[h] EXCEPT !.pc = "sent"]
      PROVE  Goal
  BY <1>1, TaskStands DEF TaskChoices, KnownOptions
<1>2. ASSUME NEW h \in Requests, Finish(h)
      PROVE  Goal
  BY <1>0, <1>1, <1>2 DEF Finish
<1>3. ASSUME NEW h \in Requests, Serve(h)
      PROVE  Goal
  <2>1. ASSUME NEW u \in Users, Redirect(h, u)
        PROVE  Goal
    <3>1. PICK f \in Options : f = users[u].fallback
      BY <2>1 DEF Redirect, TypeOK
    <3>2. f # None
      BY SeedShape
    <3>3. Live(f) /\ (options[f].org = users[u].org \/ u \in moved)
      BY <3>1, <3>2 DEF UserChoices, OwnChoice, Live
    <3>4. UNCHANGED options /\ Begin(h, "redirect", u, f)
      BY <2>1, <3>1 DEF Redirect
    <3> QED
      BY <3>3, <3>4, BeginStands
  <2>2. ASSUME NEW u \in Users, NEW f \in Options, UpdateFallbackPreference(h, u, f)
        PROVE  Goal
    <3>1. UNCHANGED options /\ Begin(h, "choose", u, f) /\ Live(f) /\ options[f].org = users[u].org
      BY <2>2 DEF UpdateFallbackPreference, MayChoose
    <3> QED
      BY <3>1, BeginStands
  <2>3. CASE UpdateUserFallback(h) \/ End(h)
    BY <1>2, <2>3 DEF UpdateUserFallback, End
  <2>4. CASE FollowFallback(h)
    <3>1. CASE Live(request[h].option)
      <4>1. request' = [request EXCEPT ![h] = [request[h] EXCEPT !.pc = "sent"]]
        BY <1>0, <2>4, <3>1 DEF FollowFallback
      <4> QED
        BY <1>0, <1>1, <2>4, <4>1 DEF FollowFallback
    <3>2. CASE ~Live(request[h].option)
      BY <1>2, <2>4, <3>2 DEF FollowFallback
    <3> QED
      BY <3>1, <3>2
  <2> QED
    BY <1>3, <2>1, <2>2, <2>3, <2>4 DEF Serve
<1>4. CASE Restart
  BY <1>1, <1>4 DEF Restart
<1>5. CASE UNCHANGED vars \/ Administration \/ SyncFails \/ (\E o \in Orgs : Sync(o))
             \/ \E u \in Users : ClearFallback(u)
  BY <1>1, <1>5 DEF vars, Administration, Create, Update, Delete, UpdateUserOrganization,
                    SyncFails, Sync, ClearFallback
<1> QED
  BY <1>3, <1>4, <1>5 DEF Next

-----------------------------------------------------------------------------
(* Names are unique and the seed holds.                                    *)

Seeds == \A o \in Seeded \ edited : \E f \in Options : options[f] = NewOption(o, Default, Seed[o])
UniqueNames ==
  \A f, g \in Options : Live(f) /\ Live(g) /\ options[f].org = options[g].org
                          /\ options[f].name = options[g].name => f = g

LEMMA SeedParts == SeedHolds <=> Seeds /\ UniqueNames
  BY DEF SeedHolds, Seeds, UniqueNames

\* One row changes, to something that no other live row is.
LEMMA UniqueNamesStand ==
  ASSUME OptionsType, UniqueNames, NEW f \in Options, NEW r,
         options' = [options EXCEPT ![f] = r],
         r.state = "live" =>
           \A g \in Options : Live(g) /\ options[g].org = r.org /\ options[g].name = r.name => g = f
  PROVE  UniqueNames'
<1>1. options'[f] = r /\ \A g \in Options \ {f} : options'[g] = options[g]
  BY DEF OptionsType
<1> QED
  BY <1>1 DEF UniqueNames, Live

\* One row changes that is not the default of an organization still in sync.
LEMMA SeedsStand ==
  ASSUME OptionsType, Seeds, NEW f \in Options, NEW r,
         options' = [options EXCEPT ![f] = r],
         edited \subseteq edited',
         options[f].name = Default /\ options[f].org \in Seeded => options[f].org \in edited'
  PROVE  Seeds'
<1>1. \A g \in Options \ {f} : options'[g] = options[g]
  BY DEF OptionsType
<1>2. ASSUME NEW o \in Seeded \ edited'
      PROVE  \E g \in Options : options'[g] = NewOption(o, Default, Seed[o])
  <2>1. PICK g \in Options : options[g] = NewOption(o, Default, Seed[o])
    BY DEF Seeds
  <2>2. options[g].name = Default /\ options[g].org = o
    BY <2>1 DEF NewOption
  <2>3. g # f
    BY <2>2
  <2> QED
    BY <1>1, <2>1, <2>3
<1> QED
  BY <1>2 DEF Seeds, NewOption, Seeded

LEMMA TouchStep ==
  ASSUME NEW o, NEW n, Touch(o, n)
  PROVE  edited \subseteq edited' /\ (n = Default /\ o \in Seeded => o \in edited')
  BY DEF Touch

LEMMA SeedStep ==
  ASSUME TypeOK, Seeds, UniqueNames, [Next]_vars
  PROVE  Seeds' /\ UniqueNames'
<1> DEFINE Goal == Seeds' /\ UniqueNames'
<1>0. OptionsType
  BY DEF TypeOK, OptionsType
<1>1. CASE UNCHANGED <<options, edited>>
  BY <1>1 DEF Seeds, UniqueNames, Live, NewOption, Seeded
<1>2. ASSUME NEW o \in Orgs, NEW n \in Names, NEW x \in Urls, Create(o, n, x)
      PROVE  Goal
  <2>1. ~Taken(o, n) /\ Touch(o, n)
    BY <1>2 DEF Create
  <2>2. PICK f \in Options : /\ options[f] = NoOption
                             /\ options' = [options EXCEPT ![f] = NewOption(o, n, x)]
    BY <1>2 DEF Create
  <2>3. Seeds'
    <3>1. options[f].org \notin Seeded
      BY <2>2, SeedShape DEF NoOption
    <3> QED
      BY <1>0, <2>1, <2>2, <3>1, TouchStep, SeedsStand
  <2>4. UniqueNames'
    <3>1. PICK r : r = NewOption(o, n, x)
      OBVIOUS
    <3>2. r.org = o /\ r.name = n
      BY <3>1, NewOptionType
    <3>3. \A g \in Options : Live(g) /\ options[g].org = r.org /\ options[g].name = r.name => g = f
      BY <2>1, <3>2 DEF Taken
    <3> QED
      BY <1>0, <2>2, <3>1, <3>3, UniqueNamesStand
  <2> QED
    BY <2>3, <2>4
<1>3. ASSUME NEW f \in Options, NEW n \in Names, NEW x \in Urls, Update(f, n, x)
      PROVE  Goal
  <2>1. /\ Live(f) /\ (n = options[f].name \/ ~Taken(options[f].org, n))
        /\ options' = [options EXCEPT ![f] = [options[f] EXCEPT !.name = n, !.url = x]]
        /\ Touch(options[f].org, IF options[f].name = Default THEN Default ELSE n)
    BY <1>3, <1>0 DEF Update, OptionsType
  <2>2. options[f] \in OptionRows
    BY <1>0, <2>1, LiveOption
  <2>3. PICK r : r = [options[f] EXCEPT !.name = n, !.url = x]
    OBVIOUS
  <2>4. r.org = options[f].org /\ r.name = n
    BY <2>2, <2>3 DEF OptionRows
  <2>5. Seeds'
    <3>1. edited \subseteq edited'
      BY <2>1, TouchStep
    <3>2. options[f].name = Default /\ options[f].org \in Seeded => options[f].org \in edited'
      BY <2>1, TouchStep
    <3> QED
      BY <1>0, <2>1, <3>1, <3>2, SeedsStand
  <2>6. \A g \in Options : Live(g) /\ options[g].org = r.org /\ options[g].name = r.name => g = f
    BY <2>1, <2>4 DEF Taken, UniqueNames
  <2>7. UniqueNames'
    BY <1>0, <2>1, <2>3, <2>6, UniqueNamesStand
  <2> QED
    BY <2>5, <2>7
<1>4. ASSUME NEW f \in Options, Delete(f)
      PROVE  Goal
  <2>1. /\ Live(f) /\ Touch(options[f].org, options[f].name)
        /\ options' = [options EXCEPT ![f] = [options[f] EXCEPT !.state = "deleted"]]
    BY <1>4, <1>0 DEF Delete, OptionsType
  <2>2. options[f] \in OptionRows
    BY <1>0, <2>1, LiveOption
  <2>3. PICK r : r = [options[f] EXCEPT !.state = "deleted"]
    OBVIOUS
  <2>4. r.state = "deleted"
    BY <2>2, <2>3 DEF OptionRows
  <2>5. Seeds'
    BY <1>0, <2>1, TouchStep, SeedsStand
  <2>6. UniqueNames'
    BY <1>0, <2>1, <2>3, <2>4, UniqueNamesStand
  <2> QED
    BY <2>5, <2>6
<1>5. ASSUME NEW o \in Orgs, Sync(o)
      PROVE  Goal
  <2>1. o \in Seeded /\ Upsert(o) /\ edited' = edited \ {o}
    BY <1>5 DEF Sync, TypeOK
  <2>0. PICK r : r = NewOption(o, Default, Seed[o])
    OBVIOUS
  <2>2. PICK f \in Options :
          /\ options' = [options EXCEPT ![f] = r]
          /\ \/ Live(f) /\ options[f].org = o /\ options[f].name = Default
             \/ ~Taken(o, Default) /\ options[f] = NoOption
    <3>1. ASSUME NEW f \in Options, Live(f), options[f].org = o, options[f].name = Default
          PROVE  [options[f] EXCEPT !.url = Seed[o]] = NewOption(o, Default, Seed[o])
      <4>1. options[f] \in OptionRows /\ options[f].state = "live"
        BY <1>0, <3>1, LiveOption DEF Live
      <4> QED
        BY <3>1, <4>1 DEF OptionRows, NewOption
    <3>2. ASSUME NEW f \in Options, options' = [options EXCEPT ![f].url = Seed[o]]
          PROVE  options' = [options EXCEPT ![f] = [options[f] EXCEPT !.url = Seed[o]]]
      BY <3>2, <1>0 DEF OptionsType
    <3> QED
      BY <2>0, <2>1, <3>1, <3>2, UpsertCases
  <2>3. r.state = "live" /\ r.org = o /\ r.name = Default
    BY <2>0 DEF NewOption
  <2>4. \A g \in Options : Live(g) /\ options[g].org = o /\ options[g].name = Default => g = f
    BY <2>2 DEF Taken, UniqueNames
  <2>5. UniqueNames'
    BY <1>0, <2>2, <2>3, <2>4, UniqueNamesStand
  <2>6. options'[f] = r /\ \A g \in Options \ {f} : options'[g] = options[g]
    BY <1>0, <2>2 DEF OptionsType
  <2>7. ASSUME NEW p \in Seeded \ edited'
        PROVE  \E g \in Options : options'[g] = NewOption(p, Default, Seed[p])
    <3>1. CASE p = o
      BY <2>0, <2>6, <3>1
    <3>2. CASE p # o
      <4>1. PICK g \in Options : options[g] = NewOption(p, Default, Seed[p])
        BY <2>1, <2>7, <3>2 DEF Seeds
      <4>2. options[g].org = p /\ options[g] # NoOption
        BY <4>1 DEF NewOption, NoOption
      <4>3. g # f
        BY <2>2, <3>2, <4>2
      <4> QED
        BY <2>6, <4>1, <4>3
    <3> QED
      BY <3>1, <3>2
  <2>8. Seeds'
    BY <2>7 DEF Seeds, NewOption, Seeded
  <2> QED
    BY <2>5, <2>8
<1>6. CASE UNCHANGED vars \/ Restart \/ SyncFails \/ \E u \in Users : ClearFallback(u)
  BY <1>1, <1>6 DEF vars, Restart, SyncFails, ClearFallback
<1>7. CASE Administration
  BY <1>1, <1>2, <1>3, <1>4, <1>7 DEF Administration, UpdateUserOrganization
<1>8. CASE \E h \in Requests : Serve(h)
  BY <1>1, <1>8 DEF Serve, Redirect, UpdateFallbackPreference, UpdateUserFallback, FollowFallback, End
<1> QED
  BY <1>5, <1>6, <1>7, <1>8 DEF Next

-----------------------------------------------------------------------------
(* The theorems.                                                           *)

LEMMA InitIInv == Init => IInv
<1> SUFFICES ASSUME Init PROVE IInv
  OBVIOUS
<1>1. TypeOK
  BY TypeInit
<1>2. KnownOptions /\ TaskChoices
  BY DEF Init, KnownOptions, TaskChoices, OwnTask
<1>3. UserChoices
  <2>1. \A u \in Users : users[u].fallback = None
    BY DEF Init
  <2> QED
    BY <2>1 DEF UserChoices, OwnChoice
<1>4. Seeds
  BY DEF Init, Seeds
<1>5. UniqueNames
  <2>1. \A f \in Options : ~Live(f)
    BY Shapes DEF Init, Live
  <2> QED
    BY <2>1 DEF UniqueNames
<1> QED
  BY <1>1, <1>2, <1>3, <1>4, <1>5, ChoiceParts, SeedParts DEF IInv

LEMMA NextIInv == IInv /\ [Next]_vars => IInv'
<1> SUFFICES ASSUME IInv, [Next]_vars PROVE IInv'
  OBVIOUS
<1>0. TypeOK /\ KnownOptions /\ UserChoices /\ TaskChoices /\ Seeds /\ UniqueNames
  BY ChoiceParts, SeedParts DEF IInv
<1>1. TypeOK'
  BY <1>0, TypeStep
<1>2. UserChoices'
  BY <1>0, UserChoicesStep
<1>3. TaskChoices' /\ KnownOptions'
  BY <1>0, TaskChoicesStep
<1>4. Seeds' /\ UniqueNames'
  BY <1>0, SeedStep
<1>5. ChoiceIsOfOwnOrg' /\ SeedHolds'
  BY <1>2, <1>3, <1>4, ChoiceParts, SeedParts, PTL
<1> QED
  BY <1>1, <1>3, <1>5 DEF IInv

LEMMA InvariantHolds == Spec => []IInv
  BY InitIInv, NextIInv, PTL DEF Spec

\* Whoever moves, chooses, renames and deletes, in whatever order: the choice of
\* a user exists and is of the organization he chose it in.
THEOREM ChoicesAreOfOwnOrg == Spec => []ChoiceIsOfOwnOrg
<1>1. IInv => ChoiceIsOfOwnOrg
  BY DEF IInv
<1> QED
  BY <1>1, InvariantHolds, PTL

\* Configured options exist once, and lead where the configuration says until an
\* administrator changes them.
THEOREM SeedsHold == Spec => []SeedHolds
<1>1. IInv => SeedHolds
  BY DEF IInv
<1> QED
  BY <1>1, InvariantHolds, PTL

\* No step but the user's own and the deletion of the option changes a choice.
Kept ==
  \A u \in Users : users'[u].fallback # users[u].fallback =>
    \/ users'[u].fallback = None /\ Serving
    \/ \E h \in Requests : request[h].pc = "choose" /\ request[h].user = u
                             /\ request[h].option = users'[u].fallback

LEMMA KeptStep ==
  ASSUME TypeOK, [Next]_vars
  PROVE  Kept
<1>0. UsersType /\ RequestType
  BY DEF TypeOK, UsersType, RequestType
<1>1. CASE UNCHANGED users
  BY <1>1 DEF Kept
<1>2. ASSUME NEW f \in Options, Delete(f)
      PROVE  Kept
  <2>1. Serving
    BY <1>2 DEF Delete
  <2>2. ASSUME NEW u \in Users, users'[u].fallback # users[u].fallback
        PROVE  users'[u].fallback = None
    <3>1. users'[u] = [users[u] EXCEPT !.fallback = None]
      BY <1>2, <2>2 DEF Delete
    <3> QED
      BY <1>0, <3>1 DEF UsersType
  <2> QED
    BY <2>1, <2>2 DEF Kept
<1>3. ASSUME NEW v \in Users, NEW o \in Orgs \cup {None}, UpdateUserOrganization(v, o)
      PROVE  Kept
  <2>1. users' = [users EXCEPT ![v] = [users[v] EXCEPT !.org = o]]
    BY <1>3, <1>0 DEF UpdateUserOrganization, UsersType
  <2>2. \A u \in Users : users'[u].fallback = users[u].fallback
    BY <1>0, <2>1 DEF UsersType
  <2> QED
    BY <2>2 DEF Kept
<1>4. ASSUME NEW v \in Users, ClearFallback(v)
      PROVE  Kept
  <2>1. Serving /\ users' = [users EXCEPT ![v] = [users[v] EXCEPT !.fallback = None]]
    BY <1>4, <1>0 DEF ClearFallback, UsersType
  <2>2. \A u \in Users : users'[u].fallback \in {users[u].fallback, None}
    BY <1>0, <2>1 DEF UsersType
  <2> QED
    BY <2>1, <2>2 DEF Kept
<1>5. ASSUME NEW h \in Requests, UpdateUserFallback(h)
      PROVE  Kept
  <2>1. request[h] \in Tasks /\ request[h].pc = "choose"
    BY <1>5, Shapes DEF UpdateUserFallback, TypeOK
  <2>2. PICK v \in Users, f \in Options : v = request[h].user /\ f = request[h].option
    BY <2>1, Shapes
  <2>3. CASE Live(f)
    <3>1. users' = [users EXCEPT ![v] = [users[v] EXCEPT !.fallback = f]]
      BY <1>5, <2>2, <2>3, <1>0 DEF UpdateUserFallback, UsersType
    <3>2. users'[v].fallback = f /\ \A u \in Users \ {v} : users'[u] = users[u]
      BY <1>0, <3>1 DEF UsersType
    <3> QED
      BY <2>1, <2>2, <3>2 DEF Kept
  <2>4. CASE ~Live(f)
    BY <1>1, <1>5, <2>2, <2>4 DEF UpdateUserFallback
  <2> QED
    BY <2>3, <2>4
<1>6. CASE UNCHANGED vars \/ Restart \/ SyncFails \/ \E o \in Orgs : Sync(o)
  BY <1>6, <1>1 DEF vars, Restart, SyncFails, Sync, Upsert
<1>7. CASE Administration
  BY <1>7, <1>1, <1>2, <1>3 DEF Administration, Create, Update
<1>8. CASE \E h \in Requests : Serve(h)
  BY <1>8, <1>1, <1>5 DEF Serve, Redirect, UpdateFallbackPreference, FollowFallback, End
<1> QED
  BY <1>4, <1>6, <1>7, <1>8 DEF Next

\* What a user chose survives restarts, syncs and everybody else's requests.
THEOREM ChoicesAreKept == Spec => ChoiceIsKept
<1>1. TypeOK /\ [Next]_vars => [Kept]_vars
  BY KeptStep
<1>2. Spec => [][Kept]_vars
  BY <1>1, TypeCorrect, PTL DEF Spec
<1>3. ChoiceIsKept <=> [][Kept]_vars
  BY DEF ChoiceIsKept, Kept
<1> QED
  BY <1>2, <1>3, PTL
=============================================================================
