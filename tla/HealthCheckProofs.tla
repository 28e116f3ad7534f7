-------------------------- MODULE HealthCheckProofs --------------------------
(***************************************************************************)
(* Proofs about HealthCheck, for every value of its constants.             *)
(***************************************************************************)
EXTENDS HealthCheck, TLAPS

ChecksType ==
  /\ job \in Seq(Rows)
  /\ manual \in [Handlers -> Rows \cup {Idle}]

\* A row that was read and still has its link in table t holds the URL of the
\* link, unless the link is in o: an edit overtook the check.
Sound(row, t, o) ==
  row.link \in Links =>
    /\ t[row.link] # NoLink
    /\ t[row.link].status \in {"approved", "hidden"} /\ row.url # t[row.link].url
         => row.link \in o

RowsSound ==
  /\ \A i \in DOMAIN job : Sound(job[i], links, overtaken)
  /\ \A h \in Handlers : Sound(manual[h], links, overtaken)

\* The inductive invariant.
IInv == LinksType /\ ChecksType /\ RowsSound /\ WrongOnlyIfOvertaken

-----------------------------------------------------------------------------

LEMMA NoneIsNoId == None \notin Links /\ None \notin URLs
  BY HealthAssumption

LEMMA IdleIsSound == Sound(Idle, links, overtaken)
  BY NoneIsNoId DEF Sound, Idle

LEMMA ExistingLink ==
  ASSUME LinksType, NEW l \in Links, Exists(l)
  PROVE  /\ links[l].url \in URLs /\ links[l].result \in URLs \cup {None} /\ links[l] # NoLink
         /\ links[l] \in [status : {"approved", "hidden"}, url : URLs, result : URLs \cup {None}]
<1>1. links[l] \in {NoLink, Deleted} \cup [status : {"approved", "hidden"}, url : URLs,
                                          result : URLs \cup {None}]
  BY DEF LinksType
<1>2. NoLink.status = "none" /\ Deleted.status = "deleted"
  BY DEF NoLink, Deleted
<1> QED
  BY <1>1, <1>2 DEF Exists

\* What a check reads is a sound row.
LEMMA ReadIsSound ==
  ASSUME LinksType, NEW l \in Links, Exists(l)
  PROVE  Row(l) \in Rows /\ Sound(Row(l), links, overtaken)
  BY ExistingLink DEF Row, Rows, Sound

\* Storing the result of a sound row keeps the links as they must be.
LEMMA StoreStep ==
  ASSUME IInv, NEW row \in Rows, Sound(row, links, overtaken), UpdateLinkHealthStatus(row), UNCHANGED overtaken
  PROVE  /\ LinksType' /\ WrongOnlyIfOvertaken'
         /\ \A r : Sound(r, links, overtaken) => Sound(r, links', overtaken')
<1>1. row.link \in Links /\ row.url \in URLs
  BY DEF Rows
<1>2. CASE ~Exists(row.link)
  <2>1. UNCHANGED <<links, overtaken>>
    BY <1>2 DEF UpdateLinkHealthStatus
  <2> QED
    BY <2>1 DEF IInv, LinksType, WrongOnlyIfOvertaken, Sound, Exists
<1>3. CASE Exists(row.link)
  <2> PICK l \in Links : l = row.link
    BY <1>1
  <2>1. links' = [links EXCEPT ![l].result = row.url]
    BY <1>3 DEF UpdateLinkHealthStatus
  <2>2. /\ links[l] \in [status : {"approved", "hidden"}, url : URLs, result : URLs \cup {None}]
        /\ links[l] # NoLink
    BY <1>3, ExistingLink DEF IInv
  <2>3. /\ links'[l] = [links[l] EXCEPT !.result = row.url]
        /\ \A m \in Links \ {l} : links'[m] = links[m]
    BY <2>1 DEF IInv, LinksType
  <2>4. /\ links'[l] \in [status : {"approved", "hidden"}, url : URLs, result : URLs \cup {None}]
        /\ links'[l].status = links[l].status /\ links'[l].url = links[l].url
        /\ links'[l].result = row.url
    BY <1>1, <2>2, <2>3
  <2>5. links'[l] # NoLink
    BY <2>4 DEF NoLink
  <2>6. LinksType'
    BY <2>1, <2>4 DEF IInv, LinksType
  <2>7. \A m \in Links : /\ Exists(m)' <=> Exists(m)
                         /\ links'[m].url = links[m].url
                         /\ links[m] # NoLink => links'[m] # NoLink
    BY <2>3, <2>4, <2>5 DEF Exists
  <2>8. \A r : Sound(r, links, overtaken) => Sound(r, links', overtaken')
    BY <2>1, <2>3, <2>4, <2>5 DEF Sound
  <2>9. WrongOnlyIfOvertaken'
    <3>1. ASSUME NEW m \in Links, Exists(m)', links'[m].result \notin {None, links'[m].url}
          PROVE  m \in overtaken
      <4>1. CASE m = l
        BY <1>3, <2>4, <3>1, <4>1 DEF Sound
      <4>2. CASE m # l
        BY <2>3, <2>7, <3>1, <4>2 DEF IInv, WrongOnlyIfOvertaken
      <4> QED
        BY <4>1, <4>2
    <3> QED
      BY <3>1 DEF WrongOnlyIfOvertaken
  <2> QED
    BY <2>6, <2>8, <2>9
<1> QED
  BY <1>2, <1>3

\* What was sound stays so: the rows of the next state are.
LEMMA RowsSoundAfter ==
  ASSUME \A i \in DOMAIN job' : Sound(job'[i], links, overtaken), \A h \in Handlers : Sound(manual'[h], links, overtaken),
         \A r : Sound(r, links, overtaken) => Sound(r, links', overtaken')
  PROVE  RowsSound'
  BY DEF RowsSound

LEMMA HeadAndTail ==
  ASSUME NEW s \in Seq(Rows), s # <<>>
  PROVE  /\ Head(s) \in Rows /\ Head(s) = s[1] /\ 1 \in DOMAIN s
         /\ Tail(s) \in Seq(Rows)
         /\ \A i \in DOMAIN Tail(s) : i + 1 \in DOMAIN s /\ Tail(s)[i] = s[i + 1]
  OBVIOUS

\* Only rows that are sound are kept or read; the links stay.
LEMMA QuietStep ==
  ASSUME IInv, UNCHANGED <<links, overtaken>>, ChecksType',
         \A i \in DOMAIN job' : Sound(job'[i], links, overtaken), \A h \in Handlers : Sound(manual'[h], links, overtaken)
  PROVE  IInv'
<1>1. RowsSound'
  BY DEF RowsSound
<1>2. LinksType' /\ WrongOnlyIfOvertaken'
  BY DEF IInv, LinksType, WrongOnlyIfOvertaken, Exists
<1> QED
  BY <1>1, <1>2 DEF IInv

LEMMA CheckAllStep == IInv /\ CheckAll => IInv'
<1> SUFFICES ASSUME IInv, CheckAll PROVE IInv'
  OBVIOUS
<1>1. PICK batch \in GetLinksNeedingHealthCheck : job' = [i \in DOMAIN batch |-> Row(batch[i])]
  BY DEF CheckAll
<1>2. PICK n \in 0..BatchSize : batch \in [1..n -> Due]
  BY <1>1 DEF GetLinksNeedingHealthCheck, SeqOf
<1>3. \A i \in 1..n : Row(batch[i]) \in Rows /\ Sound(Row(batch[i]), links, overtaken)
  BY <1>2, ReadIsSound DEF Due, IInv, Approved, Exists
<1>4. n \in Nat /\ job' = [i \in 1..n |-> Row(batch[i])]
  BY <1>1, <1>2, HealthAssumption
<1>5. job' \in Seq(Rows) /\ \A i \in DOMAIN job' : Sound(job'[i], links, overtaken)
  BY <1>3, <1>4
<1>6. UNCHANGED <<links, overtaken, manual>>
  BY DEF CheckAll
<1> QED
  BY <1>5, <1>6, QuietStep DEF IInv, ChecksType, RowsSound

LEMMA LoseJobResultStep == IInv /\ LoseJobResult => IInv'
<1> SUFFICES ASSUME IInv, LoseJobResult PROVE IInv'
  OBVIOUS
<1>1. /\ job \in Seq(Rows) /\ job # <<>> /\ job' = Tail(job)
      /\ UNCHANGED <<links, overtaken, manual>>
  BY DEF LoseJobResult, IInv, ChecksType
<1>2. job' \in Seq(Rows) /\ \A i \in DOMAIN job' : Sound(job'[i], links, overtaken)
  BY <1>1, HeadAndTail DEF IInv, RowsSound
<1> QED
  BY <1>1, <1>2, QuietStep DEF IInv, ChecksType, RowsSound

LEMMA CheckLinkStep ==
  ASSUME IInv, NEW h \in Handlers, NEW l \in Links, CheckLink(h, l)
  PROVE  IInv'
<1>1. Row(l) \in Rows /\ Sound(Row(l), links, overtaken)
  BY ReadIsSound DEF CheckLink, IInv
<1>2. manual' = [manual EXCEPT ![h] = Row(l)] /\ UNCHANGED <<links, overtaken, job>>
  BY DEF CheckLink
<1> QED
  BY <1>1, <1>2, QuietStep DEF IInv, ChecksType, RowsSound

LEMMA RestartStep == IInv /\ Restart => IInv'
<1> SUFFICES ASSUME IInv, Restart PROVE IInv'
  OBVIOUS
<1>1. /\ job' = <<>> /\ manual' = [h \in Handlers |-> Idle]
      /\ UNCHANGED <<links, overtaken>>
  BY DEF Restart
<1> QED
  BY <1>1, IdleIsSound, QuietStep DEF ChecksType

LEMMA StoreJobResultStep ==
  ASSUME IInv, NEW l \in Links, StoreJobResult(l)
  PROVE  IInv'
<1>1. /\ job \in Seq(Rows) /\ job # <<>> /\ job' = Tail(job)
      /\ UNCHANGED <<overtaken, manual>> /\ UpdateLinkHealthStatus(Head(job))
  BY DEF StoreJobResult, IInv, ChecksType
<1>2. Head(job) \in Rows /\ Sound(Head(job), links, overtaken)
  BY <1>1, HeadAndTail DEF IInv, RowsSound
<1>3. LinksType' /\ WrongOnlyIfOvertaken' /\ \A r : Sound(r, links, overtaken) => Sound(r, links', overtaken')
  BY <1>1, <1>2, StoreStep
<1>4. job' \in Seq(Rows) /\ \A i \in DOMAIN job' : Sound(job'[i], links, overtaken)
  BY <1>1, HeadAndTail DEF IInv, RowsSound
<1>5. \A h \in Handlers : Sound(manual'[h], links, overtaken)
  BY <1>1 DEF IInv, RowsSound
<1>6. RowsSound' /\ ChecksType'
  BY <1>1, <1>3, <1>4, <1>5, RowsSoundAfter DEF IInv, ChecksType
<1> QED
  BY <1>3, <1>6 DEF IInv

LEMMA StoreManualResultStep ==
  ASSUME IInv, NEW h \in Handlers, StoreManualResult(h)
  PROVE  IInv'
<1>1. /\ manual[h] \in Rows /\ Sound(manual[h], links, overtaken)
      /\ manual' = [manual EXCEPT ![h] = Idle] /\ UNCHANGED <<overtaken, job>>
      /\ UpdateLinkHealthStatus(manual[h])
  BY DEF StoreManualResult, IInv, ChecksType, RowsSound
<1>2. LinksType' /\ WrongOnlyIfOvertaken' /\ \A r : Sound(r, links, overtaken) => Sound(r, links', overtaken')
  BY <1>1, StoreStep
<1>3. \A i \in DOMAIN job' : Sound(job'[i], links, overtaken)
  BY <1>1 DEF IInv, RowsSound
<1>4. \A g \in Handlers : Sound(manual'[g], links, overtaken)
  BY <1>1, IdleIsSound DEF IInv, RowsSound, ChecksType
<1>5. RowsSound' /\ ChecksType'
  BY <1>1, <1>2, <1>3, <1>4, RowsSoundAfter DEF IInv, ChecksType
<1> QED
  BY <1>2, <1>5 DEF IInv

LEMMA ChangesStep ==
  ASSUME IInv, NEW l \in Links, Changes(l)
  PROVE  IInv'
<1>1. /\ LinksType /\ ChecksType /\ RowsSound /\ WrongOnlyIfOvertaken
      /\ UNCHANGED <<job, manual>>
  BY DEF IInv, Changes, CreateLink, SetStatus, DeleteLink, UpdateLinkAndResetHealth, Edit
<1>2. \A row \in BeingChecked : Sound(row, links, overtaken)
  BY <1>1 DEF RowsSound, BeingChecked, ToSet
<1>3. SUFFICES /\ LinksType' /\ WrongOnlyIfOvertaken'
               /\ \A row \in BeingChecked : Sound(row, links', overtaken')
  <2>1. /\ \A i \in DOMAIN job : job[i] \in BeingChecked
        /\ \A h \in Handlers : manual[h] \in BeingChecked
    BY DEF BeingChecked, ToSet
  <2>2. RowsSound' /\ ChecksType'
    BY <1>1, <1>3, <2>1 DEF RowsSound, ChecksType
  <2> QED
    BY <1>3, <2>2 DEF IInv
<1>4. NoLink.status = "none" /\ Deleted.status = "deleted" /\ NoLink # Deleted
  BY DEF NoLink, Deleted
<1> DEFINE LinkRows == [status : {"approved", "hidden"}, url : URLs, result : URLs \cup {None}]
<1>5. CASE \E u \in URLs, status \in {"approved", "hidden"} : CreateLink(l, u, status)
  <2>1. PICK u \in URLs, status \in {"approved", "hidden"} : CreateLink(l, u, status)
    BY <1>5
  <2> DEFINE new == [status |-> status, url |-> u, result |-> None]
  <2>2. /\ links' = [links EXCEPT ![l] = new] /\ links[l] = NoLink
        /\ UNCHANGED overtaken /\ new \in LinkRows /\ new.result = None
    BY <2>1 DEF CreateLink
  <2> HIDE DEF new
  <2>3. links'[l] = new /\ \A m \in Links \ {l} : links'[m] = links[m]
    BY <1>1, <2>2 DEF LinksType
  <2>4. LinksType'
    BY <1>1, <2>2 DEF LinksType
  <2>5. WrongOnlyIfOvertaken'
    BY <1>1, <2>2, <2>3 DEF WrongOnlyIfOvertaken, Exists
  <2>6. \A row \in BeingChecked : Sound(row, links', overtaken')
    BY <1>2, <2>2, <2>3 DEF Sound
  <2> QED
    BY <2>4, <2>5, <2>6
<1>6. CASE \E status \in {"approved", "hidden"} : SetStatus(l, status)
  <2>1. PICK status \in {"approved", "hidden"} : SetStatus(l, status)
    BY <1>6
  <2>2. /\ links' = [links EXCEPT ![l].status = status] /\ Exists(l) /\ links[l] \in LinkRows
        /\ UNCHANGED overtaken
    BY <1>1, <2>1, ExistingLink DEF SetStatus
  <2>3. /\ links'[l] \in LinkRows /\ links'[l].url = links[l].url
        /\ links'[l].result = links[l].result
        /\ \A m \in Links \ {l} : links'[m] = links[m]
    BY <1>1, <2>2 DEF LinksType
  <2>4. LinksType'
    BY <1>1, <2>2, <2>3 DEF LinksType
  <2>5. WrongOnlyIfOvertaken'
    BY <1>1, <2>2, <2>3 DEF WrongOnlyIfOvertaken, Exists
  <2>6. links'[l] # NoLink
    BY <1>4, <2>3
  <2>7. \A row \in BeingChecked : Sound(row, links', overtaken')
    BY <1>2, <2>2, <2>3, <2>6 DEF Sound, Exists
  <2> QED
    BY <2>4, <2>5, <2>7
<1>7. CASE DeleteLink(l)
  <2>1. links' = [links EXCEPT ![l] = Deleted] /\ UNCHANGED overtaken
    BY <1>7 DEF DeleteLink
  <2>2. links'[l] = Deleted /\ \A m \in Links \ {l} : links'[m] = links[m]
    BY <1>1, <2>1 DEF LinksType
  <2>3. LinksType'
    BY <1>1, <2>1 DEF LinksType
  <2>4. WrongOnlyIfOvertaken'
    BY <1>1, <1>4, <2>1, <2>2 DEF WrongOnlyIfOvertaken, Exists
  <2>5. \A row \in BeingChecked : Sound(row, links', overtaken')
    BY <1>2, <1>4, <2>1, <2>2 DEF Sound
  <2> QED
    BY <2>3, <2>4, <2>5
<1>8. CASE \E u \in URLs : UpdateLinkAndResetHealth(l, u)
  <2>1. PICK u \in URLs : UpdateLinkAndResetHealth(l, u)
    BY <1>8
  <2>2. /\ links' = [links EXCEPT ![l].url = u, ![l].result = None] /\ Exists(l)
        /\ links[l] \in LinkRows
        /\ overtaken' = IF Overtakes(l, u) THEN overtaken \cup {l} ELSE overtaken
    BY <1>1, <2>1, ExistingLink DEF UpdateLinkAndResetHealth, Edit
  <2>3. /\ links'[l] \in LinkRows /\ links'[l].url = u /\ links'[l].result = None
        /\ \A m \in Links \ {l} : links'[m] = links[m]
    BY <1>1, <2>2 DEF LinksType
  <2>4. LinksType'
    BY <1>1, <2>2, <2>3 DEF LinksType
  <2>5. WrongOnlyIfOvertaken'
    BY <1>1, <2>2, <2>3 DEF WrongOnlyIfOvertaken, Exists
  <2>6. links'[l] # NoLink
    BY <1>4, <2>3
  <2>7. ASSUME NEW row \in BeingChecked
        PROVE  Sound(row, links', overtaken')
    <3>1. CASE row.link = l
      <4>1. row.url # u => l \in overtaken'
        BY <2>2, <3>1 DEF Overtakes
      <4> QED
        BY <2>3, <2>6, <3>1, <4>1 DEF Sound
    <3>2. CASE row.link # l
      BY <1>2, <2>2, <2>3, <3>2 DEF Sound
    <3> QED
      BY <3>1, <3>2
  <2> QED
    BY <2>4, <2>5, <2>7
<1> QED
  BY <1>5, <1>6, <1>7, <1>8 DEF Changes

-----------------------------------------------------------------------------
(* The invariant and the theorem.                                          *)

LEMMA InitInv == Init => IInv
<1> SUFFICES ASSUME Init PROVE IInv
  OBVIOUS
<1>1. LinksType /\ ChecksType
  BY DEF Init, LinksType, ChecksType
<1>2. RowsSound
  BY IdleIsSound DEF Init, RowsSound
<1>3. WrongOnlyIfOvertaken
  BY DEF Init, WrongOnlyIfOvertaken, Exists, NoLink
<1> QED
  BY <1>1, <1>2, <1>3 DEF IInv

LEMMA NextInv == IInv /\ [Next]_vars => IInv'
<1> SUFFICES ASSUME IInv, [Next]_vars PROVE IInv'
  OBVIOUS
<1>1. CASE Expire
  BY <1>1, QuietStep DEF Expire, IInv, ChecksType, RowsSound
<1>2. CASE CheckAll \/ LoseJobResult
  BY <1>2, CheckAllStep, LoseJobResultStep
<1>3. CASE \E l \in Links : StoreJobResult(l)
  BY <1>3, StoreJobResultStep
<1>4. CASE \E h \in Handlers, l \in Links : CheckLink(h, l)
  BY <1>4, CheckLinkStep
<1>5. CASE \E h \in Handlers : StoreManualResult(h)
  BY <1>5, StoreManualResultStep
<1>6. CASE \E l \in Links : Changes(l)
  BY <1>6, ChangesStep
<1>7. CASE Restart
  BY <1>7, RestartStep
<1>8. CASE UNCHANGED vars
  BY <1>8, QuietStep DEF vars, IInv, ChecksType, RowsSound
<1> QED
  BY <1>1, <1>2, <1>3, <1>4, <1>5, <1>6, <1>7, <1>8 DEF Next, Checks

\* The health of a link is about the URL it has, unless an edit overtook a check of
\* the URL it had before: resetting the health leaves no other way.
THEOREM HealthIsWrongOnlyIfOvertaken == Spec => []WrongOnlyIfOvertaken
<1>1. IInv => WrongOnlyIfOvertaken
  BY DEF IInv
<1> QED
  BY InitInv, NextInv, <1>1, PTL DEF Spec

-----------------------------------------------------------------------------
(* The order of the checks.                                                *)

\* The elements of the first n places.
First(s, n) == {s[i] : i \in 1..n}

\* The sequence s without its place p.
Without(s, p) == SubSeq(s, 1, p - 1) \o SubSeq(s, p + 1, Len(s))

\* RemoveFirst takes out the one place of an element, if it has one.
LEMMA RemovePlace ==
  ASSUME NEW S, NEW s \in Seq(S), IsInjective(s), NEW p \in 1..Len(s)
  PROVE  RemoveFirst(s, s[p]) = Without(s, p)
<1>1. {i \in 1..Len(s) : s[i] = s[p]} = {p}
  BY DEF IsInjective
<1>2. Min({p}) = p
  BY DEF Min
<1>3. SelectInSeq(s, LAMBDA v : v = s[p]) = p
  BY <1>1, <1>2 DEF SelectInSeq
<1>4. RemoveFirst(s, s[p]) = RemoveAt(s, SelectInSeq(s, LAMBDA v : v = s[p]))
  BY DEF RemoveFirst
<1> QED BY <1>3, <1>4 DEF RemoveAt, Without

LEMMA RemoveNothing ==
  ASSUME NEW S, NEW s \in Seq(S), NEW e, e \notin ToSet(s)
  PROVE  RemoveFirst(s, e) = s
<1>1. ~ \E i \in 1..Len(s) : s[i] = e
  BY DEF ToSet
<1> QED BY <1>1 DEF RemoveFirst

\* c is the sequence a followed by b.
Joins(c, a, b, S) ==
  /\ c \in Seq(S) /\ Len(c) = Len(a) + Len(b)
  /\ \A i \in 1..Len(a) : c[i] = a[i]
  /\ \A i \in 1..Len(b) : c[Len(a) + i] = b[i]

LEMMA Concatenated ==
  ASSUME NEW S, NEW a \in Seq(S), NEW b \in Seq(S)
  PROVE  Joins(a \o b, a, b, S)
<1>1. a \o b \in Seq(S) /\ Len(a \o b) = Len(a) + Len(b)
  OBVIOUS
<1>2. \A i \in 1..Len(a) : (a \o b)[i] = a[i]
  OBVIOUS
<1>3. \A i \in 1..Len(b) : (a \o b)[Len(a) + i] = b[i]
  OBVIOUS
<1> QED BY <1>1, <1>2, <1>3 DEF Joins

\* What is left when place p is taken out.
LEMMA Shortened ==
  ASSUME NEW S, NEW s \in Seq(S), NEW p \in 1..Len(s)
  PROVE  /\ Without(s, p) \in Seq(S) /\ Len(Without(s, p)) = Len(s) - 1
         /\ \A i \in 1..Len(s) - 1 : Without(s, p)[i] = IF i < p THEN s[i] ELSE s[i + 1]
<1>1. PICK a : a = SubSeq(s, 1, p - 1)
  OBVIOUS
<1>2. PICK b : b = SubSeq(s, p + 1, Len(s))
  OBVIOUS
<1>3. p - 1 \in Nat /\ a \in Seq(S) /\ Len(a) = p - 1 /\ \A i \in 1..(p - 1) : a[i] = s[i]
  BY <1>1
<1>4. Len(s) - p \in Nat /\ b \in Seq(S) /\ Len(b) = Len(s) - p /\ \A i \in 1..(Len(s) - p) : b[i] = s[i + p]
  BY <1>2
<1>5. Without(s, p) = a \o b
  BY <1>1, <1>2 DEF Without
<1>6. PICK m \in Nat : m = p - 1
  BY <1>3
<1>7. PICK n \in Nat : n = Len(s) - p
  BY <1>4
<1>8. /\ a \o b \in Seq(S) /\ Len(a \o b) = m + n
      /\ \A i \in 1..m : (a \o b)[i] = a[i]
      /\ \A i \in 1..n : (a \o b)[m + i] = b[i]
  <2>1. a \in Seq(S) /\ Len(a) = m
    BY <1>3, <1>6
  <2>2. b \in Seq(S) /\ Len(b) = n
    BY <1>4, <1>7
  <2>3. Joins(a \o b, a, b, S)
    BY <2>1, <2>2, Concatenated
  <2> QED BY <2>1, <2>2, <2>3 DEF Joins
<1>9. m + n = Len(s) - 1
  BY <1>6, <1>7
<1>10. ASSUME NEW i \in 1..Len(s) - 1
       PROVE  (a \o b)[i] = IF i < p THEN s[i] ELSE s[i + 1]
  <2>1. CASE i < p
    <3>1. i \in 1..m
      BY <1>6, <2>1
    <3> QED BY <1>3, <1>6, <1>8, <2>1, <3>1
  <2>2. CASE ~(i < p)
    <3>1. PICK j \in 1..n : i = m + j
      <4>1. i - m \in 1..n /\ i = m + (i - m)
        BY <1>6, <1>7, <2>2
      <4> QED BY <4>1
    <3>2. (a \o b)[i] = b[j] /\ b[j] = s[j + p]
      BY <1>4, <1>7, <1>8, <3>1
    <3>3. j + p = i + 1
      BY <1>6, <3>1
    <3> QED BY <2>2, <3>2, <3>3
  <2> QED BY <2>1, <2>2
<1> QED BY <1>5, <1>8, <1>9, <1>10

\* r is s without e: no place was taken twice, and the order is the same.
Lacks(r, s, e, S) ==
  /\ r \in Seq(S) /\ IsInjective(r) /\ ToSet(r) = ToSet(s) \ {e}
  /\ \A n \in 0..Len(s) : \E m \in 0..Len(r) : First(r, m) = First(s, n) \ {e}

\* A sequence without repetitions keeps the order of what is left in it.
LEMMA RemoveOrder ==
  ASSUME NEW S, NEW s \in Seq(S), IsInjective(s), NEW e
  PROVE  Lacks(RemoveFirst(s, e), s, e, S)
<1> PICK r : r = RemoveFirst(s, e)
  OBVIOUS
<1>1. CASE e \notin ToSet(s)
  <2>1. r = s
    BY <1>1, RemoveNothing
  <2>2. \A n \in 0..Len(s) : First(s, n) = First(s, n) \ {e}
    BY <1>1 DEF First, ToSet
  <2> QED BY <1>1, <2>1, <2>2 DEF Lacks
<1>2. CASE e \in ToSet(s)
  <2>1. PICK p \in 1..Len(s) : s[p] = e
    BY <1>2 DEF ToSet
  <2>2. r = Without(s, p)
    BY <2>1, RemovePlace
  <2>3. /\ r \in Seq(S) /\ Len(r) = Len(s) - 1
        /\ \A i \in 1..Len(r) : r[i] = IF i < p THEN s[i] ELSE s[i + 1]
    <3>1. /\ Without(s, p) \in Seq(S) /\ Len(Without(s, p)) = Len(s) - 1
          /\ \A i \in 1..Len(s) - 1 : Without(s, p)[i] = IF i < p THEN s[i] ELSE s[i + 1]
      BY Shortened
    <3> QED BY <2>2, <3>1
  <2>4. \A i, j \in 1..Len(s) : s[i] = s[j] => i = j
    BY DEF IsInjective
  <2>5. IsInjective(r)
    <3> SUFFICES ASSUME NEW i \in 1..Len(r), NEW j \in 1..Len(r), r[i] = r[j] PROVE i = j
      BY <2>3 DEF IsInjective
    <3>0. ASSUME NEW k \in 1..Len(r)
          PROVE  \E a \in 1..Len(s) : r[k] = s[a] /\ a = IF k < p THEN k ELSE k + 1
      <4>1. k \in 1..Len(s) /\ k + 1 \in 1..Len(s)
        BY <2>3
      <4> QED BY <2>3, <4>1
    <3>1. PICK a \in 1..Len(s) : r[i] = s[a] /\ a = IF i < p THEN i ELSE i + 1
      BY <3>0
    <3>2. PICK b \in 1..Len(s) : r[j] = s[b] /\ b = IF j < p THEN j ELSE j + 1
      BY <3>0
    <3>3. a = b
      BY <2>4, <3>1, <3>2
    <3> QED BY <3>1, <3>2, <3>3
  <2>6. ASSUME NEW n \in 0..Len(s)
        PROVE  /\ n < p => First(r, n) = First(s, n) \ {e}
               /\ ~(n < p) => First(r, n - 1) = First(s, n) \ {e}
    <3>1. CASE n < p
      <4>1. \A i \in 1..n : r[i] = s[i] /\ s[i] # e
        BY <2>1, <2>3, <2>4, <3>1
      <4> QED BY <3>1, <4>1 DEF First
    <3>2. CASE ~(n < p)
      <4>1. ASSUME NEW i \in 1..(n - 1)
            PROVE  r[i] \in First(s, n) \ {e}
        <5>1. i \in 1..Len(r) /\ i \in 1..Len(s) /\ i + 1 \in 1..n /\ i + 1 \in 1..Len(s) /\ i \in 1..n
          BY <2>3
        <5>2. CASE i < p
          BY <2>1, <2>3, <2>4, <5>1, <5>2 DEF First
        <5>3. CASE ~(i < p)
          BY <2>1, <2>3, <2>4, <5>1, <5>3 DEF First
        <5> QED BY <5>2, <5>3
      <4>2. ASSUME NEW i \in 1..n, s[i] # e
            PROVE  s[i] \in First(r, n - 1)
        <5>1. CASE i < p
          <6>1. i \in 1..(n - 1) /\ i \in 1..Len(r)
            BY <2>3, <3>2, <5>1
          <6> QED BY <2>3, <5>1, <6>1 DEF First
        <5>2. CASE i > p
          <6>1. PICK j \in 1..(n - 1) : i = j + 1
            BY <5>2
          <6>2. j \in 1..Len(r) /\ ~(j < p)
            BY <2>3, <5>2, <6>1
          <6>3. r[j] = s[i]
            BY <2>3, <6>1, <6>2
          <6> QED BY <6>3 DEF First
        <5>3. i # p
          BY <2>1, <4>2
        <5> QED BY <5>1, <5>2, <5>3
      <4> QED BY <3>2, <4>1, <4>2 DEF First
    <3> QED BY <3>1, <3>2
  <2>7. \A n \in 0..Len(s) : \E m \in 0..Len(r) : First(r, m) = First(s, n) \ {e}
    <3> TAKE n \in 0..Len(s)
    <3>1. CASE n < p
      <4>1. n \in 0..Len(r)
        BY <2>3, <3>1
      <4> QED BY <2>6, <3>1, <4>1
    <3>2. CASE ~(n < p)
      <4>1. n - 1 \in 0..Len(r)
        BY <2>3, <3>2
      <4> QED BY <2>6, <3>2, <4>1
    <3> QED BY <3>1, <3>2
  <2>8. ToSet(r) = ToSet(s) \ {e}
    <3>1. First(r, Len(s) - 1) = First(s, Len(s)) \ {e}
      BY <2>6
    <3>2. ToSet(r) = First(r, Len(r)) /\ ToSet(s) = First(s, Len(s))
      BY <2>3 DEF ToSet, First
    <3> QED BY <2>3, <3>1, <3>2
  <2> QED BY <2>3, <2>5, <2>7, <2>8 DEF Lacks
<1> QED BY <1>1, <1>2

\* r is s and then e.
EndsWith(r, s, e, S) ==
  /\ r \in Seq(S) /\ IsInjective(r) /\ ToSet(r) = ToSet(s) \cup {e}
  /\ \A n \in 0..Len(s) : n \in 0..Len(r) /\ First(r, n) = First(s, n)

LEMMA AppendOrder ==
  ASSUME NEW S, NEW s \in Seq(S), IsInjective(s), NEW e \in S, e \notin ToSet(s)
  PROVE  EndsWith(Append(s, e), s, e, S)
<1> PICK r : r = Append(s, e)
  OBVIOUS
<1>1. /\ r \in Seq(S) /\ Len(r) = Len(s) + 1 /\ r[Len(s) + 1] = e
      /\ \A i \in 1..Len(s) : r[i] = s[i]
  OBVIOUS
<1>2. \A i \in 1..Len(s) : s[i] # e
  BY DEF ToSet
<1>3. IsInjective(r)
  BY <1>1, <1>2 DEF IsInjective
<1>4. ToSet(r) = ToSet(s) \cup {e}
  BY <1>1 DEF ToSet
<1>5. \A n \in 0..Len(s) : n \in 0..Len(r) /\ First(r, n) = First(s, n)
  BY <1>1 DEF First
<1> QED BY <1>1, <1>3, <1>4, <1>5 DEF EndsWith

-----------------------------------------------------------------------------
(* Type correctness: the list of checks and the results of the links agree. *)

\* What TypeOK says about the checks and the results.
Ordered(c, x, t) ==
  /\ c \in Seq(Links) /\ IsInjective(c)
  /\ ToSet(c) = {l \in Links : t[l].result # None}
  /\ \E n \in 0..Len(c) : x = First(c, n)

OrderType == Ordered(checked, expired, links)

BoundsType == Len(job) <= BatchSize /\ edits \in 0..MaxEdits /\ overtaken \subseteq Links

TypeInv == IInv /\ OrderType /\ BoundsType

LEMMA TypeInvImplies == TypeInv => TypeOK
  BY DEF TypeInv, IInv, OrderType, Ordered, BoundsType, ChecksType, TypeOK, First

LEMMA OrderStays ==
  ASSUME OrderType, UNCHANGED <<checked, expired>>, \A l \in Links : links'[l].result = links[l].result
  PROVE  OrderType'
  BY DEF OrderType, Ordered

\* A result that is dropped leaves the list of checks.
LEMMA ResetOrder ==
  ASSUME OrderType, NEW l \in Links, checked' = RemoveFirst(checked, l), expired' = expired \ {l},
         links'[l].result = None, \A m \in Links \ {l} : links'[m].result = links[m].result
  PROVE  OrderType'
<1>1. PICK r : r = RemoveFirst(checked, l)
  OBVIOUS
<1>2. Lacks(r, checked, l, Links)
  BY <1>1, RemoveOrder DEF OrderType, Ordered
<1>3. PICK n \in 0..Len(checked) : expired = First(checked, n)
  BY DEF OrderType, Ordered
<1>4. PICK m \in 0..Len(r) : First(r, m) = First(checked, n) \ {l}
  BY <1>2 DEF Lacks
<1>5. ToSet(r) = {k \in Links : links'[k].result # None}
  BY <1>2 DEF OrderType, Ordered, Lacks
<1>6. Ordered(r, First(r, m), links')
  BY <1>2, <1>5 DEF Ordered, Lacks
<1> QED BY <1>1, <1>3, <1>4, <1>6 DEF OrderType

\* A result that is stored is the last in the list of checks.
LEMMA StoreOrder ==
  ASSUME OrderType, NEW l \in Links, checked' = Append(RemoveFirst(checked, l), l),
         expired' = expired \ {l}, links'[l].result # None,
         \A m \in Links \ {l} : links'[m].result = links[m].result
  PROVE  OrderType'
<1>1. PICK r : r = RemoveFirst(checked, l)
  OBVIOUS
<1>2. Lacks(r, checked, l, Links)
  BY <1>1, RemoveOrder DEF OrderType, Ordered
<1>3. PICK n \in 0..Len(checked) : expired = First(checked, n)
  BY DEF OrderType, Ordered
<1>4. PICK m \in 0..Len(r) : First(r, m) = First(checked, n) \ {l}
  BY <1>2 DEF Lacks
<1>5. PICK t : t = Append(r, l)
  OBVIOUS
<1>6. EndsWith(t, r, l, Links)
  BY <1>2, <1>5, AppendOrder DEF Lacks
<1>7. ToSet(t) = {k \in Links : links'[k].result # None}
  BY <1>2, <1>6 DEF OrderType, Ordered, Lacks, EndsWith
<1>8. m \in 0..Len(t) /\ First(t, m) = First(checked, n) \ {l}
  BY <1>4, <1>6 DEF EndsWith
<1>9. Ordered(t, First(t, m), links')
  BY <1>6, <1>7, <1>8 DEF Ordered, EndsWith
<1> QED BY <1>1, <1>3, <1>5, <1>8, <1>9 DEF OrderType

LEMMA ExpireOrder == OrderType /\ Expire => OrderType'
<1> SUFFICES ASSUME OrderType, Expire PROVE OrderType'
  OBVIOUS
<1>1. PICK n \in DOMAIN checked : expired' = expired \cup First(checked, n)
  BY DEF Expire, First
<1>2. PICK k \in 0..Len(checked) : expired = First(checked, k)
  BY DEF OrderType, Ordered
<1>3. n \in 0..Len(checked) /\ n \in Nat /\ k \in Nat
  BY <1>1, <1>2 DEF OrderType, Ordered
<1>4. PICK m \in {n, k} : m >= n /\ m >= k
  BY <1>3
<1>5. First(checked, k) \cup First(checked, n) = First(checked, m)
  BY <1>3, <1>4 DEF First
<1>6. expired' = First(checked, m) /\ m \in 0..Len(checked)
  BY <1>1, <1>2, <1>3, <1>4, <1>5
<1>7. UNCHANGED <<links, checked>>
  BY DEF Expire
<1> QED BY <1>6, <1>7 DEF OrderType, Ordered

LEMMA UpdateOrder ==
  ASSUME IInv, OrderType, NEW row \in Rows, UpdateLinkHealthStatus(row)
  PROVE  OrderType'
<1>1. CASE ~Exists(row.link)
  <2>1. UNCHANGED <<links, checked, expired>>
    BY <1>1 DEF UpdateLinkHealthStatus
  <2> QED BY <2>1, OrderStays
<1>2. CASE Exists(row.link)
  <2>1. PICK l \in Links : l = row.link
    BY DEF Rows
  <2>2. /\ links' = [links EXCEPT ![l].result = row.url]
        /\ checked' = Append(RemoveFirst(checked, l), l) /\ expired' = expired \ {l}
    BY <1>2, <2>1 DEF UpdateLinkHealthStatus
  <2>3. row.url # None
    BY NoneIsNoId DEF Rows
  <2>4. links[l] \in [status : {"approved", "hidden"}, url : URLs, result : URLs \cup {None}]
    BY <1>2, <2>1, ExistingLink DEF IInv
  <2>5. /\ links'[l] = [links[l] EXCEPT !.result = row.url]
        /\ \A m \in Links \ {l} : links'[m] = links[m]
    BY <2>2 DEF IInv, LinksType
  <2>6. links'[l].result = row.url
    BY <2>4, <2>5
  <2> QED BY <2>2, <2>3, <2>5, <2>6, StoreOrder
<1> QED BY <1>1, <1>2

LEMMA ChangesOrder ==
  ASSUME IInv, OrderType, NEW l \in Links, Changes(l)
  PROVE  OrderType'
<1> USE DEF IInv, LinksType
<1>1. ASSUME NEW u \in URLs, NEW status, CreateLink(l, u, status)
      PROVE  OrderType'
  <2>1. PICK new : new = [status |-> status, url |-> u, result |-> None]
    OBVIOUS
  <2>2. /\ links' = [links EXCEPT ![l] = new] /\ links[l] = NoLink
        /\ UNCHANGED <<checked, expired>>
    BY <1>1, <2>1 DEF CreateLink
  <2>3. links'[l].result = None /\ links[l].result = None
    BY <2>1, <2>2 DEF NoLink
  <2> QED BY <2>2, <2>3, OrderStays
<1>2. ASSUME NEW status, SetStatus(l, status)
      PROVE  OrderType'
  <2>1. links' = [links EXCEPT ![l].status = status] /\ UNCHANGED <<checked, expired>>
    BY <1>2 DEF SetStatus
  <2>2. links[l] \in [status : {"approved", "hidden"}, url : URLs, result : URLs \cup {None}]
    BY <1>2, ExistingLink DEF SetStatus
  <2>3. links'[l].result = links[l].result
    BY <2>1, <2>2
  <2> QED BY <2>1, <2>3, OrderStays
<1>3. CASE DeleteLink(l)
  <2>1. /\ links' = [links EXCEPT ![l] = Deleted]
        /\ checked' = RemoveFirst(checked, l) /\ expired' = expired \ {l}
    BY <1>3 DEF DeleteLink
  <2>2. Deleted.result = None
    BY DEF Deleted, NoLink
  <2>3. links'[l].result = None /\ \A m \in Links \ {l} : links'[m] = links[m]
    BY <2>1, <2>2
  <2> QED BY <2>1, <2>3, ResetOrder
<1>4. ASSUME NEW u \in URLs, UpdateLinkAndResetHealth(l, u)
      PROVE  OrderType'
  <2>1. /\ links' = [links EXCEPT ![l].url = u, ![l].result = None]
        /\ checked' = RemoveFirst(checked, l) /\ expired' = expired \ {l}
    BY <1>4 DEF UpdateLinkAndResetHealth
  <2>2. links[l] \in [status : {"approved", "hidden"}, url : URLs, result : URLs \cup {None}]
    BY <1>4, ExistingLink DEF UpdateLinkAndResetHealth, Edit
  <2>3. links'[l].result = None /\ \A m \in Links \ {l} : links'[m] = links[m]
    BY <2>1, <2>2
  <2> QED BY <2>1, <2>3, ResetOrder
<1> QED BY <1>1, <1>2, <1>3, <1>4 DEF Changes

\* What is left to check and the edits stay within their bounds.
LEMMA BoundsStep ==
  ASSUME IInv, BoundsType, [Next]_vars
  PROVE  BoundsType'
<1>1. BatchSize \in Nat /\ MaxEdits \in Nat /\ job \in Seq(Rows)
  BY HealthAssumption DEF IInv, ChecksType
<1>2. CASE UNCHANGED <<job, edits, overtaken>>
  BY <1>2 DEF BoundsType
<1>3. CASE CheckAll
  <2>1. PICK batch \in GetLinksNeedingHealthCheck : job' = [i \in DOMAIN batch |-> Row(batch[i])]
    BY <1>3 DEF CheckAll
  <2>2. PICK n \in 0..BatchSize : batch \in [1..n -> Due]
    BY <2>1 DEF GetLinksNeedingHealthCheck, SeqOf
  <2>3. n \in Nat /\ n <= BatchSize /\ job' = [i \in 1..n |-> Row(batch[i])]
    BY <1>1, <2>1, <2>2
  <2>4. Len(job') = n
    BY <2>3
  <2> QED BY <1>3, <2>3, <2>4 DEF CheckAll, BoundsType
<1>4. CASE UNCHANGED <<edits, overtaken>> /\ job # <<>> /\ job' = Tail(job)
  <2>1. Len(job') = Len(job) - 1 /\ Len(job) \in Nat
    BY <1>1, <1>4
  <2> QED BY <1>1, <1>4, <2>1 DEF BoundsType
<1>5. CASE Restart
  <2>1. Len(job') = 0
    BY <1>5 DEF Restart
  <2> QED BY <1>1, <1>5, <2>1 DEF Restart, BoundsType
<1>6. ASSUME NEW l \in Links, NEW u \in URLs, UpdateLinkAndResetHealth(l, u)
      PROVE  BoundsType'
  BY <1>1, <1>6 DEF UpdateLinkAndResetHealth, Edit, BoundsType
<1>7. CASE LoseJobResult \/ \E l \in Links : StoreJobResult(l)
  BY <1>4, <1>7 DEF LoseJobResult, StoreJobResult
<1>8. CASE Expire \/ (\E h \in Handlers, l \in Links : CheckLink(h, l))
             \/ \E h \in Handlers : StoreManualResult(h)
  BY <1>2, <1>8 DEF Expire, CheckLink, StoreManualResult
<1>9. ASSUME NEW l \in Links, Changes(l)
      PROVE  BoundsType'
  BY <1>2, <1>6, <1>9 DEF Changes, CreateLink, SetStatus, DeleteLink
<1> QED BY <1>2, <1>3, <1>5, <1>7, <1>8, <1>9 DEF Next, Checks, vars

LEMMA OrderStep ==
  ASSUME IInv, OrderType, [Next]_vars
  PROVE  OrderType'
<1>1. CASE UNCHANGED <<links, checked, expired>>
  BY <1>1, OrderStays
<1>2. ASSUME NEW l \in Links, StoreJobResult(l)
      PROVE  OrderType'
  <2>1. Head(job) \in Rows
    BY <1>2, HeadAndTail DEF StoreJobResult, IInv, ChecksType
  <2> QED BY <1>2, <2>1, UpdateOrder DEF StoreJobResult
<1>3. ASSUME NEW h \in Handlers, StoreManualResult(h)
      PROVE  OrderType'
  <2>1. manual[h] \in Rows
    BY <1>3 DEF StoreManualResult, IInv, ChecksType
  <2> QED BY <1>3, <2>1, UpdateOrder DEF StoreManualResult
<1>4. CASE CheckAll \/ LoseJobResult \/ Restart \/ \E h \in Handlers, l \in Links : CheckLink(h, l)
  BY <1>1, <1>4 DEF CheckAll, LoseJobResult, Restart, CheckLink
<1> QED BY <1>1, <1>2, <1>3, <1>4, ExpireOrder, ChangesOrder DEF Next, Checks, vars

LEMMA InitTypeInv == Init => TypeInv
<1> SUFFICES ASSUME Init PROVE TypeInv
  OBVIOUS
<1>1. OrderType
  <2>1. checked = <<>> /\ expired = {} /\ \A l \in Links : links[l].result = None
    BY DEF Init, NoLink
  <2>2. checked \in Seq(Links) /\ Len(checked) = 0 /\ ToSet(checked) = {} /\ IsInjective(checked)
    BY <2>1 DEF ToSet, IsInjective
  <2>3. First(checked, 0) = {}
    BY DEF First
  <2> QED BY <2>1, <2>2, <2>3 DEF OrderType, Ordered
<1>2. BoundsType
  BY HealthAssumption DEF Init, BoundsType
<1> QED BY <1>1, <1>2, InitInv DEF TypeInv

\* Every variable has its type: a link has a result exactly when it has a time of
\* its last check, and the checks older than maxAge are the first of all.
THEOREM TypeCorrect == Spec => []TypeOK
<1>1. TypeInv /\ [Next]_vars => TypeInv'
  BY NextInv, OrderStep, BoundsStep DEF TypeInv
<1> QED
  BY InitTypeInv, <1>1, TypeInvImplies, PTL DEF Spec
===============================================================================
