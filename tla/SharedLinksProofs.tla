-------------------------- MODULE SharedLinksProofs --------------------------
(***************************************************************************)
(* Proofs about SharedLinks, for every value of its constants.             *)
(***************************************************************************)
EXTENDS SharedLinks, FiniteSetTheorems, TLAPS

AllPending == {s \in Shares : Pending(s)}

\* No two pending offers of one sender, recipient and keyword.
Unique ==
  \A s, t \in Shares :
    Pending(s) /\ shares[t] = [shares[s] EXCEPT !.url = shares[t].url] => s = t

SharesType   == shares \in [Shares -> {NoShare, Deleted} \cup Offers]
PersonalType == personal \in [Users -> [Keywords -> URLs \cup {None}]]
HandlerType  == handler \in [Handlers -> {Idle} \cup Tasks]
HistoryType  == /\ requests \in Nat
                /\ copied \subseteq Shares
                /\ crowded \subseteq {"sender", "recipient"} \X Users

LEMMA TypeParts ==
  TypeOK <=> SharesType /\ PersonalType /\ HandlerType /\ HistoryType /\ Unique
  BY DEF TypeOK, SharesType, PersonalType, HandlerType, HistoryType, Unique

\* A party who is not crowded has at most one offer between count and insert,
\* and room for it.
Room(inserting, pending) ==
  \/ inserting = {} /\ Cardinality(pending) <= Limit
  \/ \E h \in Handlers : inserting = {h} /\ Cardinality(pending) < Limit

RoomForAll ==
  \A u \in Users :
    /\ <<"sender", u>> \notin crowded => Room(Sending(u), Outgoing(u))
    /\ <<"recipient", u>> \notin crowded => Room(Receiving(u), Incoming(u))

\* What an acceptance deletes it has copied, unless somebody else deleted it.
CopiedFirst ==
  \A h \in Handlers :
    /\ handler[h].share \in Shares => shares[handler[h].share] # NoShare
    /\ At(h, "drop accepted") =>
         handler[h].share \in copied \/ ~Pending(handler[h].share)

\* The inductive invariant.
IInv ==
  /\ TypeOK
  /\ IsFiniteSet(AllPending)
  /\ RoomForAll
  /\ CopiedFirst

-----------------------------------------------------------------------------
(* Facts about the constants and the shapes of rows and requests.          *)

LEMMA NoneIsNoId ==
  None \notin Users /\ None \notin Keywords /\ None \notin URLs /\ None \notin Shares
  BY SharedLinksAssumption

LEMMA PendingType ==
  ASSUME SharesType, NEW s \in Shares, Pending(s)
  PROVE  shares[s] \in Offers
<1>1. shares[s] \in {NoShare, Deleted} \cup Offers
  BY DEF SharesType
<1>2. NoShare.status = "none" /\ Deleted.status = "deleted"
  BY DEF NoShare, Deleted
<1> QED
  BY <1>1, <1>2 DEF Pending

LEMMA PendingTypeNext ==
  ASSUME SharesType', NEW s \in Shares, Pending(s)'
  PROVE  shares'[s] \in Offers
<1>1. shares'[s] \in {NoShare, Deleted} \cup Offers
  BY DEF SharesType
<1>2. NoShare.status = "none" /\ Deleted.status = "deleted"
  BY DEF NoShare, Deleted
<1> QED
  BY <1>1, <1>2 DEF Pending

LEMMA OffersArePending ==
  ASSUME NEW o \in Offers
  PROVE  /\ o.status = "pending" /\ o.sender \in Users /\ o.recipient \in Users
         /\ o.keyword \in Keywords /\ o.url \in URLs /\ o # NoShare
  BY DEF Offers, NoShare

\* An offer is a copy of another but for the URL when the parties and keyword agree.
LEMMA CopyButForURL ==
  ASSUME NEW o \in Offers, NEW p \in Offers
  PROVE  p = [o EXCEPT !.url = p.url] <=> /\ o.sender = p.sender /\ o.recipient = p.recipient
                                         /\ o.keyword = p.keyword
<1>1. /\ o = [status |-> "pending", sender |-> o.sender, recipient |-> o.recipient,
               keyword |-> o.keyword, url |-> o.url]
      /\ p = [status |-> "pending", sender |-> p.sender, recipient |-> p.recipient,
               keyword |-> p.keyword, url |-> p.url]
  BY DEF Offers
<1> QED
  BY <1>1

LEMMA TaskPcs ==
  /\ Idle.pc = "idle"
  /\ \A t \in Making : t.pc \in {"count", "insert"}
  /\ \A t \in Accepting : t.pc = "copy"
  /\ \A t \in Dropping : t.pc \in {"drop accepted", "drop"}
  BY DEF Idle, Making, Accepting, Dropping

LEMMA TaskKinds ==
  ASSUME HandlerType, NEW h \in Handlers
  PROVE  /\ At(h, "count") \/ At(h, "insert") => handler[h].offer \in Offers
         /\ At(h, "copy") => /\ handler[h].offer \in Offers /\ handler[h].user \in Users
                             /\ handler[h].share \in Shares
         /\ At(h, "drop") \/ At(h, "drop accepted") => handler[h].share \in Shares
<1>1. handler[h] \in {Idle} \cup Tasks
  BY DEF HandlerType
<1> QED
  BY <1>1, TaskPcs DEF Tasks, Making, Accepting, Dropping, At

LEMMA LimitIsNat == Limit \in Nat
  BY SharedLinksAssumption

LEMMA PartsAreFinite ==
  ASSUME IsFiniteSet(AllPending), NEW u
  PROVE  /\ IsFiniteSet(Outgoing(u)) /\ Cardinality(Outgoing(u)) \in Nat
         /\ IsFiniteSet(Incoming(u)) /\ Cardinality(Incoming(u)) \in Nat
<1>1. Outgoing(u) \subseteq AllPending /\ Incoming(u) \subseteq AllPending
  BY DEF Outgoing, Incoming, AllPending
<1> QED
  BY <1>1, FS_Subset, FS_CardinalityType

-----------------------------------------------------------------------------
(* Room is kept when a request ends and when offers are deleted, is taken  *)
(* by a count and used up by an insertion.                                 *)

LEMMA RoomShrinks ==
  ASSUME NEW I, NEW P, NEW J, NEW Q, IsFiniteSet(P), Room(I, P), J \subseteq I, Q \subseteq P
  PROVE  Room(J, Q)
<1>1. Cardinality(Q) \in Nat /\ Cardinality(P) \in Nat /\ Cardinality(Q) <= Cardinality(P)
  BY FS_Subset, FS_CardinalityType
<1>2. CASE I = {} /\ Cardinality(P) <= Limit
  BY <1>1, <1>2, LimitIsNat DEF Room
<1>3. ASSUME NEW h \in Handlers, I = {h}, Cardinality(P) < Limit
      PROVE  Room(J, Q)
  <2>1. J = {} \/ J = {h}
    BY <1>3
  <2>2. Cardinality(Q) < Limit /\ Cardinality(Q) <= Limit
    BY <1>1, <1>3, LimitIsNat
  <2> QED
    BY <2>1, <2>2 DEF Room
<1> QED
  BY <1>2, <1>3 DEF Room

LEMMA RoomTaken ==
  ASSUME NEW h \in Handlers, NEW P, Cardinality(P) < Limit
  PROVE  Room({h}, P)
  BY DEF Room

LEMMA RoomUsed ==
  ASSUME NEW h \in Handlers, NEW I, NEW P, NEW s, h \in I, IsFiniteSet(P), Room(I, P), s \notin P
  PROVE  Room(I \ {h}, P \cup {s})
<1>1. I = {h} /\ Cardinality(P) < Limit
  BY DEF Room
<1>2. Cardinality(P) \in Nat /\ Cardinality(P \cup {s}) = Cardinality(P) + 1
  BY FS_AddElement, FS_CardinalityType
<1>3. Cardinality(P \cup {s}) <= Limit
  BY <1>1, <1>2, LimitIsNat
<1> QED
  BY <1>1, <1>3 DEF Room

-----------------------------------------------------------------------------
(* Parts of the invariant that steps of one kind keep.                     *)

LEMMA TaskStep ==
  ASSUME HandlerType, NEW h \in Handlers, NEW t \in {Idle} \cup Tasks,
         handler' = [handler EXCEPT ![h] = t]
  PROVE  HandlerType' /\ handler'[h] = t /\ \A g \in Handlers \ {h} : handler'[g] = handler[g]
  BY DEF HandlerType

\* Nobody begins to insert, and no offer is made.
LEMMA RoomStep ==
  ASSUME IInv, NEW h \in Handlers, NEW t, handler' = [handler EXCEPT ![h] = t],
         HandlerType, t.pc # "insert", UNCHANGED crowded,
         \A s \in Shares : Pending(s)' => shares'[s] = shares[s]
  PROVE  RoomForAll' /\ IsFiniteSet(AllPending)'
<1>1. ASSUME NEW u \in Users
      PROVE  /\ Sending(u)' \subseteq Sending(u) /\ Receiving(u)' \subseteq Receiving(u)
             /\ Outgoing(u)' \subseteq Outgoing(u) /\ Incoming(u)' \subseteq Incoming(u)
  <2>1. \A g \in Handlers : At(g, "insert")' => handler'[g] = handler[g]
    BY DEF At, HandlerType
  <2>2. Sending(u)' \subseteq Sending(u) /\ Receiving(u)' \subseteq Receiving(u)
    BY <2>1 DEF Sending, Receiving, At
  <2>3. Outgoing(u)' \subseteq Outgoing(u) /\ Incoming(u)' \subseteq Incoming(u)
    BY DEF Outgoing, Incoming, Pending
  <2> QED
    BY <2>2, <2>3
<1>2. AllPending' \subseteq AllPending
  BY DEF AllPending, Pending
<1>3. IsFiniteSet(AllPending')
  BY <1>2, FS_Subset DEF IInv
<1>4. RoomForAll'
  <2>1. ASSUME NEW u \in Users, <<"sender", u>> \notin crowded'
        PROVE  Room(Sending(u)', Outgoing(u)')
    <3>1. Room(Sending(u), Outgoing(u)) /\ IsFiniteSet(Outgoing(u))
      BY <2>1, PartsAreFinite DEF IInv, RoomForAll
    <3> QED
      BY <1>1, <3>1, RoomShrinks
  <2>2. ASSUME NEW u \in Users, <<"recipient", u>> \notin crowded'
        PROVE  Room(Receiving(u)', Incoming(u)')
    <3>1. Room(Receiving(u), Incoming(u)) /\ IsFiniteSet(Incoming(u))
      BY <2>2, PartsAreFinite DEF IInv, RoomForAll
    <3> QED
      BY <1>1, <3>1, RoomShrinks
  <2>3. \A u \in Users : /\ <<"sender", u>> \notin crowded' => Room(Sending(u), Outgoing(u))'
                         /\ <<"recipient", u>> \notin crowded' => Room(Receiving(u), Incoming(u))'
    BY <2>1, <2>2 DEF Room
  <2> QED
    BY <2>3 DEF RoomForAll
<1> QED
  BY <1>3, <1>4

\* The tables and the histories stay; the request goes on with a row that exists.
LEMMA QuietStep ==
  ASSUME IInv, NEW h \in Handlers, NEW t \in {Idle} \cup Tasks,
         handler' = [handler EXCEPT ![h] = t], requests' \in Nat,
         t.pc \notin {"insert", "drop accepted"},
         t.share \in Shares => shares[t.share] # NoShare,
         UNCHANGED <<shares, personal, history>>
  PROVE  IInv'
<1>1. SharesType /\ PersonalType /\ HandlerType /\ HistoryType /\ Unique
  BY TypeParts DEF IInv
<1>2. HandlerType' /\ handler'[h] = t /\ \A g \in Handlers \ {h} : handler'[g] = handler[g]
  BY <1>1, TaskStep
<1>3. SharesType' /\ PersonalType' /\ HistoryType' /\ Unique'
  BY <1>1 DEF SharesType, PersonalType, HistoryType, Unique, Pending, history
<1>4. RoomForAll' /\ IsFiniteSet(AllPending)'
  BY <1>1, RoomStep DEF history, Pending
<1>5. CopiedFirst'
  <2>1. CopiedFirst /\ UNCHANGED <<shares, copied>>
    BY DEF IInv, history
  <2>2. ASSUME NEW g \in Handlers
        PROVE  /\ handler'[g].share \in Shares => shares[handler'[g].share] # NoShare
               /\ handler'[g].pc = "drop accepted" =>
                    handler'[g].share \in copied \/ shares[handler'[g].share].status # "pending"
    <3>1. CASE g = h
      BY <1>2, <2>1, <3>1
    <3>2. CASE g # h
      <4>1. handler'[g] = handler[g]
        BY <1>2, <3>2
      <4> QED
        BY <2>1, <4>1 DEF CopiedFirst, At, Pending
    <3> QED
      BY <3>1, <3>2
  <2> QED
    BY <2>1, <2>2 DEF CopiedFirst, At, Pending
<1>6. TypeOK'
  BY <1>2, <1>3 DEF TypeOK, SharesType, PersonalType, HandlerType, HistoryType, Unique, Pending
<1> QED
  BY <1>4, <1>5, <1>6 DEF IInv

-----------------------------------------------------------------------------
(* One lemma per action.                                                   *)

LEMMA CreateStep ==
  ASSUME IInv, NEW h \in Handlers, NEW u \in Users, NEW v \in Users, NEW k \in Keywords,
         NEW url \in URLs, Create(h, u, v, k, url)
  PROVE  IInv'
<1> DEFINE t == [pc |-> "count", user |-> None, share |-> None, offer |-> NewShare(u, v, k, url)]
<1>1. NewShare(u, v, k, url) \in Offers
  BY DEF Create, NewShare, Offers
<1>2. t \in Tasks /\ t.share \notin Shares
  BY <1>1, NoneIsNoId DEF Tasks, Making
<1>3. handler' = [handler EXCEPT ![h] = t] /\ requests' \in Nat
  BY DEF Create, Start, Begin, IInv, TypeOK
<1> QED
  BY <1>2, <1>3, QuietStep DEF Create

LEMMA AnswerStep ==
  ASSUME IInv, NEW h \in Handlers, NEW u \in Users, NEW s \in Shares,
         Accept(h, u, s) \/ Decline(h, u, s) \/ Withdraw(h, u, s)
  PROVE  IInv'
<1>1. shares[s] \in Offers /\ shares[s] # NoShare
  BY PendingType, TypeParts, OffersArePending DEF IInv, Accept, Decline, Withdraw
<1>2. CASE Accept(h, u, s)
  <2> DEFINE t == [pc |-> "copy", user |-> u, share |-> s, offer |-> shares[s]]
  <2>1. t \in Tasks
    BY <1>1 DEF Tasks, Accepting
  <2>2. handler' = [handler EXCEPT ![h] = t] /\ requests' \in Nat
    BY <1>2 DEF Accept, Start, Begin, IInv, TypeOK
  <2> QED
    BY <1>1, <1>2, <2>1, <2>2, QuietStep DEF Accept
<1>3. CASE Decline(h, u, s) \/ Withdraw(h, u, s)
  <2> DEFINE t == [pc |-> "drop", user |-> None, share |-> s, offer |-> NoShare]
  <2>1. t \in Tasks
    BY DEF Tasks, Dropping
  <2>2. handler' = [handler EXCEPT ![h] = t] /\ requests' \in Nat
    BY <1>3 DEF Decline, Withdraw, Start, Begin, IInv, TypeOK
  <2> QED
    BY <1>1, <1>3, <2>1, <2>2, QuietStep DEF Decline, Withdraw
<1> QED
  BY <1>2, <1>3

\* A request ends and nothing else changes.
LEMMA FinishStep ==
  ASSUME IInv, NEW h \in Handlers, Finish(h), UNCHANGED <<shares, personal, history>>
  PROVE  IInv'
<1>1. Idle.pc = "idle" /\ Idle.share \notin Shares
  BY NoneIsNoId DEF Idle
<1>2. handler' = [handler EXCEPT ![h] = Idle] /\ requests' \in Nat
  BY DEF Finish, IInv, TypeOK
<1> QED
  BY <1>1, <1>2, QuietStep

LEMMA OwnLinksStep ==
  ASSUME IInv, NEW u \in Users, NEW k \in Keywords, NEW url \in URLs \cup {None},
         personal' = [personal EXCEPT ![u][k] = url],
         UNCHANGED <<shares, handler, requests, history>>
  PROVE  IInv'
<1>1. TypeOK'
  BY DEF IInv, TypeOK, Pending, history
<1>2. \A v : /\ Sending(v)' = Sending(v) /\ Receiving(v)' = Receiving(v)
            /\ Outgoing(v)' = Outgoing(v) /\ Incoming(v)' = Incoming(v)
  BY DEF Sending, Receiving, Outgoing, Incoming, At, Pending
<1>3. RoomForAll' /\ IsFiniteSet(AllPending)'
  BY <1>2 DEF IInv, RoomForAll, Room, AllPending, Pending, history
<1>4. CopiedFirst'
  BY DEF IInv, CopiedFirst, At, Pending, history
<1> QED
  BY <1>1, <1>3, <1>4 DEF IInv

\* After the count, a party without another offer under way has room for this one.
LEMMA CountSharesStep ==
  ASSUME IInv, NEW h \in Handlers, CountShares(h)
  PROVE  IInv'
<1> DEFINE o == handler[h].offer
           t == [handler[h] EXCEPT !.pc = "insert"]
<1>1. CASE ~WithinLimits(o)
  <2>1. Finish(h) /\ UNCHANGED <<shares, personal, history>>
    BY <1>1 DEF CountShares, history
  <2> QED
    BY <2>1, FinishStep
<1>2. CASE WithinLimits(o)
  <2>1. /\ SharesType /\ PersonalType /\ HandlerType /\ HistoryType /\ Unique
        /\ At(h, "count") /\ o \in Offers /\ o.sender \in Users /\ o.recipient \in Users
    BY TypeParts, TaskKinds, OffersArePending DEF IInv, CountShares
  <2>2. /\ handler' = [handler EXCEPT ![h] = t] /\ UNCHANGED <<shares, personal, requests, copied>>
        /\ crowded' = crowded \cup Crowd(o)
    BY <1>2 DEF CountShares, GoOn
  <2>3. t \in Tasks /\ t.pc = "insert" /\ t.offer = o /\ t.share \notin Shares
    <3>1. handler[h] \in {Idle} \cup Tasks /\ handler[h].pc = "count"
      BY <2>1 DEF HandlerType, At
    <3>2. handler[h] \in Making
      BY <3>1, TaskPcs DEF Tasks
    <3> QED
      BY <3>2, NoneIsNoId DEF Tasks, Making
  <2> HIDE DEF t
  <2>4. HandlerType' /\ handler'[h] = t /\ \A g \in Handlers \ {h} : handler'[g] = handler[g]
    BY <2>1, <2>2, <2>3, TaskStep
  <2>5. Crowd(o) \subseteq {"sender", "recipient"} \X Users
    BY <2>1 DEF Crowd
  <2>6. TypeOK'
    BY <2>1, <2>2, <2>4, <2>5 DEF TypeOK, SharesType, PersonalType, HandlerType, HistoryType,
       Unique, Pending
  <2>7. \A u : Outgoing(u)' = Outgoing(u) /\ Incoming(u)' = Incoming(u)
    BY <2>2 DEF Outgoing, Incoming, Pending
  <2>8. IsFiniteSet(AllPending)'
    BY <2>2 DEF IInv, AllPending, Pending
  <2>9. h \notin Sending(o.sender) /\ h \notin Receiving(o.recipient)
    BY <2>1 DEF Sending, Receiving, At
  <2>10. \A u : /\ Sending(u)' = IF u = o.sender THEN Sending(u) \cup {h} ELSE Sending(u)
                /\ Receiving(u)' = IF u = o.recipient THEN Receiving(u) \cup {h} ELSE Receiving(u)
    BY <2>1, <2>3, <2>4 DEF Sending, Receiving, At
  <2>11. ASSUME NEW u \in Users, <<"sender", u>> \notin crowded'
         PROVE  Room(Sending(u)', Outgoing(u))
    <3>1. CASE u = o.sender
      <4>1. Sending(u) = {}
        BY <2>2, <2>11, <3>1 DEF Crowd
      <4>2. Sending(u)' = {h} /\ Cardinality(Outgoing(u)) < Limit
        BY <1>2, <2>10, <3>1, <4>1 DEF WithinLimits
      <4> QED
        BY <4>2, RoomTaken
    <3>2. CASE u # o.sender
      BY <2>2, <2>10, <2>11, <3>2 DEF IInv, RoomForAll
    <3> QED
      BY <3>1, <3>2
  <2>12. ASSUME NEW u \in Users, <<"recipient", u>> \notin crowded'
         PROVE  Room(Receiving(u)', Incoming(u))
    <3>1. CASE u = o.recipient
      <4>1. Receiving(u) = {}
        BY <2>2, <2>12, <3>1 DEF Crowd
      <4>2. Receiving(u)' = {h} /\ Cardinality(Incoming(u)) < Limit
        BY <1>2, <2>10, <3>1, <4>1 DEF WithinLimits
      <4> QED
        BY <4>2, RoomTaken
    <3>2. CASE u # o.recipient
      BY <2>2, <2>10, <2>12, <3>2 DEF IInv, RoomForAll
    <3> QED
      BY <3>1, <3>2
  <2>13. RoomForAll'
    BY <2>7, <2>11, <2>12 DEF RoomForAll, Room
  <2>14. CopiedFirst'
    <3>1. CopiedFirst
      BY DEF IInv
    <3>2. ASSUME NEW g \in Handlers
          PROVE  /\ handler'[g].share \in Shares => shares[handler'[g].share] # NoShare
                 /\ handler'[g].pc = "drop accepted" =>
                      handler'[g].share \in copied \/ shares[handler'[g].share].status # "pending"
      <4>1. CASE g = h
        BY <2>3, <2>4, <4>1
      <4>2. CASE g # h
        <5>1. handler'[g] = handler[g]
          BY <2>4, <4>2
        <5> QED
          BY <3>1, <5>1 DEF CopiedFirst, At, Pending
      <4> QED
        BY <4>1, <4>2
    <3> QED
      BY <2>2, <3>2 DEF CopiedFirst, At, Pending
  <2> QED
    BY <2>6, <2>8, <2>13, <2>14 DEF IInv
<1> QED
  BY <1>1, <1>2
LEMMA CreateSharedLinkStep ==
  ASSUME IInv, NEW h \in Handlers, CreateSharedLink(h)
  PROVE  IInv'
<1> DEFINE o == handler[h].offer
<1>1. CASE Duplicate(o) /\ UNCHANGED shares
  <2>1. Finish(h) /\ UNCHANGED <<shares, personal, history>>
    BY <1>1 DEF CreateSharedLink, history
  <2> QED
    BY <2>1, FinishStep
<1>2. ASSUME ~Duplicate(o), NEW s \in Shares, shares[s] = NoShare,
             shares' = [shares EXCEPT ![s] = o]
      PROVE  IInv'
  <2>1. /\ SharesType /\ PersonalType /\ HandlerType /\ HistoryType /\ Unique
        /\ RoomForAll /\ CopiedFirst /\ IsFiniteSet(AllPending)
        /\ At(h, "insert") /\ o \in Offers /\ o.sender \in Users /\ o.recipient \in Users
        /\ o.status = "pending" /\ o # NoShare /\ ~Pending(s)
    <3>1. ~Pending(s)
      BY <1>2 DEF Pending, NoShare
    <3> QED
      BY <3>1, TypeParts, TaskKinds, OffersArePending DEF IInv, CreateSharedLink
  <2>2. /\ handler' = [handler EXCEPT ![h] = Idle]
        /\ UNCHANGED <<personal, requests, copied, crowded>>
    BY DEF CreateSharedLink, Finish, history
  <2>3. /\ HandlerType' /\ handler'[h] = Idle
        /\ \A g \in Handlers \ {h} : handler'[g] = handler[g]
    BY <2>1, <2>2, TaskStep
  <2> HIDE DEF o
  <2>4. shares'[s] = o /\ \A r \in Shares \ {s} : shares'[r] = shares[r]
    BY <1>2, <2>1 DEF SharesType
  <2>5. SharesType'
    BY <1>2, <2>1 DEF SharesType
  <2>6. Unique'
    <3>1. ASSUME NEW a \in Shares, NEW b \in Shares, Pending(a)',
                 shares'[b] = [shares'[a] EXCEPT !.url = shares'[b].url]
          PROVE  a = b
      <4>1. shares'[a] \in Offers
        BY <2>5, <3>1, PendingTypeNext
      <4>2. shares'[b].status = "pending"
        BY <3>1, <4>1 DEF Offers
      <4>3. shares'[b] \in Offers
        BY <2>5, <4>2, PendingTypeNext DEF Pending
      <4>4. CASE a # s /\ b # s
        BY <2>1, <2>4, <3>1, <4>4 DEF Unique, Pending
      <4>5. CASE a = s /\ b # s
        BY <1>2, <2>4, <3>1, <4>5 DEF Duplicate, o
      <4>6. CASE a # s /\ b = s
        <5>1. shares[a] = [o EXCEPT !.url = shares[a].url]
          BY <2>1, <2>4, <3>1, <4>1, <4>3, <4>6, CopyButForURL
        <5> QED
          BY <1>2, <5>1 DEF Duplicate, o
      <4> QED
        BY <4>4, <4>5, <4>6
    <3> QED
      BY <3>1 DEF Unique
  <2>7. TypeOK'
    BY <2>1, <2>2, <2>3, <2>5, <2>6 DEF TypeOK, SharesType, PersonalType, HandlerType,
       HistoryType, Unique, Pending
  <2>8. AllPending' \subseteq AllPending \cup {s} /\ IsFiniteSet(AllPending)'
    <3>1. AllPending' \subseteq AllPending \cup {s}
      BY <2>4 DEF AllPending, Pending
    <3>2. IsFiniteSet(AllPending \cup {s})
      BY <2>1, FS_AddElement
    <3> QED
      BY <3>1, <3>2, FS_Subset
  <2>9. \A u : /\ Outgoing(u)' = IF u = o.sender THEN Outgoing(u) \cup {s} ELSE Outgoing(u)
               /\ Incoming(u)' = IF u = o.recipient THEN Incoming(u) \cup {s} ELSE Incoming(u)
               /\ s \notin Outgoing(u) /\ s \notin Incoming(u)
    BY <2>1, <2>4 DEF Outgoing, Incoming, Pending
  <2>10. \A u : /\ Sending(u)' = IF u = o.sender THEN Sending(u) \ {h} ELSE Sending(u)
                /\ Receiving(u)' = IF u = o.recipient THEN Receiving(u) \ {h} ELSE Receiving(u)
    BY <2>1, <2>3, TaskPcs DEF Sending, Receiving, At, o
  <2>11. h \in Sending(o.sender) /\ h \in Receiving(o.recipient)
    BY <2>1 DEF Sending, Receiving, o
  <2>12. ASSUME NEW u \in Users, <<"sender", u>> \notin crowded
         PROVE  Room(Sending(u)', Outgoing(u)')
    <3>1. Room(Sending(u), Outgoing(u)) /\ IsFiniteSet(Outgoing(u))
      BY <2>1, <2>12, PartsAreFinite DEF RoomForAll
    <3>2. CASE u = o.sender
      BY <2>9, <2>10, <2>11, <3>1, <3>2, RoomUsed
    <3>3. CASE u # o.sender
      BY <2>9, <2>10, <3>1, <3>3
    <3> QED
      BY <3>2, <3>3
  <2>13. ASSUME NEW u \in Users, <<"recipient", u>> \notin crowded
         PROVE  Room(Receiving(u)', Incoming(u)')
    <3>1. Room(Receiving(u), Incoming(u)) /\ IsFiniteSet(Incoming(u))
      BY <2>1, <2>13, PartsAreFinite DEF RoomForAll
    <3>2. CASE u = o.recipient
      BY <2>9, <2>10, <2>11, <3>1, <3>2, RoomUsed
    <3>3. CASE u # o.recipient
      BY <2>9, <2>10, <3>1, <3>3
    <3> QED
      BY <3>2, <3>3
  <2>14. RoomForAll'
    BY <2>2, <2>12, <2>13 DEF RoomForAll, Room
  <2>15. CopiedFirst'
    <3>1. ASSUME NEW g \in Handlers
          PROVE  /\ handler'[g].share \in Shares => shares'[handler'[g].share] # NoShare
                 /\ handler'[g].pc = "drop accepted" =>
                      \/ handler'[g].share \in copied
                      \/ shares'[handler'[g].share].status # "pending"
      <4>1. CASE g = h
        <5>1. Idle.pc = "idle" /\ Idle.share \notin Shares
          BY NoneIsNoId DEF Idle
        <5> QED
          BY <2>3, <4>1, <5>1
      <4>2. CASE g # h
        <5>1. handler'[g] = handler[g]
          BY <2>3, <4>2
        <5>2. At(g, "drop accepted") => handler[g].share \in Shares
          BY <2>1, TaskKinds
        <5>3. handler[g].share \in Shares => handler[g].share # s
          BY <1>2, <2>1 DEF CopiedFirst
        <5> QED
          BY <2>1, <2>4, <5>1, <5>2, <5>3 DEF CopiedFirst, At, Pending
      <4> QED
        BY <4>1, <4>2
    <3> QED
      BY <2>2, <3>1 DEF CopiedFirst, At, Pending
  <2> QED
    BY <2>7, <2>8, <2>14, <2>15 DEF IInv
<1> QED
  BY <1>1, <1>2 DEF CreateSharedLink
LEMMA CopyLinkStep ==
  ASSUME IInv, NEW h \in Handlers, CopyLink(h)
  PROVE  IInv'
<1>0. /\ SharesType /\ PersonalType /\ HandlerType /\ HistoryType /\ Unique
      /\ At(h, "copy") /\ handler[h].offer \in Offers /\ handler[h].user \in Users
      /\ handler[h].share \in Shares
  BY TypeParts, TaskKinds DEF IInv, CopyLink
<1> PICK s \in Shares : s = handler[h].share
  BY <1>0
<1> PICK u \in Users : u = handler[h].user
  BY <1>0
<1> PICK o \in Offers : o = handler[h].offer
  BY <1>0
<1> DEFINE t == [pc |-> "drop accepted", user |-> None, share |-> s, offer |-> NoShare]
<1>1. /\ SharesType /\ PersonalType /\ HandlerType /\ HistoryType /\ Unique
      /\ o.keyword \in Keywords /\ o.url \in URLs
  BY <1>0, OffersArePending
<1>2. CASE personal[u][o.keyword] # None
  <2>1. Finish(h) /\ UNCHANGED <<shares, personal, history>>
    BY <1>2 DEF CopyLink, InsertUserLink, history
  <2> QED
    BY <2>1, FinishStep
<1>3. CASE personal[u][o.keyword] = None
  <2>1. /\ personal' = [personal EXCEPT ![u][o.keyword] = o.url]
        /\ copied' = copied \cup {s}
        /\ handler' = [handler EXCEPT ![h] = t]
        /\ UNCHANGED <<shares, crowded, requests>>
    BY <1>3 DEF CopyLink, InsertUserLink, Drop, Begin
  <2>2. t \in Tasks /\ t.pc = "drop accepted" /\ t.share = s
    BY DEF Tasks, Dropping
  <2> HIDE DEF t
  <2>3. HandlerType' /\ handler'[h] = t /\ \A g \in Handlers \ {h} : handler'[g] = handler[g]
    BY <1>1, <2>1, <2>2, TaskStep
  <2>4. PersonalType'
    BY <1>1, <2>1 DEF PersonalType
  <2>5. TypeOK'
    BY <1>1, <2>1, <2>3, <2>4 DEF TypeOK, SharesType, PersonalType, HandlerType, HistoryType,
       Unique, Pending
  <2>6. RoomForAll' /\ IsFiniteSet(AllPending)'
    BY <1>1, <2>1, <2>2, RoomStep DEF Pending
  <2>7. CopiedFirst'
    <3>1. CopiedFirst /\ shares[s] # NoShare
      BY DEF IInv, CopiedFirst
    <3>2. s \in copied' /\ copied \subseteq copied'
      BY <2>1
    <3>3. ASSUME NEW g \in Handlers
          PROVE  /\ handler'[g].share \in Shares => shares[handler'[g].share] # NoShare
                 /\ handler'[g].pc = "drop accepted" =>
                      \/ handler'[g].share \in copied'
                      \/ shares[handler'[g].share].status # "pending"
      <4>1. CASE g = h
        <5>1. handler'[g].share = s
          BY <2>2, <2>3, <4>1
        <5> QED
          BY <3>1, <3>2, <5>1
      <4>2. CASE g # h
        <5>1. handler'[g] = handler[g]
          BY <2>3, <4>2
        <5>2. /\ handler[g].share \in Shares => shares[handler[g].share] # NoShare
              /\ handler[g].pc = "drop accepted" =>
                   handler[g].share \in copied \/ shares[handler[g].share].status # "pending"
          BY <3>1 DEF CopiedFirst, At, Pending
        <5> QED
          BY <3>2, <5>1, <5>2
      <4> QED
        BY <4>1, <4>2
    <3> QED
      BY <2>1, <3>3 DEF CopiedFirst, At, Pending
  <2> QED
    BY <2>5, <2>6, <2>7 DEF IInv
<1> QED
  BY <1>2, <1>3

LEMMA DeleteSharedLinkStep ==
  ASSUME IInv, NEW h \in Handlers, DeleteSharedLink(h)
  PROVE  IInv'
<1>1. /\ SharesType /\ PersonalType /\ HandlerType /\ HistoryType /\ Unique /\ CopiedFirst
      /\ At(h, "drop") \/ At(h, "drop accepted")
      /\ handler[h].share \in Shares
  BY TypeParts, TaskKinds DEF IInv, DeleteSharedLink
<1> PICK s \in Shares : s = handler[h].share
  BY <1>1
<1>2. /\ handler' = [handler EXCEPT ![h] = Idle]
      /\ copied' = copied \ {s}
      /\ UNCHANGED <<personal, requests, crowded>>
      /\ \/ shares' = [shares EXCEPT ![s] = Deleted]
         \/ ~Pending(s) /\ shares' = shares
  BY DEF DeleteSharedLink, Finish
<1>3. /\ HandlerType' /\ handler'[h] = Idle
      /\ \A g \in Handlers \ {h} : handler'[g] = handler[g]
  BY <1>1, <1>2, TaskStep
<1>4. shares[s] # NoShare
  BY <1>1 DEF CopiedFirst
<1>5. Deleted.status = "deleted" /\ NoShare.status = "none"
  BY DEF Deleted, NoShare
<1>6. /\ SharesType' /\ ~Pending(s)' /\ shares'[s] # NoShare
      /\ \A r \in Shares \ {s} : shares'[r] = shares[r]
  BY <1>1, <1>2, <1>4, <1>5 DEF SharesType, Pending
<1>7. Unique'
  <2>1. ASSUME NEW a \in Shares, NEW b \in Shares, Pending(a)',
               shares'[b] = [shares'[a] EXCEPT !.url = shares'[b].url]
        PROVE  a = b
    <3>1. shares'[a] \in Offers
      BY <1>6, <2>1, PendingTypeNext
    <3>2. shares'[b].status = "pending"
      BY <2>1, <3>1 DEF Offers
    <3>3. a # s /\ b # s
      BY <1>6, <2>1, <3>2 DEF Pending
    <3>4. shares'[a] = shares[a] /\ shares'[b] = shares[b]
      BY <1>6, <3>3
    <3>5. Pending(a) /\ shares[b] = [shares[a] EXCEPT !.url = shares[b].url]
      BY <2>1, <3>4 DEF Pending
    <3> QED
      BY <1>1, <3>5 DEF Unique
  <2> QED
    BY <2>1 DEF Unique
<1>8. TypeOK'
  BY <1>1, <1>2, <1>3, <1>6, <1>7 DEF TypeOK, SharesType, PersonalType, HandlerType,
     HistoryType, Unique, Pending
<1>9. RoomForAll' /\ IsFiniteSet(AllPending)'
  BY <1>1, <1>2, <1>6, TaskPcs, RoomStep
<1>10. CopiedFirst'
  <2>1. ASSUME NEW g \in Handlers
        PROVE  /\ handler'[g].share \in Shares => shares'[handler'[g].share] # NoShare
               /\ handler'[g].pc = "drop accepted" =>
                    \/ handler'[g].share \in copied'
                    \/ shares'[handler'[g].share].status # "pending"
    <3>1. CASE g = h
      <4>1. Idle.pc = "idle" /\ Idle.share \notin Shares
        BY NoneIsNoId DEF Idle
      <4> QED
        BY <1>3, <3>1, <4>1
    <3>2. CASE g # h
      <4>1. handler'[g] = handler[g]
        BY <1>3, <3>2
      <4>2. At(g, "drop accepted") => handler[g].share \in Shares
        BY <1>1, TaskKinds
      <4>3. CASE handler[g].share = s
        BY <1>6, <4>1, <4>3 DEF Pending
      <4>4. CASE handler[g].share # s
        <5>1. /\ handler[g].share \in Shares => shares[handler[g].share] # NoShare
              /\ handler[g].pc = "drop accepted" =>
                   handler[g].share \in copied \/ shares[handler[g].share].status # "pending"
          BY <1>1 DEF CopiedFirst, At, Pending
        <5>2. /\ handler[g].share \in Shares => shares'[handler[g].share] = shares[handler[g].share]
              /\ handler[g].share \in copied => handler[g].share \in copied'
          BY <1>2, <1>6, <4>4
        <5>3. handler[g].pc = "drop accepted" => handler[g].share \in Shares
          BY <4>2 DEF At
        <5> QED
          BY <4>1, <5>1, <5>2, <5>3
      <4> QED
        BY <4>3, <4>4
    <3> QED
      BY <3>1, <3>2
  <2> QED
    BY <2>1 DEF CopiedFirst, At, Pending
<1> QED
  BY <1>8, <1>9, <1>10 DEF IInv

-----------------------------------------------------------------------------
(* The invariant and the theorems.                                         *)

LEMMA InitInv == Init => IInv
<1> SUFFICES ASSUME Init PROVE IInv
  OBVIOUS
<1>1. NoShare.status = "none" /\ Idle.pc = "idle" /\ Idle.share \notin Shares
  BY NoneIsNoId DEF NoShare, Idle
<1>2. \A s \in Shares : ~Pending(s)
  BY <1>1 DEF Init, Pending
<1>3. TypeOK
  BY <1>2 DEF TypeOK, Init
<1>4. AllPending = {} /\ \A u : Outgoing(u) = {} /\ Incoming(u) = {}
  BY <1>2 DEF AllPending, Outgoing, Incoming
<1>5. \A u : Sending(u) = {} /\ Receiving(u) = {}
  BY <1>1 DEF Init, Sending, Receiving, At
<1>6. Cardinality({}) = 0 /\ IsFiniteSet({})
  BY FS_EmptySet
<1>7. Room({}, {})
  BY <1>6, LimitIsNat DEF Room
<1>8. RoomForAll
  BY <1>4, <1>5, <1>7 DEF RoomForAll
<1>9. CopiedFirst
  BY <1>1 DEF Init, CopiedFirst, At
<1> QED
  BY <1>3, <1>4, <1>6, <1>8, <1>9 DEF IInv

LEMMA NextInv == IInv /\ [Next]_vars => IInv'
<1> SUFFICES ASSUME IInv, [Next]_vars PROVE IInv'
  OBVIOUS
<1>1. ASSUME NEW h \in Handlers, Sharing(h)
      PROVE  IInv'
  <2>1. CASE \E u, v \in Users, k \in Keywords, url \in URLs : Create(h, u, v, k, url)
    BY <2>1, CreateStep
  <2>2. CASE CountShares(h)
    BY <2>2, CountSharesStep
  <2>3. CASE CreateSharedLink(h)
    BY <2>3, CreateSharedLinkStep
  <2>4. CASE \E u \in Users, s \in Shares :
               Accept(h, u, s) \/ Decline(h, u, s) \/ Withdraw(h, u, s)
    BY <2>4, AnswerStep
  <2>5. CASE CopyLink(h)
    BY <2>5, CopyLinkStep
  <2>6. CASE DeleteSharedLink(h)
    BY <2>6, DeleteSharedLinkStep
  <2>7. CASE Fail(h)
    BY <2>7, FinishStep DEF Fail
  <2> QED
    BY <1>1, <2>1, <2>2, <2>3, <2>4, <2>5, <2>6, <2>7 DEF Sharing
<1>2. CASE OwnLinks
  <2>1. PICK u \in Users, k \in Keywords :
          \/ \E url \in URLs : CreateUserLink(u, k, url) \/ UpdateUserLink(u, k, url)
          \/ DeleteUserLink(u, k)
    BY <1>2 DEF OwnLinks
  <2>2. ASSUME NEW url \in URLs, CreateUserLink(u, k, url) \/ UpdateUserLink(u, k, url)
        PROVE  IInv'
    BY <2>2, OwnLinksStep DEF CreateUserLink, InsertUserLink, UpdateUserLink
  <2>3. CASE DeleteUserLink(u, k)
    BY <2>3, OwnLinksStep DEF DeleteUserLink
  <2> QED
    BY <2>1, <2>2, <2>3
<1>3. CASE UNCHANGED vars
  <2>1. UNCHANGED <<shares, personal, handler, requests, copied, crowded>>
    BY <1>3 DEF vars, history
  <2>2. TypeOK'
    BY <2>1 DEF IInv, TypeOK, Pending
  <2>3. \A v : /\ Sending(v)' = Sending(v) /\ Receiving(v)' = Receiving(v)
              /\ Outgoing(v)' = Outgoing(v) /\ Incoming(v)' = Incoming(v)
    BY <2>1 DEF Sending, Receiving, Outgoing, Incoming, At, Pending
  <2>4. RoomForAll' /\ IsFiniteSet(AllPending)'
    BY <2>1, <2>3 DEF IInv, RoomForAll, Room, AllPending, Pending
  <2>5. CopiedFirst'
    BY <2>1 DEF IInv, CopiedFirst, At, Pending
  <2> QED
    BY <2>2, <2>4, <2>5 DEF IInv
<1> QED
  BY <1>1, <1>2, <1>3 DEF Next

LEMMA Invariance == Spec => []IInv
<1> QED
  BY InitInv, NextInv, PTL DEF Spec

\* Every variable has its type, and the index on pending offers holds, whatever the
\* handlers of shared_links.go and user_links.go do.
THEOREM TypeCorrect == Spec => []TypeOK
<1>1. IInv => TypeOK
  BY DEF IInv
<1> QED
  BY Invariance, <1>1, PTL

\* The anti-spam limits hold for everybody who never had two offers of his between
\* the count and the insertion of Create.
THEOREM LimitsHold == Spec => []LimitsHoldUnlessCrowded
<1>1. ASSUME IInv PROVE LimitsHoldUnlessCrowded
  <2>1. ASSUME NEW I, NEW P, IsFiniteSet(P), Room(I, P) PROVE Cardinality(P) <= Limit
    BY <2>1, LimitIsNat, FS_CardinalityType DEF Room
  <2>2. ASSUME NEW u \in Users
        PROVE  /\ <<"sender", u>> \notin crowded => Cardinality(Outgoing(u)) <= Limit
               /\ <<"recipient", u>> \notin crowded => Cardinality(Incoming(u)) <= Limit
    BY <1>1, <2>1, PartsAreFinite DEF IInv, RoomForAll
  <2> QED
    BY <2>2 DEF LimitsHoldUnlessCrowded
<1> QED
  BY <1>1, Invariance, PTL

\* An offer that an acceptance deletes was copied into the links of the recipient,
\* whoever else answers, fails or presses again.
THEOREM AcceptedLinksAreCopied == Spec => AcceptedIsCopied
<1> DEFINE Step == \A h \in Handlers :
                     At(h, "drop accepted") /\ handler'[h] # handler[h] /\ shares' # shares
                       => handler[h].share \in copied
<1>1. ASSUME IInv, [Next]_vars PROVE Step
  <2> SUFFICES ASSUME NEW h \in Handlers, At(h, "drop accepted"),
                      handler'[h] # handler[h], shares' # shares
               PROVE  handler[h].share \in copied
    OBVIOUS
  <2>1. PICK g \in Handlers : CreateSharedLink(g) \/ DeleteSharedLink(g)
    BY <1>1 DEF Next, vars, history, Sharing, OwnLinks, Create, CountShares, Accept, Decline,
       Withdraw, CopyLink, Fail, CreateUserLink, UpdateUserLink, DeleteUserLink
  <2>2. handler \in [Handlers -> {Idle} \cup Tasks]
    BY <1>1 DEF IInv, TypeOK
  <2>3. g = h
    BY <2>1, <2>2 DEF CreateSharedLink, DeleteSharedLink, Finish
  <2>4. DeleteSharedLink(h) /\ Pending(handler[h].share)
    BY <2>1, <2>3 DEF CreateSharedLink, DeleteSharedLink, At
  <2> QED
    BY <1>1, <2>4 DEF IInv, CopiedFirst
<1>2. IInv /\ [Next]_vars => [Step]_vars
  BY <1>1
<1> QED
  BY <1>2, Invariance, PTL DEF Spec, AcceptedIsCopied
===============================================================================
