------------------------------ MODULE SharedLinks ------------------------------
(***************************************************************************)
(* Personal links and the offers by which users share them                 *)
(* (internal/handlers/shared_links.go and user_links.go,                   *)
(* internal/db/shared_links.go and user_links.go).                         *)
(*                                                                         *)
(* Each statement is a transaction of its own.  An offer is made after the *)
(* recipient's links and the limits were looked at; an offer is accepted   *)
(* by copying the link and then deleting the offer.  Two unique indexes    *)
(* hold: one link per user and keyword, one offer per sender, recipient    *)
(* and keyword.  Descriptions, listings and the health of personal links   *)
(* are left out.  A form that names several recipients or keywords is the  *)
(* same request several times, one after the other, as in the code.        *)
(***************************************************************************)
EXTENDS Integers, FiniteSets

CONSTANTS
  Users,
  Keywords,
  URLs,
  Shares,     \* ids of shared_links
  Handlers,   \* requests served at the same time
  None,       \* no row, nobody, nothing
  Limit,      \* pending offers per sender and per recipient (5)
  MaxRequests \* bound on the requests about offers in a behaviour

ASSUME SharedLinksAssumption ==
  /\ None \notin Users \cup Keywords \cup URLs \cup Shares
  /\ Limit \in Nat \ {0}
  /\ MaxRequests \in Nat

VARIABLES
  shares,    \* table shared_links
  personal,  \* table user_links: the URL per user and keyword
  handler,   \* what is left to do for each request being served
  requests,  \* number of requests about offers begun (bounds the model)
  copied,    \* history: the offers that were copied and are not deleted yet
  crowded    \* history: senders and recipients with two offers between count and insert

history == <<copied, crowded>>
vars == <<shares, personal, handler, requests, history>>

NoShare == [status |-> "none", sender |-> None, recipient |-> None, keyword |-> None,
            url |-> None]

Deleted == [NoShare EXCEPT !.status = "deleted"]

NewShare(u, v, k, url) ==
  [status |-> "pending", sender |-> u, recipient |-> v, keyword |-> k, url |-> url]

Idle == [pc |-> "idle", user |-> None, share |-> None, offer |-> NoShare]

Pending(s)  == shares[s].status = "pending"
Outgoing(u) == {s \in Shares : Pending(s) /\ shares[s].sender = u}
Incoming(u) == {s \in Shares : Pending(s) /\ shares[s].recipient = u}

Init ==
  /\ shares = [s \in Shares |-> NoShare]
  /\ personal = [u \in Users |-> [k \in Keywords |-> None]]
  /\ handler = [h \in Handlers |-> Idle]
  /\ requests = 0
  /\ copied = {}
  /\ crowded = {}

-----------------------------------------------------------------------------
(* Requests.                                                               *)

At(h, pc)   == handler[h].pc = pc
GoOn(h, pc) == handler' = [handler EXCEPT ![h].pc = pc] /\ UNCHANGED requests
Finish(h)   == handler' = [handler EXCEPT ![h] = Idle] /\ UNCHANGED requests

Begin(h, pc, u, s, offer) ==
  handler' = [handler EXCEPT ![h] = [pc |-> pc, user |-> u, share |-> s, offer |-> offer]]

Start(h, pc, u, s, offer) ==
  /\ handler[h] = Idle
  /\ requests < MaxRequests
  /\ requests' = requests + 1
  /\ Begin(h, pc, u, s, offer)

Drop(h, s) == Begin(h, "drop accepted", None, s, NoShare) /\ UNCHANGED requests

-----------------------------------------------------------------------------
(* Making an offer.                                                        *)

\* The handler refuses to share with oneself and looks for the recipient's link.
Create(h, u, v, k, url) ==
  /\ u # v
  /\ personal[v][k] = None
  /\ Start(h, "count", None, None, NewShare(u, v, k, url))
  /\ UNCHANGED <<shares, personal, history>>

\* Mutant of WithinLimits: the recipient is not asked.
WithinSenderLimit(offer) == Cardinality(Outgoing(offer.sender)) < Limit

\* Both counts, in one query.
WithinLimits(offer) ==
  /\ Cardinality(Outgoing(offer.sender)) < Limit
  /\ Cardinality(Incoming(offer.recipient)) < Limit

\* Requests of a sender, or for a recipient, that have counted and not inserted.
Sending(u)   == {h \in Handlers : At(h, "insert") /\ handler[h].offer.sender = u}
Receiving(u) == {h \in Handlers : At(h, "insert") /\ handler[h].offer.recipient = u}

\* The parties of an offer for whom another offer is being inserted.
Crowd(offer) ==
  {p \in {<<"sender", offer.sender>>} : Sending(offer.sender) # {}}
  \cup {p \in {<<"recipient", offer.recipient>>} : Receiving(offer.recipient) # {}}

CountShares(h) ==
  /\ At(h, "count")
  /\ IF WithinLimits(handler[h].offer)
     THEN GoOn(h, "insert") /\ crowded' = crowded \cup Crowd(handler[h].offer)
     ELSE Finish(h) /\ UNCHANGED crowded
  /\ UNCHANGED <<shares, personal, copied>>

\* Mutant of Duplicate: the index is missing.
NeverDuplicate(offer) == FALSE

\* The index unique_pending_share.
Duplicate(offer) == \E s \in Shares : shares[s] = [offer EXCEPT !.url = shares[s].url]

CreateSharedLink(h) ==
  /\ At(h, "insert")
  /\ \/ Duplicate(handler[h].offer) /\ UNCHANGED shares
     \/ /\ ~Duplicate(handler[h].offer)
        /\ \E s \in Shares : /\ shares[s] = NoShare
                             /\ shares' = [shares EXCEPT ![s] = handler[h].offer]
  /\ Finish(h)
  /\ UNCHANGED <<personal, history>>

-----------------------------------------------------------------------------
(* Answering an offer.                                                     *)

Accept(h, u, s) ==
  /\ Pending(s) /\ shares[s].recipient = u
  /\ Start(h, "copy", u, s, shares[s])
  /\ UNCHANGED <<shares, personal, history>>

\* The INSERT into user_links, which its unique index may refuse.
InsertUserLink(u, k, url) ==
  /\ personal[u][k] = None
  /\ personal' = [personal EXCEPT ![u][k] = url]

\* Mutant of CopyLink: a duplicate is ignored.
CopyLinkAnyway(h) ==
  LET u == handler[h].user
      offer == handler[h].offer
  IN /\ At(h, "copy")
     /\ \/ /\ InsertUserLink(u, offer.keyword, offer.url)
           /\ copied' = copied \cup {handler[h].share}
        \/ personal[u][offer.keyword] # None /\ UNCHANGED <<personal, copied>>
     /\ Drop(h, handler[h].share)
     /\ UNCHANGED <<shares, crowded>>

\* The recipient gets the link as it was read; a duplicate keyword ends the request
\* and leaves the offer.
CopyLink(h) ==
  LET u == handler[h].user
      offer == handler[h].offer
  IN /\ At(h, "copy")
     /\ \/ /\ InsertUserLink(u, offer.keyword, offer.url)
           /\ copied' = copied \cup {handler[h].share}
           /\ Drop(h, handler[h].share)
        \/ /\ personal[u][offer.keyword] # None
           /\ Finish(h)
           /\ UNCHANGED <<personal, copied>>
     /\ UNCHANGED <<shares, crowded>>

Decline(h, u, s) ==
  /\ Pending(s) /\ shares[s].recipient = u
  /\ Start(h, "drop", None, s, NoShare)
  /\ UNCHANGED <<shares, personal, history>>

Withdraw(h, u, s) ==
  /\ Pending(s) /\ shares[s].sender = u
  /\ Start(h, "drop", None, s, NoShare)
  /\ UNCHANGED <<shares, personal, history>>

\* A DELETE by id; a row that is gone is an error, which changes nothing.
DeleteSharedLink(h) ==
  LET s == handler[h].share
  IN /\ At(h, "drop") \/ At(h, "drop accepted")
     /\ \/ /\ Pending(s)
           /\ shares' = [shares EXCEPT ![s] = Deleted]
        \/ ~Pending(s) /\ UNCHANGED shares
     /\ copied' = copied \ {s}
     /\ Finish(h)
     /\ UNCHANGED <<personal, crowded>>

-----------------------------------------------------------------------------
(* Personal links; each request is one statement that changes anything.    *)

CreateUserLink(u, k, url) ==
  /\ InsertUserLink(u, k, url)
  /\ UNCHANGED <<shares, handler, requests, history>>

UpdateUserLink(u, k, url) ==
  /\ personal[u][k] # None
  /\ personal' = [personal EXCEPT ![u][k] = url]
  /\ UNCHANGED <<shares, handler, requests, history>>

DeleteUserLink(u, k) ==
  /\ personal[u][k] # None
  /\ personal' = [personal EXCEPT ![u][k] = None]
  /\ UNCHANGED <<shares, handler, requests, history>>

\* The process stops, or a statement fails, between two steps of a request.
Fail(h) ==
  /\ handler[h] # Idle
  /\ Finish(h)
  /\ UNCHANGED <<shares, personal, history>>

-----------------------------------------------------------------------------

Sharing(h) ==
  \/ \E u, v \in Users, k \in Keywords, url \in URLs : Create(h, u, v, k, url)
  \/ CountShares(h) \/ CreateSharedLink(h)
  \/ \E u \in Users, s \in Shares : Accept(h, u, s) \/ Decline(h, u, s) \/ Withdraw(h, u, s)
  \/ CopyLink(h) \/ DeleteSharedLink(h) \/ Fail(h)

OwnLinks ==
  \E u \in Users, k \in Keywords :
    \/ \E url \in URLs : CreateUserLink(u, k, url) \/ UpdateUserLink(u, k, url)
    \/ DeleteUserLink(u, k)

Next == (\E h \in Handlers : Sharing(h)) \/ OwnLinks

Spec == Init /\ [][Next]_vars

-----------------------------------------------------------------------------
(* Properties.                                                             *)

Offers ==
  {o \in [status : {"pending"}, sender : Users, recipient : Users, keyword : Keywords,
          url : URLs] : o.sender # o.recipient}

Making    == [pc : {"count", "insert"}, user : {None}, share : {None}, offer : Offers]
Accepting == [pc : {"copy"}, user : Users, share : Shares, offer : Offers]
Dropping  == [pc : {"drop accepted", "drop"}, user : {None}, share : Shares, offer : {NoShare}]
Tasks     == Making \cup Accepting \cup Dropping

\* Every variable has its type, and no two pending offers have the same sender,
\* recipient and keyword.
TypeOK ==
  /\ shares \in [Shares -> {NoShare, Deleted} \cup Offers]
  /\ personal \in [Users -> [Keywords -> URLs \cup {None}]]
  /\ handler \in [Handlers -> {Idle} \cup Tasks]
  /\ requests \in Nat
  /\ copied \subseteq Shares
  /\ crowded \subseteq {"sender", "recipient"} \X Users
  /\ \A s, t \in Shares :
       Pending(s) /\ shares[t] = [shares[s] EXCEPT !.url = shares[t].url] => s = t

\* docs/usage.md, "Anti-Spam Limits": the limit of a sender and of a recipient holds,
\* whatever is declined and withdrawn meanwhile, unless two of his offers were once
\* made at the same time.
LimitsHoldUnlessCrowded ==
  \A u \in Users :
    /\ <<"sender", u>> \notin crowded => Cardinality(Outgoing(u)) <= Limit
    /\ <<"recipient", u>> \notin crowded => Cardinality(Incoming(u)) <= Limit

\* docs/usage.md: "Accept - copies the link into their personal links": no offer
\* is used up by an acceptance that copied nothing, however often it is pressed.
AcceptedIsCopied ==
  [][\A h \in Handlers : At(h, "drop accepted") /\ handler'[h] # handler[h] /\ shares' # shares
       => handler[h].share \in copied]_vars
===============================================================================
