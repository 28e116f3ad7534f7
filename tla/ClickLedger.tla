----------------------------- MODULE ClickLedger -----------------------------
(***************************************************************************)
(* What the counter subsystem of golinks promises, without saying how.     *)
(*                                                                         *)
(* A counter is a row of links, user_links or keyword_lookups.  A redirect *)
(* makes one increment outstanding; an outstanding increment is moved to   *)
(* the stored count at most once, any number of increments of any counters *)
(* moving in one indivisible step; it may also be lost.  A counter that    *)
(* was deleted keeps no promise.                                           *)
(***************************************************************************)
EXTENDS Naturals

CONSTANT Counters   \* the identities of the rows that carry a count

VARIABLES
  live,         \* the counters whose row has not been deleted
  counted,      \* how many increments the redirects have asked for
  outstanding,  \* how many of them are accepted and not stored yet
  stored        \* the count a reader of the database sees

ledgerVars == <<live, counted, outstanding, stored>>

Init ==
  /\ live = Counters
  /\ counted = [c \in Counters |-> 0]
  /\ outstanding = [c \in Counters |-> 0]
  /\ stored = [c \in Counters |-> 0]

\* One redirect: each counter is asked for at most one more increment.
Count ==
  /\ \A c \in Counters :
       \/ counted'[c] = counted[c] /\ outstanding'[c] = outstanding[c]
       \/ counted'[c] = counted[c] + 1 /\ outstanding'[c] = outstanding[c] + 1
  /\ UNCHANGED <<live, stored>>

\* A batch of increments becomes visible, all of it at once.
Publish ==
  /\ \A c \in live : /\ stored'[c] >= stored[c]
                     /\ stored'[c] + outstanding'[c] = stored[c] + outstanding[c]
  /\ UNCHANGED <<live, counted>>

\* Increments that were accepted are dropped; the stored counts do not move.
Lose ==
  /\ \A c \in Counters : outstanding'[c] <= outstanding[c]
  /\ UNCHANGED <<live, counted, stored>>

\* A row is deleted by its owner or by a moderator.
Delete ==
  /\ live' \subseteq live
  /\ \A c \in live' : stored'[c] = stored[c] /\ outstanding'[c] = outstanding[c]
  /\ UNCHANGED counted

Next == Count \/ Publish \/ Lose \/ Delete

Spec == Init /\ [][Next]_ledgerVars
=============================================================================
