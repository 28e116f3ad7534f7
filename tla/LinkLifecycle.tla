---------------------------- MODULE LinkLifecycle ----------------------------
(***************************************************************************)
(* What the moderation of shared links promises, without handlers, users   *)
(* or notices: the life of each link.                                      *)
(*                                                                         *)
(*      none ---> pending ---> rejected                                    *)
(*        \          |                                                     *)
(*         \         v                                                     *)
(*          `---> approved <---> deletion_requested      any ---> deleted  *)
(*                                                                         *)
(* A decision is final: a rejected link never becomes active and a         *)
(* decided link is never pending again.  A place - a keyword in a scope -  *)
(* is taken by one link from its creation to its deletion.                 *)
(***************************************************************************)
CONSTANTS Links, Places, NoPlace

VARIABLES
  status,   \* where in its life each link is
  place     \* the keyword and scope it was created for, NoPlace before

lifecycleVars == <<status, place>>

Exists(l) == status[l] \notin {"none", "deleted"}

Init ==
  /\ status = [l \in Links |-> "none"]
  /\ place = [l \in Links |-> NoPlace]

Add(l, p, s) ==
  /\ status[l] = "none"
  /\ \A m \in Links : Exists(m) => place[m] # p
  /\ status' = [status EXCEPT ![l] = s]
  /\ place' = [place EXCEPT ![l] = p]

\* A moderator creates an active link; others ask for one.
Create(l, p) == Add(l, p, "approved")
Submit(l, p) == Add(l, p, "pending")

Move(l, from, to) ==
  /\ status[l] = from
  /\ status' = [status EXCEPT ![l] = to]
  /\ UNCHANGED place

Decide(l)          == Move(l, "pending", "approved") \/ Move(l, "pending", "rejected")
RequestDeletion(l) == Move(l, "approved", "deletion_requested")
Restore(l)         == Move(l, "deletion_requested", "approved")

Delete(l) ==
  /\ Exists(l)
  /\ status' = [status EXCEPT ![l] = "deleted"]
  /\ UNCHANGED place

Next ==
  \E l \in Links :
    \/ \E p \in Places : Create(l, p) \/ Submit(l, p)
    \/ Decide(l) \/ RequestDeletion(l) \/ Restore(l) \/ Delete(l)

Spec == Init /\ [][Next]_lifecycleVars
=============================================================================
