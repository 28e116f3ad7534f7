---------------------------- MODULE MCModeration ----------------------------
(***************************************************************************)
(* Instances of Moderation for TLC.                                        *)
(***************************************************************************)
EXTENDS Listings, TLC

CONSTANTS mod, omod, author, org1, org2

\* A global moderator and a user without an organization.
GlobalRole  == (mod :> "global_mod") @@ (author :> "user")
GlobalOrg   == [u \in {mod, author} |-> Nobody]

\* Two organizations, a moderator of one and a member of the other, and an admin.
OrgRole == (mod :> "admin") @@ (omod :> "org_mod") @@ (author :> "user")
OrgOrg  == (mod :> Nobody) @@ (omod :> org1) @@ (author :> org2)

Symmetric == Permutations(Links) \cup Permutations(Edits) \cup Permutations(Handlers)
             \cup Permutations(Keywords)
=============================================================================
