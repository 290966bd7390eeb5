-------------------------- MODULE MCInviteIdentity --------------------------
(***************************************************************************)
(* The learners' side and the staff's side of signing in.  They share no    *)
(* row that either reads, so that each behaviour here is one of one side.   *)
(***************************************************************************)
EXTENDS InviteIdentity, StaffAccess, TLC

CONSTANTS i1, i2, a1, a2, l1, l2, l3, reviewer, editor

MCHomeRole == (reviewer :> "REVIEWER") @@ (editor :> "CONTENT_EDITOR")

\* The staff's side ends when the sign-ins of the model are used up.
UsedUp == \A l \in Logins : logins[l].stage = "DONE"

\* Bound: the access of one member is changed, and then one link is made.
FewGrants ==
  LET changed == {m \in Members : access[m] # "none"}
      made == {k \in Links : links[k].status # "NONE"}
  IN Cardinality(changed) <= 1 /\ (changed # {} => Cardinality(made) <= 1)

MCInit == Init /\ AccessInit
MCNext ==
  \/ AccessInit /\ Next /\ UNCHANGED accessVars
  \/ Init /\ AccessNext /\ FewGrants' /\ UNCHANGED vars
  \/ UsedUp /\ UNCHANGED <<vars, accessVars>>
MCSpec == MCInit /\ [][MCNext]_<<vars, accessVars>>

\* Links are numbers here and used in their order: which of the unused ones comes next
\* makes no difference.
LinksInOrder ==
  \A k \in Links, j \in Links : k < j /\ links[k].status = "NONE" => links[j].status = "NONE"

\* Bound: at most two sign-ins are under way, one is on the learners' side, and one
\* link is given up.  Nothing of a sign-in that fails stays, so that a
\* behaviour is not followed beyond one.
FewFailures ==
  /\ Cardinality({l \in Logins : logins[l].stage \in {"STARTED", "CHECKED"}}) <= 2
  /\ Cardinality({k \in Links : links[k].status \in {"EXPIRED", "REVOKED"}}) <= 1
  /\ Cardinality({l \in Logins : logins[l].stage # "NONE" /\ logins[l].role = "LEARNER"}) <= 1
  /\ \A l \in Logins : logins[l].stage # "FAILED"

MCSymmetry == Permutations(Accounts) \cup Permutations(Logins)
=============================================================================
