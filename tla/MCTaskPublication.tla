-------------------------- MODULE MCTaskPublication --------------------------
(* What administrators do, for TLC: the document a reviewer opens in two    *)
(* tabs and the administrator forces open, the task that its creator and    *)
(* the root administrator edit and publish, the shop and the guild with     *)
(* their learners, and the upgrade of the installation.  The four share no  *)
(* row, so that each behaviour here is one of one of them.                  *)
EXTENDS ReviewClaim, TaskPublication, NoviceEconomy, SchemaUpgrade, TLC

CONSTANTS t1, t2, t3, reviewer, admin, root, author, l1, l2, m1, m2, q1, q2

MCTabOwner == (t1 :> reviewer) @@ (t2 :> reviewer) @@ (t3 :> admin)
MCMembers == {root, author}

\* The document's page ends with the verdict.
Decided == review.status = "FINALIZED"

VARIABLE part    \* what is looked at

\* Bound: the creator starts with both roles.  Nothing is refused for a role that one has.
OnePage == Init /\ roles[author] = {"OPERATOR", "REVIEWER"}

\* The others need not be looked at again for every start of the shop or the upgrade.
OneShop == EconomyInit /\ \A t \in NoviceTasks : offers[t] = 1
OneUpgrade == UpgradeInit /\ waiting = 0

MCInit ==
  /\ ClaimInit /\ OnePage
  /\ \/ part \in {"document", "task"} /\ OneShop /\ OneUpgrade
     \/ part = "shop" /\ EconomyInit /\ OneUpgrade
     \/ part = "upgrade" /\ OneShop /\ UpgradeInit

\* An upgrade may be left where it stopped, or be done.
MCNext ==
  /\ \/ part = "document" /\ ClaimNext /\ UNCHANGED <<vars, economyVars, upgradeVars>>
     \/ part = "task" /\ Next /\ UNCHANGED <<claimVars, economyVars, upgradeVars>>
     \/ part = "shop" /\ EconomyNext /\ UNCHANGED <<claimVars, vars, upgradeVars>>
     \/ part = "upgrade" /\ UpgradeNext /\ UNCHANGED <<claimVars, vars, economyVars>>
     \/ (Decided \/ part = "upgrade") /\ UNCHANGED <<claimVars, vars, economyVars, upgradeVars>>
  /\ UNCHANGED part
MCSpec == MCInit /\ [][MCNext]_<<claimVars, vars, economyVars, upgradeVars, part>>

Buying(l) == \E q \in Purchases : purchases[q] # NoPurchase /\ purchases[q].learner = l
Buyers == {l \in Learners : Buying(l) \/ \E t \in NoviceTasks : claims[<<l, t>>].status # "NONE"}
OnOffer == {m \in Medals : medals[m].revision > 0}

\* Bound: while there is a medal, the guild has no rules and the learners do not pass the
\* task in the other camp, which earns nothing here.
GuildAtRest ==
  /\ \A t \in NoviceTasks : rules[t] = 0 /\ offers[t] = 1
  /\ \A v \in verdicts : v.way = "novice"
  /\ \A i \in 1..Len(record) : record[i].way = "novice"

\* Bound: without a medal, one learner.
GuildOfOne ==
  /\ Buyers \subseteq {l1}
  /\ \A v \in verdicts : v.learner = l1
  /\ \A i \in 1..Len(record) : record[i].learner = l1

\* Bound: two learners with one medal or one with two, redemptions of medals that exist,
\* one piece of a medal at a time, a price of two only where one learner looks at one
\* medal, and two medals only if both are counted and published.  Which of the learners,
\* of the medals and of the redemptions comes first makes no difference.
SmallShop ==
  /\ IF OnOffer = {} THEN Buyers = {} \/ GuildOfOne ELSE GuildAtRest
  /\ l2 \in Buyers => m2 \notin OnOffer
  /\ m2 \in OnOffer => /\ m1 \in OnOffer
                       /\ \A m \in OnOffer : medals[m].status = "published" /\ medals[m].stock # Unlimited
  /\ purchases[q2] # NoPurchase => purchases[q1] # NoPurchase
  /\ \A q \in Purchases : purchases[q] # NoPurchase => purchases[q].medal \in OnOffer
  /\ \A m \in Medals : medals[m].stock # 2
  /\ (OnOffer = {m1} /\ Buyers \subseteq {l1}) \/ \A m \in Medals : medals[m].price = 1
==============================================================================
