---------------------------- MODULE NoviceEconomy ----------------------------
(***************************************************************************)
(* What learners earn and spend.  A novice task is claimed once, in the     *)
(* version that is published then, and earns its points when a review       *)
(* passes it; a wallet is never stored, but derived from completed          *)
(* assignments and from redemptions, each of which keeps the price it was   *)
(* made at.  Medals have a price and a stock, and administrators change     *)
(* both while learners redeem.  The guild credits the first completion of   *)
(* a task, of either camp, by the rule that is enabled then.                *)
(*                                                                          *)
(* A redemption locks the learner, then the medal, and reads the wallet     *)
(* after both; a verdict locks the guild's row, reads its rules and the     *)
(* earlier verdicts, and commits.  What a transaction that holds its locks  *)
(* reads and writes is one step unless another could come between.          *)
(***************************************************************************)
EXTENDS Naturals, FiniteSets, Sequences

CONSTANTS
  Learners,
  NoviceTasks,
  Medals,
  Purchases,   \* redemptions under way at once
  Worth,       \* bound: the points that a task may be worth and a medal may cost
  MaxSaves,    \* bound: saves of a medal
  Unlimited    \* the stock of a medal that has no limit: NULL

ASSUME WorthAssumption == Worth \subseteq Nat /\ Unlimited \notin Nat
ASSUME FiniteAssumption == IsFiniteSet(NoviceTasks)

VARIABLES
  offers,       \* what the published version of each task is worth
  claims,       \* the Assignment of a learner's novice Enrollment, per task
  medals,       \* the MedalDefinition rows
  page,         \* the medals as an administrator's page shows them
  redemptions,  \* the MedalRedemption rows
  purchases,
  supplied,     \* history: the stock that administrators put in, per medal
  rules,        \* the guild's rules: 0 when there is none that is enabled
  verdicts,     \* the transactions that hold the guild's row
  record        \* history: the PASS evaluations in their order, each with its credit

shop == <<medals, page, redemptions, purchases, supplied>>
guild == <<rules, verdicts, record>>
economyVars == <<offers, claims, shop, guild>>

Ways == {"novice", "journey"}
NoMedal == [status |-> "draft", price |-> 1, stock |-> 0, revision |-> 0]
Medal == [status : {"draft", "published", "unpublished"}, price : Worth \cup {1},
          stock : Nat \cup {Unlimited}, revision : Nat]
NoPurchase == [stage |-> "IDLE"]
Purchase == [stage : {"LEARNER_LOCKED", "PAYABLE"}, learner : Learners, medal : Medals, seen : Nat]
Redemption == [learner : Learners, medal : Medals, price : Worth \cup {1}]
Verdict == [learner : Learners, task : NoviceTasks, way : Ways, credit : Worth \cup {0}]

EconomyTypeOK ==
  /\ offers \in [NoviceTasks -> Worth]
  /\ claims \in [Learners \X NoviceTasks ->
                 [status : {"NONE", "IN_PROGRESS", "COMPLETED"}, worth : Worth \cup {0}]]
  /\ medals \in [Medals -> Medal]
  /\ page \in [Medals -> Medal]
  /\ redemptions \subseteq Redemption
  /\ purchases \in [Purchases -> Purchase \cup {NoPurchase}]
  /\ supplied \in [Medals -> Nat]
  /\ rules \in [NoviceTasks -> Worth \cup {0}]
  /\ verdicts \subseteq Verdict
  /\ record \in Seq(Verdict)

EconomyInit ==
  /\ offers \in [NoviceTasks -> Worth]
  /\ claims = [p \in Learners \X NoviceTasks |-> [status |-> "NONE", worth |-> 0]]
  /\ medals = [m \in Medals |-> NoMedal]
  /\ page = medals
  /\ redemptions = {}
  /\ purchases = [q \in Purchases |-> NoPurchase]
  /\ supplied = [m \in Medals |-> 0]
  /\ rules = [t \in NoviceTasks |-> 0]
  /\ verdicts = {}
  /\ record = <<>>

-----------------------------------------------------------------------------
(* Novice tasks. *)

\* A new version; who claimed an earlier one keeps it.
Republish(t) ==
  /\ offers' \in {[offers EXCEPT ![t] = w] : w \in Worth \ {offers[t]}}
  /\ UNCHANGED <<claims, shop, guild>>

ClaimNoviceTask(l, t) ==
  /\ claims[<<l, t>>].status = "NONE"
  /\ claims' = [claims EXCEPT ![<<l, t>>] = [status |-> "IN_PROGRESS", worth |-> offers[t]]]
  /\ UNCHANGED <<offers, shop, guild>>

Total(values, worth) ==
  LET sum[S \in SUBSET values] ==
        IF S = {} THEN 0 ELSE LET v == CHOOSE v \in S : TRUE IN worth[v] + sum[S \ {v}]
  IN  sum[values]

Earned(l) ==
  Total({t \in NoviceTasks : claims[<<l, t>>].status = "COMPLETED"},
        [t \in NoviceTasks |-> claims[<<l, t>>].worth])

Spent(l) == Total({r \in redemptions : r.learner = l}, [r \in redemptions |-> r.price])

-----------------------------------------------------------------------------
(* Medals. *)

ShowMedals ==
  /\ page' = medals
  /\ UNCHANGED <<offers, claims, medals, redemptions, purchases, supplied, guild>>

Sold(m) == Cardinality({r \in redemptions : r.medal = m})

MedalFree(m) == \A q \in Purchases : purchases[q] # NoPurchase /\ purchases[q].medal = m
                                      => purchases[q].stage # "PAYABLE"

\* Mutant: the page of an administrator is written over what changed meanwhile.
UnderAnyRevision(m) == TRUE

UnderSeenRevision(m) == medals[m].revision = page[m].revision

\* The administrator's page sends the whole medal: the stock it showed, a medal more, or
\* none counted.
SaveMedal(m, status, price, stock) ==
  /\ MedalFree(m)
  /\ UnderSeenRevision(m)
  /\ page[m].revision < MaxSaves
  /\ medals[m].status # "draft" => status # "draft"
  /\ medals' = [medals EXCEPT ![m] = [status |-> status, price |-> price, stock |-> stock,
                                      revision |-> @.revision + 1]]
  /\ supplied' = [supplied EXCEPT ![m] =
       IF stock = Unlimited THEN 0
       ELSE IF page[m].stock = Unlimited THEN Sold(m) + stock
       ELSE @ + stock - page[m].stock]
  /\ UNCHANGED <<offers, claims, page, redemptions, purchases, guild>>

\* Mutant: a redemption does not lock its learner.
AnyLearner(l) == TRUE

LearnerFree(l) == \A q \in Purchases : purchases[q] # NoPurchase => purchases[q].learner # l

\* Who has the medal already is answered with it, and a page that is stale by now is
\* refused: neither changes anything.
RedeemLocksLearner(q, l, m) ==
  /\ purchases[q] = NoPurchase
  /\ LearnerFree(l)
  /\ ~ \E r \in redemptions : r.learner = l /\ r.medal = m
  /\ purchases' = [purchases EXCEPT ![q] =
       [stage |-> "LEARNER_LOCKED", learner |-> l, medal |-> m, seen |-> medals[m].revision]]
  /\ UNCHANGED <<offers, claims, medals, page, redemptions, supplied, guild>>

Payable(r) ==
  /\ medals[r.medal].status = "published"
  /\ medals[r.medal].revision = r.seen
  /\ medals[r.medal].stock # 0
  /\ Earned(r.learner) >= Spent(r.learner) + medals[r.medal].price

RedeemLocksMedal(q) ==
  /\ purchases[q] # NoPurchase
  /\ purchases[q].stage = "LEARNER_LOCKED"
  /\ MedalFree(purchases[q].medal)
  /\ purchases' = [purchases EXCEPT ![q] =
       IF Payable(purchases[q]) THEN [@ EXCEPT !.stage = "PAYABLE"] ELSE NoPurchase]
  /\ UNCHANGED <<offers, claims, medals, page, redemptions, supplied, guild>>

Redeem(q) ==
  /\ purchases[q] # NoPurchase
  /\ purchases[q].stage = "PAYABLE"
  /\ LET m == purchases[q].medal IN
       /\ redemptions' = redemptions \cup
            {[learner |-> purchases[q].learner, medal |-> m, price |-> medals[m].price]}
       /\ medals' = [medals EXCEPT ![m] =
            IF @.stock = Unlimited THEN @
            ELSE [medals[m] EXCEPT !.stock = @ - 1, !.revision = @ + 1]]
  /\ purchases' = [purchases EXCEPT ![q] = NoPurchase]
  /\ UNCHANGED <<offers, claims, page, supplied, guild>>

-----------------------------------------------------------------------------
(* The guild.  Its row is there: the page of the guild makes it before a rule can be. *)

\* Mutant: neither verdicts nor the administrators' rules lock the guild's row.
RowNeverHeld == TRUE

GuildFree == verdicts = {}

SaveRule(t, points) ==
  /\ GuildFree
  /\ rules' = [rules EXCEPT ![t] = points]
  /\ UNCHANGED <<offers, claims, shop, verdicts, record>>

PassesOf(l, t) == {i \in 1..Len(record) : record[i].learner = l /\ record[i].task = t}

\* finalize_review with PASS, up to what credit_guild_completion reads.
PassTask(l, t, way) ==
  /\ GuildFree
  /\ IF way = "novice" THEN claims[<<l, t>>].status = "IN_PROGRESS"
     ELSE ~ \E i \in PassesOf(l, t) : record[i].way = "journey"
  /\ verdicts' = verdicts \cup {[learner |-> l, task |-> t, way |-> way,
                               credit |-> IF PassesOf(l, t) # {} THEN 0 ELSE rules[t]]}
  /\ UNCHANGED <<offers, claims, shop, rules, record>>

\* uq_guild_first_completion: a second credit of a task is not inserted.
CommitVerdict(v) ==
  /\ record' = Append(record, IF \E i \in PassesOf(v.learner, v.task) : record[i].credit > 0
                                THEN [v EXCEPT !.credit = 0] ELSE v)
  /\ claims' = IF v.way = "novice"
                 THEN [claims EXCEPT ![<<v.learner, v.task>>].status = "COMPLETED"]
                 ELSE claims
  /\ verdicts' = verdicts \ {v}
  /\ UNCHANGED <<offers, shop, rules>>

EconomyNext ==
  \/ \E t \in NoviceTasks : Republish(t)
  \/ \E l \in Learners, t \in NoviceTasks : ClaimNoviceTask(l, t)
  \/ ShowMedals
  \/ \E m \in Medals, status \in {"draft", "published", "unpublished"}, price \in Worth :
       \E stock \in {page[m].stock, Unlimited} \cup
                    {IF page[m].stock = Unlimited THEN 1 ELSE page[m].stock + 1} :
         SaveMedal(m, status, price, stock)
  \/ \E q \in Purchases, l \in Learners, m \in Medals : RedeemLocksLearner(q, l, m)
  \/ \E q \in Purchases : RedeemLocksMedal(q) \/ Redeem(q)
  \/ \E t \in NoviceTasks, points \in Worth \cup {0} : SaveRule(t, points)
  \/ \E l \in Learners, t \in NoviceTasks, way \in Ways : PassTask(l, t, way)
  \/ \E v \in verdicts : CommitVerdict(v)

EconomySpec == EconomyInit /\ [][EconomyNext]_economyVars

-----------------------------------------------------------------------------
(* Properties. *)

\* Nobody spends what was not earned, whatever redemptions, saves and verdicts run at
\* once; and of a medal whose stock is counted, what was put in is what was redeemed and
\* what is left: no save brings back a medal that was redeemed while the page was open.
WalletAndStockBalance ==
  /\ EconomyTypeOK
  /\ \A l \in Learners : Spent(l) <= Earned(l)
  /\ \A m \in Medals : medals[m].stock # Unlimited => medals[m].stock + Sold(m) = supplied[m]

\* The guild credits a task of a learner once, for the first completion, and never for a
\* completion that comes after one the rules did not credit.
FirstCompletionIsCredited ==
  \A i, j \in 1..Len(record) :
    i < j /\ record[i].learner = record[j].learner /\ record[i].task = record[j].task
      => record[j].credit = 0
==============================================================================
