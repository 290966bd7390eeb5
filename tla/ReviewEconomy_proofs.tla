------------------------- MODULE ReviewEconomy_proofs -------------------------
(***************************************************************************)
(* Proofs about the reviews and what they earn.                            *)
(*                                                                         *)
(* ReviewClaim, for any number of tabs, reviewers and claims: there is one *)
(* verdict at most, it is written under the claim that is live at that     *)
(* moment, and a claim is forced open only by who saw it.                  *)
(*                                                                         *)
(* NoviceEconomy, for any number of learners, tasks, medals and            *)
(* redemptions at once: nobody spends what was not earned, no piece of a   *)
(* medal is redeemed twice or lost, and a completion is credited once.     *)
(***************************************************************************)
EXTENDS ReviewClaim, NoviceEconomy, FiniteSetTheorems, WellFoundedInduction, TLAPS

\* What a tab has on screen.
Screens == [revision : 1..3, token : 0..MaxTokens, seenVersion : Nat,
            seenToken : 0..MaxTokens, deciding : Forms \cup {"no"}]

\* The revision counts the two steps of a review, so that a stale one names its status.
RevisionCountsSteps ==
  /\ review.status = "ASSIGNED" <=> review.revision = 1
  /\ review.status = "FINALIZED" <=> review.revision = 3

\* The verdict is there exactly when the Review says so.
VerdictIsRecorded ==
  /\ Len(evaluations) <= 1
  /\ review.status = "FINALIZED" <=> evaluations # <<>>

\* What a screen shows of the claim is no later than the row, and if it is of this
\* version it is of this token: no two claims share a version.
ScreensAreOfThePast ==
  /\ claim.live => Recorded
  /\ \A t \in Tabs :
       /\ tab[t].seenVersion <= claim.version
       /\ tab[t].seenVersion = claim.version /\ claim.live => tab[t].seenToken = claim.token

\* A decision under way has started the review, from the first revision.
DecisionsHaveStarted ==
  \A t \in Tabs : ~ Idle(t) => tab[t].revision = 1 /\ review.status # "ASSIGNED"

\* The inductive invariant.
IInv ==
  /\ ClaimTypeOK
  /\ RevisionCountsSteps
  /\ VerdictIsRecorded
  /\ ScreensAreOfThePast
  /\ DecisionsHaveStarted

-----------------------------------------------------------------------------
(* The claim endpoint. *)

\* What a tab shows after it has read the rows: the review's revision, and a live claim's
\* version with its token.
LEMMA ShownIsTheRow ==
  ASSUME ClaimTypeOK, NEW t \in Tabs, NEW token \in 0..MaxTokens,
         review' \in [status : {"ASSIGNED", "IN_REVIEW", "FINALIZED"}, revision : 1..3],
         claim' \in [owner : Reviewers, token : 0..MaxTokens, version : Nat, live : BOOLEAN]
  PROVE  /\ Shown(t, token) \in Screens
         /\ Shown(t, token).revision = review'.revision
         /\ Shown(t, token).deciding = tab[t].deciding
         /\ \/ Shown(t, token).seenVersion = 0
            \/ /\ Shown(t, token).seenVersion = claim'.version
               /\ Shown(t, token).seenToken = claim'.token
<1>1. tab[t] \in Screens
  BY DEF ClaimTypeOK, Screens
<1>2. CASE LiveClaim'
  <2>1. Shown(t, token) = [tab[t] EXCEPT !.revision = review'.revision, !.token = token,
                             !.seenVersion = claim'.version, !.seenToken = claim'.token]
    BY <1>2, Zenon DEF Shown
  <2>2. /\ claim'.version \in Nat /\ claim'.token \in 0..MaxTokens
        /\ review'.revision \in 1..3
    OBVIOUS
  <2> QED BY <1>1, <2>1, <2>2 DEF Screens
<1>3. CASE ~ LiveClaim'
  <2>1. Shown(t, token) = [tab[t] EXCEPT !.revision = review'.revision, !.token = token,
                             !.seenVersion = 0, !.seenToken = 0]
    BY <1>3, Zenon DEF Shown
  <2>2. 0 \in Nat /\ 0 \in 0..MaxTokens /\ review'.revision \in 1..3
    BY TokenAssumption
  <2> QED BY <1>1, <2>1, <2>2 DEF Screens
<1> QED BY <1>2, <1>3

\* A request of the claim endpoint, or the passing of time.
ClaimStep ==
  LeaseElapses \/ \E t \in Tabs : Refresh(t) \/ Acquire(t) \/ RenewOrRelease(t) \/ ForceRelease(t)

\* It leaves review and verdict alone.  The version moves on with everything but a lapse,
\* and only a new version can bring a new token or a claim to life; and an idle tab shows
\* the row as it is now.
LEMMA ClaimMoves ==
  ASSUME ClaimTypeOK, ScreensAreOfThePast, ClaimStep
  PROVE  /\ UNCHANGED <<review, evaluations>>
         /\ claim' \in [owner : Reviewers, token : 0..MaxTokens, version : Nat, live : BOOLEAN]
         /\ issued' \in 0..MaxTokens
         /\ \/ claim' = claim \/ claim' = [claim EXCEPT !.live = FALSE]
            \/ claim'.version = claim.version + 1
         /\ \/ tab' = tab
            \/ \E t \in Tabs, token \in 0..MaxTokens :
                 Idle(t) /\ tab' = [tab EXCEPT ![t] = Shown(t, token)]
<1> DEFINE ClaimRows == [owner : Reviewers, token : 0..MaxTokens, version : Nat, live : BOOLEAN]
            Stood == UNCHANGED <<review, evaluations>>
            Typed == claim' \in ClaimRows /\ issued' \in 0..MaxTokens
            Went  == \/ claim' = claim \/ claim' = [claim EXCEPT !.live = FALSE]
                     \/ claim'.version = claim.version + 1
            Seen  == \/ tab' = tab
                     \/ \E t \in Tabs, token \in 0..MaxTokens :
                          Idle(t) /\ tab' = [tab EXCEPT ![t] = Shown(t, token)]
<1>0. /\ claim \in ClaimRows
      /\ issued \in 0..MaxTokens /\ MaxTokens \in Nat
      /\ \A t \in Tabs : tab[t].token \in 0..MaxTokens /\ Owner[t] \in Reviewers
  BY TokenAssumption DEF Reviewers, ClaimTypeOK
<1>1. ASSUME LeaseElapses PROVE Stood /\ Typed /\ Went /\ Seen
  BY <1>0, <1>1 DEF LeaseElapses
<1>2. ASSUME NEW t \in Tabs, Refresh(t) PROVE Stood /\ Typed /\ Went /\ Seen
  BY <1>0, <1>2 DEF Refresh
<1>3. ASSUME NEW t \in Tabs, Acquire(t) PROVE Stood /\ Typed /\ Went /\ Seen
  <2>1. Stood /\ Idle(t) /\ tab' = [tab EXCEPT ![t] = Shown(t, claim'.token)]
    BY <1>3, Zenon DEF Acquire
  <2>2. \/ UNCHANGED <<claim, issued>>
        \/ issued < MaxTokens /\ issued' = issued + 1 /\ claim' = NewClaim(t)
    BY <1>3, Zenon DEF Acquire
  <2>3. ASSUME issued < MaxTokens, issued' = issued + 1, claim' = NewClaim(t)
        PROVE  Typed /\ Went
    <3>1. claim' = [owner |-> Owner[t], token |-> issued + 1, version |-> claim.version + 1,
                    live |-> TRUE]
      BY <2>3 DEF NewClaim
    <3>2. issued + 1 \in 0..MaxTokens /\ Owner[t] \in Reviewers /\ claim.version + 1 \in Nat
      BY <1>0, <2>3
    <3> QED BY <2>3, <3>1, <3>2
  <2>5. Typed /\ Went
    BY <1>0, <2>2, <2>3
  <2>4. claim'.token \in 0..MaxTokens
    BY <2>5
  <2> QED BY <2>1, <2>4, <2>5
<1>4. ASSUME NEW t \in Tabs, RenewOrRelease(t) PROVE Stood /\ Typed /\ Went /\ Seen
  <2> DEFINE shown == IF claim'.live THEN claim'.token ELSE 0
  <2>1. Stood /\ Idle(t) /\ tab' = [tab EXCEPT ![t] = Shown(t, shown)] /\ issued' = issued
    BY <1>4, Zenon DEF RenewOrRelease
  <2>2. \/ UNCHANGED claim
        \/ claim' = [claim EXCEPT !.live = FALSE, !.version = @ + 1]
    BY <1>4, Zenon DEF RenewOrRelease
  <2>5. claim.version + 1 \in Nat
    BY <1>0
  <2>3. Typed /\ Went
    BY <1>0, <2>1, <2>2, <2>5
  <2>4. shown \in 0..MaxTokens
    BY <1>0, <2>3
  <2> QED BY <2>1, <2>3, <2>4
<1>5. ASSUME NEW t \in Tabs, ForceRelease(t) PROVE Stood /\ Typed /\ Went /\ Seen
  <2>1. Stood /\ Idle(t) /\ tab' = [tab EXCEPT ![t] = Shown(t, 0)] /\ issued' = issued
    BY <1>5, Zenon DEF ForceRelease
  <2>2. \/ UNCHANGED claim
        \/ claim' = [claim EXCEPT !.live = FALSE, !.version = @ + 1]
    BY <1>5, Zenon DEF ForceRelease
  <2>3. claim.version + 1 \in Nat
    BY <1>0
  <2>4. Typed /\ Went
    BY <1>0, <2>1, <2>2, <2>3
  <2>5. 0 \in 0..MaxTokens
    BY <1>0
  <2> QED BY <2>1, <2>4, <2>5, Zenon
<1> QED BY <1>1, <1>2, <1>3, <1>4, <1>5 DEF ClaimStep

\* A request of the claim endpoint keeps the invariant: no screen runs ahead of the row.
LEMMA ClaimKeeps ==
  ASSUME IInv, ClaimStep
  PROVE  IInv'
<1> DEFINE ClaimRows == [owner : Reviewers, token : 0..MaxTokens, version : Nat, live : BOOLEAN]
<1>0. IInv /\ claim \in ClaimRows /\ tab \in [Tabs -> Screens]
  BY DEF IInv, ClaimTypeOK, Screens
<1>1. /\ UNCHANGED <<review, evaluations>>
      /\ claim' \in ClaimRows
      /\ issued' \in 0..MaxTokens
      /\ \/ claim' = claim \/ claim' = [claim EXCEPT !.live = FALSE]
         \/ claim'.version = claim.version + 1
      /\ \/ tab' = tab
         \/ \E t \in Tabs, token \in 0..MaxTokens :
              Idle(t) /\ tab' = [tab EXCEPT ![t] = Shown(t, token)]
  BY ClaimMoves DEF IInv
<1>2. review' \in [status : {"ASSIGNED", "IN_REVIEW", "FINALIZED"}, revision : 1..3]
  BY <1>1 DEF IInv, ClaimTypeOK
<1> DEFINE Shows == \A t \in Tabs : tab'[t] = tab[t] \/
              /\ Idle(t) /\ tab'[t] \in Screens
              /\ tab'[t].deciding = "no"
              /\ \/ tab'[t].seenVersion = 0
                 \/ tab'[t].seenVersion = claim'.version /\ tab'[t].seenToken = claim'.token
<1>3. Shows
  <2>1. CASE tab' = tab
    BY <2>1
  <2>2. ASSUME NEW t \in Tabs, NEW token \in 0..MaxTokens,
               Idle(t), tab' = [tab EXCEPT ![t] = Shown(t, token)]
        PROVE  Shows
    <3>1. /\ Shown(t, token) \in Screens
          /\ Shown(t, token).deciding = tab[t].deciding
          /\ \/ Shown(t, token).seenVersion = 0
             \/ /\ Shown(t, token).seenVersion = claim'.version
                /\ Shown(t, token).seenToken = claim'.token
      BY <1>1, <1>2, ShownIsTheRow DEF IInv
    <3> QED BY <1>0, <2>2, <3>1, Zenon DEF Idle
  <2> QED BY <1>1, <2>1, <2>2
<1>4. ClaimTypeOK'
  <2>1. DOMAIN tab' = Tabs /\ tab' = [t \in Tabs |-> tab'[t]]
    BY <1>0, <1>1
  <2>2. \A t \in Tabs : tab'[t] \in Screens
    BY <1>0, <1>3
  <2>3. tab' \in [Tabs -> Screens]
    BY <2>1, <2>2
  <2> QED BY <1>0, <1>1, <1>2, <2>3 DEF IInv, ClaimTypeOK, Screens
<1>5. RevisionCountsSteps' /\ VerdictIsRecorded'
  BY <1>0, <1>1 DEF IInv, RevisionCountsSteps, VerdictIsRecorded
<1>6. DecisionsHaveStarted'
  BY <1>0, <1>1, <1>3 DEF IInv, DecisionsHaveStarted, Idle
<1>7. claim'.live => Recorded'
  BY <1>0, <1>1 DEF IInv, ScreensAreOfThePast, Recorded
<1>8. ASSUME NEW t \in Tabs
      PROVE  /\ tab'[t].seenVersion <= claim'.version
             /\ tab'[t].seenVersion = claim'.version /\ claim'.live => tab'[t].seenToken = claim'.token
  <2>1. /\ tab[t].seenVersion <= claim.version /\ tab[t].seenVersion \in Nat
        /\ tab[t].seenVersion = claim.version /\ claim.live => tab[t].seenToken = claim.token
    BY <1>0 DEF IInv, ScreensAreOfThePast, Screens
  <2>2. /\ claim.version \in Nat /\ claim'.version \in Nat
        /\ \/ claim'.version = claim.version /\ claim'.token = claim.token
              /\ (claim'.live => claim.live)
           \/ claim'.version = claim.version + 1
    BY <1>0, <1>1
  <2>3. claim'.live => claim'.version > 0
    BY <1>7 DEF Recorded
  <2> QED BY <1>3, <2>1, <2>2, <2>3
<1>9. ScreensAreOfThePast'
  BY <1>7, <1>8 DEF ScreensAreOfThePast
<1> QED BY <1>4, <1>5, <1>6, <1>9 DEF IInv

-----------------------------------------------------------------------------
(* The verdict. *)

\* The review and its verdict in a step: as they were, started, or decided under the
\* claim that is live, if there has been one at all.
Undecided == UNCHANGED <<review, evaluations>>
StartedNow ==
  /\ review = [status |-> "ASSIGNED", revision |-> 1]
  /\ review' = [status |-> "IN_REVIEW", revision |-> 2]
  /\ evaluations' = evaluations
DecidedBy(t) ==
  /\ review.status = "IN_REVIEW" /\ evaluations = <<>>
  /\ review' = [status |-> "FINALIZED", revision |-> 3]
  /\ evaluations' = <<t>>
  /\ Recorded => LiveClaim /\ claim.token = tab[t].token

\* What a step does to the tab of t: new answers to "deciding" and the revision.
TabMoves(t) ==
  \E deciding \in Forms \cup {"no"}, revision \in 1..3 :
    /\ tab' = [tab EXCEPT ![t] = [tab[t] EXCEPT !.revision = revision, !.deciding = deciding]]
    /\ deciding # "no" => StartedNow /\ revision = 1

\* A row is its fields.
LEMMA ReviewIsItsFields ==
  ASSUME IInv
  PROVE  /\ review = [status |-> review.status, revision |-> review.revision]
         /\ review.status = "ASSIGNED" => review = [status |-> "ASSIGNED", revision |-> 1]
         /\ review.status = "IN_REVIEW" => review.revision = 2
         /\ review.status = "IN_REVIEW" => evaluations = <<>>
         /\ evaluations \in Seq(Tabs) /\ review.revision \in 1..3
         /\ tab \in [Tabs -> Screens]
  BY DEF IInv, ClaimTypeOK, RevisionCountsSteps, VerdictIsRecorded, Screens

\* A decision in one transaction is written on the second revision, by whom the claim
\* allows.
LEMMA FinalizedNow ==
  ASSUME IInv, NEW t \in Tabs, review.status = "IN_REVIEW", Finalized(t, review.revision),
         Recorded => LiveClaim /\ claim.token = tab[t].token
  PROVE  DecidedBy(t)
<1>1. review.revision = 2 /\ evaluations = <<>>
  BY ReviewIsItsFields
<1>2. evaluations' = <<t>>
  BY <1>1 DEF Finalized
<1> QED BY <1>1, <1>2 DEF Finalized, DecidedBy

\* start_review brings a review from its first revision to its second.
LEMMA StartedFirst ==
  ASSUME IInv, review.status = "ASSIGNED", review' = Started, UNCHANGED evaluations
  PROVE  StartedNow
<1>1. review = [status |-> "ASSIGNED", revision |-> 1]
  BY ReviewIsItsFields
<1>2. review.revision + 1 = 2
  BY <1>1
<1>3. Started = [review EXCEPT !.status = "IN_REVIEW", !.revision = 2]
  BY <1>2 DEF Started
<1>4. [review EXCEPT !.status = "IN_REVIEW", !.revision = 2] = [status |-> "IN_REVIEW", revision |-> 2]
  <2> DEFINE Row == [status : {"ASSIGNED", "IN_REVIEW"}, revision : {1, 2}]
  <2>1. review \in Row
    BY <1>1
  <2>2. [review EXCEPT !.status = "IN_REVIEW", !.revision = 2] \in Row
    BY <2>1
  <2>3. \A row \in Row : row = [status |-> row.status, revision |-> row.revision]
    OBVIOUS
  <2>4. /\ [review EXCEPT !.status = "IN_REVIEW", !.revision = 2].status = "IN_REVIEW"
        /\ [review EXCEPT !.status = "IN_REVIEW", !.revision = 2].revision = 2
    BY <2>1
  <2> QED BY <2>2, <2>3, <2>4
<1> QED BY <1>1, <1>3, <1>4 DEF StartedNow

\* A request that may write the verdict.
VerdictStep(t) ==
  \/ StartReview(t) \/ FinalizeReview(t) \/ Decide(t) \/ DecideFinish(t) \/ Interrupted(t)
  \/ \E form \in Forms : DecideStart(t, form)

\* It leaves the claim alone and starts or decides the review, once each.
LEMMA VerdictMoves ==
  ASSUME IInv, NEW t \in Tabs, VerdictStep(t)
  PROVE  /\ UNCHANGED <<claim, issued>>
         /\ TabMoves(t)
         /\ Undecided \/ StartedNow \/ DecidedBy(t)
<1> DEFINE Moved == /\ UNCHANGED <<claim, issued>>
                    /\ TabMoves(t)
                    /\ Undecided \/ StartedNow \/ DecidedBy(t)
           row == tab[t]
<1>0. /\ row \in Screens /\ tab \in [Tabs -> Screens]
      /\ review.revision \in 1..3
      /\ "no" \in Forms \cup {"no"} /\ row.deciding \in Forms \cup {"no"}
  BY ReviewIsItsFields DEF Screens
<1>a. ASSUME NEW revision \in 1..3, tab' = [tab EXCEPT ![t].revision = revision], Idle(t)
      PROVE  TabMoves(t)
  <2>1. [row EXCEPT !.revision = revision] = [row EXCEPT !.revision = revision, !.deciding = "no"]
    BY <1>0, <1>a DEF Idle, Screens
  <2>2. tab' = [tab EXCEPT ![t] = [row EXCEPT !.revision = revision]]
    BY <1>a
  <2> QED BY <1>0, <2>1, <2>2 DEF TabMoves
<1>b. ASSUME NEW deciding \in Forms \cup {"no"}, tab' = [tab EXCEPT ![t].deciding = deciding],
             deciding # "no" => StartedNow /\ row.revision = 1
      PROVE  TabMoves(t)
  <2>1. [row EXCEPT !.deciding = deciding] =
          [row EXCEPT !.revision = row.revision, !.deciding = deciding]
    BY <1>0 DEF Screens
  <2>2. tab' = [tab EXCEPT ![t] = [row EXCEPT !.deciding = deciding]]
    BY <1>b
  <2>3. row.revision \in 1..3
    BY <1>0 DEF Screens
  <2> QED BY <1>b, <2>1, <2>2, <2>3 DEF TabMoves
<1>1. ASSUME StartReview(t) PROVE Moved
  <2>1. StartedNow
    BY <1>1, StartedFirst DEF StartReview
  <2>2. review'.revision \in 1..3
    BY <2>1 DEF StartedNow
  <2> QED BY <1>1, <1>a, <2>1, <2>2 DEF StartReview
<1>2. ASSUME FinalizeReview(t) PROVE Moved
  <2>1. DecidedBy(t)
    BY <1>2, FinalizedNow DEF FinalizeReview, CheckWrite
  <2>2. review'.revision \in 1..3
    BY <2>1 DEF DecidedBy
  <2> QED BY <1>2, <1>a, <2>1, <2>2 DEF FinalizeReview
<1>3. ASSUME Decide(t) PROVE Moved
  <2>1. DecidedBy(t)
    BY <1>3, FinalizedNow DEF Decide, CheckWrite
  <2>2. review'.revision \in 1..3
    BY <2>1 DEF DecidedBy
  <2> QED BY <1>3, <1>a, <2>1, <2>2 DEF Decide
<1>4. ASSUME DecideFinish(t) PROVE Moved
  <2>1. TabMoves(t)
    BY <1>0, <1>4, <1>b DEF DecideFinish
  <2>2. CASE Undecided
    BY <1>4, <2>1, <2>2 DEF DecideFinish
  <2>3. CASE ~ Undecided
    <3>1. StillAllowed(t) /\ EvaluationIsNew /\ Finalized(t, row.revision + 1)
      BY <1>4, <2>3, Zenon DEF DecideFinish, Undecided
    <3>2. row.revision = 1 /\ review.status # "ASSIGNED"
      BY <1>4 DEF DecideFinish, IInv, DecisionsHaveStarted
    <3>3. evaluations = <<>> /\ review.status = "IN_REVIEW"
      BY <3>1, <3>2 DEF EvaluationIsNew, IInv, VerdictIsRecorded, ClaimTypeOK
    <3>4. Open /\ LiveClaim /\ claim.token = tab[t].token
      BY <3>1, <3>3 DEF Open, LiveClaim, StillAllowed
    <3>5. evaluations' = <<t>> /\ review' = [status |-> "FINALIZED", revision |-> 3]
      BY <3>1, <3>2, <3>3 DEF Finalized
    <3>6. DecidedBy(t)
      BY <3>3, <3>4, <3>5 DEF DecidedBy
    <3> QED BY <1>4, <2>1, <3>6 DEF DecideFinish
  <2> QED BY <2>2, <2>3
<1>5. ASSUME Interrupted(t) PROVE Moved
  BY <1>0, <1>5, <1>b DEF Interrupted, Undecided
<1>6. ASSUME NEW form \in Forms, DecideStart(t, form) PROVE Moved
  <2>1. StartedNow
    BY <1>6, StartedFirst DEF DecideStart
  <2>2. row.revision = 1
    BY <1>6, <2>1 DEF DecideStart, StartedNow
  <2> QED BY <1>6, <1>b, <2>1, <2>2 DEF DecideStart
<1> QED BY <1>1, <1>2, <1>3, <1>4, <1>5, <1>6 DEF VerdictStep

\* It keeps the invariant.
LEMMA VerdictKeeps ==
  ASSUME IInv, NEW t \in Tabs, VerdictStep(t)
  PROVE  IInv'
<1>1. /\ UNCHANGED <<claim, issued>>
      /\ TabMoves(t)
      /\ Undecided \/ StartedNow \/ DecidedBy(t)
  BY VerdictMoves
<1>2. IInv /\ tab \in [Tabs -> Screens]
  BY ReviewIsItsFields
<1>3. PICK deciding \in Forms \cup {"no"}, revision \in 1..3 :
        /\ tab' = [tab EXCEPT ![t] = [tab[t] EXCEPT !.revision = revision, !.deciding = deciding]]
        /\ deciding # "no" => StartedNow /\ revision = 1
  BY <1>1 DEF TabMoves
<1>4. [tab[t] EXCEPT !.revision = revision, !.deciding = deciding] \in Screens
  BY <1>2 DEF Screens
<1>5. /\ review' \in [status : {"ASSIGNED", "IN_REVIEW", "FINALIZED"}, revision : 1..3]
      /\ evaluations' \in Seq(Tabs)
  <2>1. CASE Undecided
    BY <1>2, <2>1 DEF IInv, ClaimTypeOK, Undecided
  <2>2. CASE StartedNow
    BY <1>2, <2>2 DEF IInv, ClaimTypeOK, StartedNow
  <2>3. CASE DecidedBy(t)
    BY <2>3 DEF DecidedBy
  <2> QED BY <1>1, <2>1, <2>2, <2>3
<1>6. ClaimTypeOK'
  <2>1. tab' \in [Tabs -> Screens]
    BY <1>2, <1>3, <1>4
  <2> QED BY <1>1, <1>2, <1>5, <2>1 DEF IInv, ClaimTypeOK, Screens
<1>7. RevisionCountsSteps'
  BY <1>1, <1>2 DEF IInv, RevisionCountsSteps, Undecided, StartedNow, DecidedBy
<1>8. VerdictIsRecorded'
  <2>1. CASE Undecided
    BY <1>2, <2>1 DEF IInv, VerdictIsRecorded, Undecided
  <2>2. CASE StartedNow
    BY <1>2, <2>2 DEF IInv, VerdictIsRecorded, StartedNow
  <2>3. CASE DecidedBy(t)
    BY <2>3 DEF VerdictIsRecorded, DecidedBy
  <2> QED BY <1>1, <2>1, <2>2, <2>3
<1>9. \A u \in Tabs : /\ tab'[u].seenVersion = tab[u].seenVersion
                      /\ tab'[u].seenToken = tab[u].seenToken
                      /\ tab'[u] = tab[u] \/ (tab'[u].deciding = deciding /\ tab'[u].revision = revision)
  <2> TAKE u \in Tabs
  <2>1. CASE u = t
    BY <1>2, <1>3, <2>1 DEF Screens
  <2>2. CASE u # t
    <3>1. tab'[u] = tab[u]
      BY <1>2, <1>3, <2>2
    <3> QED BY <3>1
  <2> QED BY <2>1, <2>2
<1>10. ScreensAreOfThePast'
  BY <1>1, <1>2, <1>9 DEF IInv, ScreensAreOfThePast, Recorded
<1>11. DecisionsHaveStarted'
  <2>1. review.status # "ASSIGNED" => review'.status # "ASSIGNED"
    BY <1>1 DEF Undecided, StartedNow, DecidedBy
  <2>2. StartedNow => review'.status # "ASSIGNED"
    BY DEF StartedNow
  <2> QED BY <1>2, <1>3, <1>9, <2>1, <2>2 DEF IInv, DecisionsHaveStarted, Idle
<1> QED BY <1>6, <1>7, <1>8, <1>10, <1>11 DEF IInv

-----------------------------------------------------------------------------
(* Theorems. *)

\* The actions of the model are those of the claim and those of the verdict.
LEMMA StepKinds ==
  ASSUME ClaimNext
  PROVE  ClaimStep \/ \E t \in Tabs : VerdictStep(t)
  BY DEF ClaimNext, ClaimStep, VerdictStep

\* The invariant holds at the start.
LEMMA StartsRight == ClaimInit => IInv
<1> SUFFICES ASSUME ClaimInit PROVE IInv
  OBVIOUS
<1>1. (CHOOSE r \in Reviewers : TRUE) \in Reviewers
  BY OwnerAssumption DEF Reviewers
<1>2. 0 \in 0..MaxTokens /\ 1 \in 1..3 /\ 0 \in Nat
  BY TokenAssumption
<1>3. ClaimTypeOK
  BY <1>1, <1>2 DEF ClaimInit, ClaimTypeOK
<1> QED BY <1>2, <1>3 DEF ClaimInit, IInv, RevisionCountsSteps, VerdictIsRecorded,
          ScreensAreOfThePast, DecisionsHaveStarted, Idle

\* Every step keeps it.
LEMMA InvariantStep == IInv /\ [ClaimNext]_claimVars => IInv'
<1> SUFFICES ASSUME IInv, [ClaimNext]_claimVars PROVE IInv'
  OBVIOUS
<1>1. CASE ClaimNext
  BY <1>1, StepKinds, ClaimKeeps, VerdictKeeps
<1>2. CASE UNCHANGED claimVars
  BY <1>2 DEF claimVars, IInv, ClaimTypeOK, RevisionCountsSteps, VerdictIsRecorded,
       ScreensAreOfThePast, DecisionsHaveStarted, Idle, Recorded
<1> QED BY <1>1, <1>2

\* Every reachable state is well typed and has what the proofs below need: revisions that
\* count the steps of the review, screens that are never ahead of the claim.
THEOREM InductiveInvariant == ClaimSpec => []IInv
<1> QED BY StartsRight, InvariantStep, PTL DEF ClaimSpec

\* finalize_review: one verdict at most, and the Review says FINALIZED exactly when it is
\* there, however requests of several tabs meet between the two transactions of a decision.
THEOREM OneVerdictEach == ClaimSpec => []OneVerdict
<1>1. IInv => OneVerdict
  BY DEF IInv, OneVerdict, VerdictIsRecorded
<1> QED BY <1>1, InductiveInvariant, PTL

\* What VerdictIsFenced says of a step.
FencedStep ==
  evaluations' # evaluations /\ Recorded =>
    LiveClaim /\ claim.token = tab[evaluations'[Len(evaluations')]].token

\* check_write and review_decision: once there has been a claim, a verdict is written only
\* with the token of the claim that is live at that moment.
THEOREM VerdictsAreFenced == ClaimSpec => VerdictIsFenced
<1>1. IInv /\ [ClaimNext]_claimVars => [FencedStep]_claimVars
  <2> SUFFICES ASSUME IInv, ClaimNext, evaluations' # evaluations, Recorded
               PROVE  LiveClaim /\ claim.token = tab[evaluations'[Len(evaluations')]].token
    BY DEF FencedStep
  <2>1. ~ ClaimStep
    BY ClaimMoves DEF IInv
  <2>2. PICK t \in Tabs : VerdictStep(t)
    BY <2>1, StepKinds
  <2>3. DecidedBy(t)
    BY <2>2, VerdictMoves DEF Undecided, StartedNow
  <2>4. evaluations'[Len(evaluations')] = t
    BY <2>3 DEF DecidedBy
  <2> QED BY <2>3, <2>4 DEF DecidedBy
<1> QED BY <1>1, InductiveInvariant, PTL DEF ClaimSpec, VerdictIsFenced, FencedStep

\* What ForceReleasesWhatWasSeen says of a step.
SeenStep ==
  \A t \in Tabs :
    ForceRelease(t) /\ claim.live /\ claim.owner # Owner[t] => claim.token = tab[t].seenToken

\* force_release: a live claim is forced open only by a tab that shows this very claim.
THEOREM ForcedAfterSeen == ClaimSpec => ForceReleasesWhatWasSeen
<1>1. IInv => SeenStep
  <2> SUFFICES ASSUME IInv, NEW t \in Tabs, ForceRelease(t), claim.live
               PROVE  claim.token = tab[t].seenToken
    BY DEF SeenStep
  <2>1. Recorded
    BY DEF IInv, ScreensAreOfThePast
  <2>2. tab[t].seenVersion = claim.version
    BY <2>1 DEF ForceRelease, Releasable
  <2> QED BY <2>2 DEF IInv, ScreensAreOfThePast
<1>2. IInv /\ [ClaimNext]_claimVars => [SeenStep]_claimVars
  BY <1>1
<1> QED BY <1>2, InductiveInvariant, PTL DEF ClaimSpec, ForceReleasesWhatWasSeen, SeenStep

-----------------------------------------------------------------------------
(* Sums.  Nothing here instantiates an operator: a claim about all finite   *)
(* sets is proved from the smallest set that would break it.                *)

\* Of the sets that break a claim there is one whose parts do not.
LEMMA SmallestSet ==
  ASSUME NEW V, IsFiniteSet(V), NEW Bad \in SUBSET SUBSET V, Bad # {}
  PROVE  \E S \in Bad : \A T \in SUBSET S : T # S => T \notin Bad
<1>1. IsWellFoundedOn(StrictSubsetOrdering(V), SUBSET V)
  BY FS_StrictSubsetOrderingWellFounded, FS_FiniteSubsetsOfFinite
<1>2. PICK S \in Bad : \A T \in Bad : ~ (<<T, S>> \in StrictSubsetOrdering(V))
  BY <1>1, WFMin
<1>3. ASSUME NEW T \in SUBSET S, T # S, T \in Bad PROVE FALSE
  <2>1. <<T, S>> \in (SUBSET V) \X (SUBSET V)
    BY <1>3
  <2>2. <<T, S>> \in StrictSubsetOrdering(V)
    BY <2>1, <1>3 DEF StrictSubsetOrdering
  <2> QED BY <1>2, <1>3, <2>2
<1> QED BY <1>3

\* Of the numbers that break a claim there is a first.
LEMMA SmallestNumber ==
  ASSUME NEW Bad \in SUBSET Nat, Bad # {}
  PROVE  \E n \in Bad : \A m \in Nat : m < n => m \notin Bad
<1>1. PICK n \in Bad : \A m \in Bad : ~ (<<m, n>> \in OpToRel(<, Nat))
  BY NatLessThanWellFounded, WFMin
<1>2. ASSUME NEW m \in Nat, m < n, m \in Bad PROVE FALSE
  <2>1. <<m, n>> \in Nat \X Nat
    BY <1>2
  <2>2. <<m, n>> \in OpToRel(<, Nat)
    BY <2>1, <1>2 DEF OpToRel
  <2> QED BY <1>1, <1>2, <2>2
<1> QED BY <1>2

\* The member that Total takes first.
First(S) == CHOOSE v \in S : TRUE

\* What Total does with a set, from the totals of its parts.
Step(sum, S, worth) == IF S = {} THEN 0 ELSE worth[First(S)] + sum[S \ {First(S)}]

\* The totals of all the parts of V.
Sums(V, worth) == {sum \in [SUBSET V -> Nat] : \A S \in SUBSET V : sum[S] = Step(sum, S, worth)}

\* The first member is one.
LEMMA FirstIsOne == ASSUME NEW S, S # {} PROVE First(S) \in S
BY DEF First

\* The totals of the parts of a finite set exist.
LEMMA SumsExist ==
  ASSUME NEW V, IsFiniteSet(V), NEW worth, \A v \in V : worth[v] \in Nat
  PROVE  Sums(V, worth) # {}
<1> DEFINE Good(sum, n) == \A S \in SUBSET V : Cardinality(S) <= n => sum[S] = Step(sum, S, worth)
           Bad == {n \in Nat : \A sum \in [SUBSET V -> Nat] : ~ Good(sum, n)}
<1>1. \A S \in SUBSET V : IsFiniteSet(S) /\ Cardinality(S) \in Nat
  BY FS_Subset, FS_CardinalityType
<1>2. ASSUME Bad # {} PROVE FALSE
  <2>1. PICK n \in Bad : \A m \in Nat : m < n => m \notin Bad
    <3>1. Bad \in SUBSET Nat
      OBVIOUS
    <3> HIDE DEF Bad
    <3> QED BY <1>2, <3>1, SmallestNumber
  <2>2. CASE n = 0
    <3> DEFINE none == [S \in SUBSET V |-> 0]
    <3>1. none \in [SUBSET V -> Nat]
      OBVIOUS
    <3>2. ASSUME NEW S \in SUBSET V, Cardinality(S) <= 0 PROVE none[S] = Step(none, S, worth)
      <4>1. S = {}
        BY <1>1, <3>2, FS_EmptySet
      <4> QED BY <4>1 DEF Step
    <3>3. Good(none, n)
      BY <2>2, <3>2
    <3> QED BY <2>1, <3>1, <3>3
  <2>3. CASE n # 0
    <3>1. n - 1 \in Nat /\ n - 1 < n
      BY <2>1, <2>3
    <3>2. PICK sum \in [SUBSET V -> Nat] : Good(sum, n - 1)
      BY <2>1, <3>1
    <3> DEFINE more == [S \in SUBSET V |-> IF Cardinality(S) <= n - 1 THEN sum[S]
                                           ELSE Step(sum, S, worth)]
    <3>3. ASSUME NEW S \in SUBSET V, S # {}
          PROVE  /\ First(S) \in V /\ S \ {First(S)} \in SUBSET V
                 /\ Cardinality(S \ {First(S)}) = Cardinality(S) - 1
      BY <1>1, <3>3, FirstIsOne, FS_RemoveElement
    <3>4. ASSUME NEW S \in SUBSET V PROVE Step(sum, S, worth) \in Nat
      <4>1. CASE S = {}
        BY <4>1 DEF Step
      <4>2. CASE S # {}
        <5>1. worth[First(S)] \in Nat /\ sum[S \ {First(S)}] \in Nat
          BY <3>3, <4>2
        <5>2. Step(sum, S, worth) = worth[First(S)] + sum[S \ {First(S)}]
          BY <4>2 DEF Step
        <5> QED BY <5>1, <5>2
      <4> QED BY <4>1, <4>2
    <3>5. more \in [SUBSET V -> Nat]
      BY <3>4
    <3>6. ASSUME NEW S \in SUBSET V, Cardinality(S) <= n PROVE more[S] = Step(more, S, worth)
      <4>1. more[S] = Step(sum, S, worth)
        BY <3>2
      <4>2. CASE S = {}
        BY <4>1, <4>2 DEF Step
      <4>3. CASE S # {}
        <5>1. Cardinality(S \ {First(S)}) <= n - 1
          BY <1>1, <2>1, <3>3, <3>6, <4>3
        <5>2. more[S \ {First(S)}] = sum[S \ {First(S)}]
          BY <3>3, <4>3, <5>1
        <5> HIDE DEF more
        <5> QED BY <4>1, <4>3, <5>2 DEF Step
      <4> QED BY <4>2, <4>3
    <3>7. Good(more, n)
      <4> HIDE DEF more
      <4> QED BY <3>6
    <3> QED
      <4> HIDE DEF more, Good
      <4> QED BY <2>1, <3>5, <3>7
  <2> QED BY <2>2, <2>3
<1>3. PICK sum \in [SUBSET V -> Nat] : Good(sum, Cardinality(V))
  BY <1>1, <1>2
<1>4. \A S \in SUBSET V : Cardinality(S) <= Cardinality(V)
  BY FS_Subset
<1> QED BY <1>3, <1>4 DEF Sums
\* What two sums say of a set that both know is the same, if its members are worth the same.
LEMMA SumsAgree ==
  ASSUME NEW V, IsFiniteSet(V), NEW W, NEW worth, NEW other,
         NEW f \in Sums(V, worth), NEW g \in Sums(W, other),
         NEW X \in SUBSET V, X \in SUBSET W, \A v \in X : worth[v] = other[v]
  PROVE  f[X] = g[X]
<1> DEFINE Bad == {S \in SUBSET X : f[S] # g[S]}
<1>1. ASSUME Bad # {} PROVE FALSE
  <2>1. PICK S \in Bad : \A T \in SUBSET S : T # S => T \notin Bad
    <3>1. IsFiniteSet(X) /\ Bad \in SUBSET SUBSET X
      BY FS_Subset
    <3> HIDE DEF Bad
    <3> QED BY <1>1, <3>1, SmallestSet
  <2>2. /\ S \in SUBSET V /\ S \in SUBSET W
        /\ f[S] = Step(f, S, worth) /\ g[S] = Step(g, S, other)
    BY DEF Sums
  <2>3. S # {}
    BY <2>2 DEF Step
  <2>4. /\ First(S) \in X /\ S \ {First(S)} \in SUBSET X /\ S \ {First(S)} \in SUBSET S
        /\ S \ {First(S)} # S
    BY <2>3, FirstIsOne
  <2>5. f[S \ {First(S)}] = g[S \ {First(S)}]
    BY <2>1, <2>4
  <2>6. f[S] = g[S]
    BY <2>2, <2>3, <2>4, <2>5 DEF Step
  <2> QED BY <2>6
<1> QED BY <1>1

\* Which member is taken first makes no difference.
LEMMA SumOfOneMore ==
  ASSUME NEW V, IsFiniteSet(V), NEW worth, \A v \in V : worth[v] \in Nat,
         NEW f \in Sums(V, worth), NEW X \in SUBSET V, NEW x \in X
  PROVE  f[X] = worth[x] + f[X \ {x}]
<1> DEFINE Bad == {S \in SUBSET X : \E y \in S : f[S] # worth[y] + f[S \ {y}]}
<1>1. /\ IsFiniteSet(X) /\ Bad \in SUBSET SUBSET X
      /\ \A S \in SUBSET V : f[S] \in Nat
      /\ \A S \in SUBSET V : S # {} => f[S] = worth[First(S)] + f[S \ {First(S)}]
  BY FS_Subset DEF Sums, Step
<1>2. ASSUME Bad # {} PROVE FALSE
  <2>1. PICK S \in Bad : \A T \in SUBSET S : T # S => T \notin Bad
    <3> HIDE DEF Bad
    <3> QED BY <1>1, <1>2, SmallestSet
  <2>2. PICK y \in S : f[S] # worth[y] + f[S \ {y}]
    OBVIOUS
  <2> DEFINE v == First(S)
  <2>3. S \in SUBSET V /\ v \in S
    BY <2>2, FirstIsOne
  <2> HIDE DEF v
  <2>4. f[S] = worth[v] + f[S \ {v}]
    BY <1>1, <2>3 DEF v
  <2>5. v # y
    BY <2>2, <2>4
  <2>6. f[S \ {v}] = worth[y] + f[(S \ {v}) \ {y}]
    <3>1. S \ {v} \in SUBSET S /\ S \ {v} # S /\ y \in S \ {v} /\ S \ {v} \in SUBSET X
      BY <2>2, <2>3, <2>5
    <3> QED BY <2>1, <3>1
  <2>7. f[S \ {y}] = worth[v] + f[(S \ {y}) \ {v}]
    <3>1. S \ {y} \in SUBSET S /\ S \ {y} # S /\ v \in S \ {y} /\ S \ {y} \in SUBSET X
      BY <2>2, <2>3, <2>5
    <3> QED BY <2>1, <3>1
  <2>8. (S \ {y}) \ {v} = (S \ {v}) \ {y}
    OBVIOUS
  <2>9. /\ worth[v] \in Nat /\ worth[y] \in Nat /\ f[(S \ {v}) \ {y}] \in Nat
        /\ f[S \ {v}] \in Nat /\ f[S \ {y}] \in Nat
    BY <1>1, <2>2, <2>3
  <2>10. f[S] = worth[y] + (worth[v] + f[(S \ {v}) \ {y}])
    <3> HIDE DEF Bad
    <3> QED BY <2>4, <2>6, <2>9
  <2>11. f[S \ {y}] = worth[v] + f[(S \ {v}) \ {y}]
    BY <2>7, <2>8
  <2> QED BY <2>2, <2>10, <2>11
<1> QED BY <1>2

\* What Total computes is the sum of the whole set.
LEMMA TotalIsTheSum ==
  ASSUME NEW V, IsFiniteSet(V), NEW worth, \A v \in V : worth[v] \in Nat
  PROVE  \E f \in Sums(V, worth) : Total(V, worth) = f[V]
<1> DEFINE Defines(sum) ==
      sum = [S \in SUBSET V |-> IF S = {} THEN 0
               ELSE LET v == CHOOSE v \in S : TRUE IN worth[v] + sum[S \ {v}]]
           sum == CHOOSE sum : Defines(sum)
<1>1. Total(V, worth) = sum[V]
  BY DEF Total
<1>2. PICK f \in Sums(V, worth) : TRUE
  BY SumsExist
<1>3. Defines(f)
  <2>1. f = [S \in SUBSET V |-> Step(f, S, worth)]
    BY DEF Sums
  <2> QED BY <2>1 DEF Step, First
<1>4. Defines(sum)
  <2> HIDE DEF Defines
  <2> QED BY <1>3
<1>5. sum = [S \in SUBSET V |-> Step(sum, S, worth)]
  BY <1>4 DEF Step, First
<1>6. PICK h : h = sum
  OBVIOUS
<1> HIDE DEF sum
<1>7. h \in Sums(V, worth)
  <2>1. h = [S \in SUBSET V |-> Step(h, S, worth)]
    BY <1>5, <1>6
  <2>2. \A S \in SUBSET V : h[S] = Step(h, S, worth)
    BY <2>1
  <2> DEFINE Bad == {S \in SUBSET V : h[S] \notin Nat}
  <2>3. ASSUME Bad # {} PROVE FALSE
    <3>1. PICK S \in Bad : \A T \in SUBSET S : T # S => T \notin Bad
      <4>1. Bad \in SUBSET SUBSET V
        OBVIOUS
      <4> HIDE DEF Bad
      <4> QED BY <2>3, <4>1, SmallestSet
    <3>2. S # {}
      <4>1. S \in SUBSET V /\ h[S] \notin Nat /\ h[S] = Step(h, S, worth)
        BY <2>2, <3>1
      <4>2. S = {} => Step(h, S, worth) = 0
        BY DEF Step
      <4> QED BY <4>1, <4>2
    <3>3. /\ First(S) \in V /\ S \ {First(S)} \in SUBSET S /\ S \ {First(S)} # S
          /\ S \ {First(S)} \in SUBSET V
      BY <3>2, FirstIsOne
    <3>4. worth[First(S)] \in Nat /\ h[S \ {First(S)}] \in Nat
      BY <3>1, <3>3
    <3>5. h[S] = worth[First(S)] + h[S \ {First(S)}]
      BY <2>2, <3>2 DEF Step
    <3> QED BY <3>4, <3>5
  <2>4. \A S \in SUBSET V : h[S] \in Nat
    BY <2>3
  <2>5. h \in [SUBSET V -> Nat]
    BY <2>1, <2>4
  <2> QED BY <2>2, <2>5 DEF Sums
<1> QED BY <1>1, <1>6, <1>7

\* What Total says is fixed by the worth of the members, and is a number.
LEMMA TotalAgrees ==
  ASSUME NEW V, IsFiniteSet(V), NEW worth, NEW other,
         \A v \in V : worth[v] \in Nat /\ other[v] = worth[v]
  PROVE  Total(V, worth) \in Nat /\ Total(V, other) = Total(V, worth)
<1>1. PICK f \in Sums(V, worth) : Total(V, worth) = f[V]
  BY TotalIsTheSum
<1>2. PICK g \in Sums(V, other) : Total(V, other) = g[V]
  BY TotalIsTheSum
<1>3. f[V] = g[V]
  <2>1. V \in SUBSET V /\ \A v \in V : worth[v] = other[v]
    OBVIOUS
  <2> QED BY <2>1, SumsAgree
<1>4. f[V] \in Nat
  BY DEF Sums
<1> QED BY <1>1, <1>2, <1>3, <1>4

\* One member more adds what it is worth; nothing is worth nothing.
LEMMA TotalOfOneMore ==
  ASSUME NEW V, IsFiniteSet(V), NEW x, x \notin V, NEW worth,
         \A v \in V \cup {x} : worth[v] \in Nat
  PROVE  Total(V \cup {x}, worth) = worth[x] + Total(V, worth)
<1> DEFINE W == V \cup {x}
<1>1. IsFiniteSet(W) /\ V \in SUBSET W /\ x \in W /\ W \ {x} = V
  BY FS_AddElement
<1> HIDE DEF W
<1>2. PICK f \in Sums(W, worth) : Total(W, worth) = f[W]
  BY <1>1, TotalIsTheSum DEF W
<1>3. PICK g \in Sums(V, worth) : Total(V, worth) = g[V]
  BY TotalIsTheSum DEF W
<1>4. f[W] = worth[x] + f[W \ {x}]
  <2>1. W \in SUBSET W /\ \A v \in W : worth[v] \in Nat
    BY DEF W
  <2> QED BY <1>1, <2>1, SumOfOneMore
<1>5. f[V] = g[V]
  <2>1. V \in SUBSET V /\ \A v \in V : worth[v] = worth[v]
    OBVIOUS
  <2> QED BY <1>1, <2>1, SumsAgree
<1> QED BY <1>1, <1>2, <1>3, <1>4, <1>5 DEF W

\* Of no members the total is 0.
LEMMA TotalOfNothing == ASSUME NEW worth PROVE Total({}, worth) = 0
<1>1. PICK f \in Sums({}, worth) : Total({}, worth) = f[{}]
  BY TotalIsTheSum, FS_EmptySet
<1> QED BY <1>1 DEF Sums, Step

-----------------------------------------------------------------------------
(* Points. *)

\* A learner never has two redemptions under way.
OnePurchaseEach ==
  \A q, r \in Purchases :
    /\ purchases[q] # NoPurchase /\ purchases[r] # NoPurchase
    /\ purchases[q].learner = purchases[r].learner
    => q = r

\* The redemption that has locked its medal.
Paying(q) == purchases[q] # NoPurchase /\ purchases[q].stage = "PAYABLE"

\* A medal is locked by one redemption.
OnePaymentEach ==
  \A q, r \in Purchases : Paying(q) /\ Paying(r) /\ purchases[q].medal = purchases[r].medal => q = r

\* Nobody redeems a medal a second time.
NotYetRedeemed ==
  \A q \in Purchases : \A r \in redemptions :
    purchases[q] # NoPurchase => r.learner # purchases[q].learner \/ r.medal # purchases[q].medal

\* What was read before a redemption is paid is still true when it is.
StillPayable ==
  \A q \in Purchases : \A l \in Learners : Paying(q) /\ purchases[q].learner = l =>
    /\ medals[purchases[q].medal].stock # 0
    /\ Earned(l) >= Spent(l) + medals[purchases[q].medal].price

\* A page that shows the medal's revision shows the medal.
PagesAreOfThePast ==
  \A m \in Medals : /\ page[m].revision <= medals[m].revision
                    /\ page[m].revision = medals[m].revision => page[m] = medals[m]

\* The guild's row is held by one verdict at a time.
OneVerdictAtATime == \A v, w \in verdicts : v = w

\* A credit that is about to be written is for the first completion.
CreditIsForTheFirst == \A v \in verdicts : v.credit # 0 => PassesOf(v.learner, v.task) = {}

\* What holds of the shop.
ShopInv ==
  /\ IsFiniteSet(redemptions)
  /\ OnePurchaseEach /\ OnePaymentEach
  /\ NotYetRedeemed /\ StillPayable
  /\ PagesAreOfThePast
  /\ WalletAndStockBalance

\* What holds of the guild.
GuildInv == OneVerdictAtATime /\ CreditIsForTheFirst /\ FirstCompletionIsCredited

\* The inductive invariant.
EconomyInv == EconomyTypeOK /\ ShopInv /\ GuildInv

\* Points are whole numbers.
LEMMA WorthIsANumber == \A w \in Worth \cup {0, 1} : w \in Nat
<1>1. Worth \subseteq Nat
  BY WorthAssumption
<1>2. \A w \in Worth : w \in Nat
  BY <1>1
<1>3. 0 \in Nat /\ 1 \in Nat
  OBVIOUS
<1> QED BY <1>2, <1>3, Zenon

\* The tasks that a learner has completed.
Completed(l) == {t \in NoviceTasks : claims[<<l, t>>].status = "COMPLETED"}

\* What they are worth: whole numbers, however many they are.
LEMMA EarnedIsANumber ==
  ASSUME EconomyTypeOK, NEW l \in Learners
  PROVE  /\ Earned(l) \in Nat /\ Earned(l) = Total(Completed(l), [t \in NoviceTasks |-> claims[<<l, t>>].worth])
         /\ IsFiniteSet(Completed(l))
         /\ \A t \in NoviceTasks : claims[<<l, t>>].worth \in Nat
<1>1. IsFiniteSet(Completed(l))
  BY FiniteAssumption, FS_Subset DEF Completed
<1>2. \A t \in NoviceTasks : claims[<<l, t>>].worth \in Nat
  <2> SUFFICES ASSUME NEW t \in NoviceTasks PROVE claims[<<l, t>>].worth \in Nat
    OBVIOUS
  <2>1. claims[<<l, t>>].worth \in Worth \cup {0}
    BY DEF EconomyTypeOK
  <2> QED BY <2>1, WorthIsANumber
<1>3. Earned(l) = Total(Completed(l), [t \in NoviceTasks |-> claims[<<l, t>>].worth])
  BY DEF Earned, Completed
<1>4. \A t \in Completed(l) : [s \in NoviceTasks |-> claims[<<l, s>>].worth][t] \in Nat
  BY <1>2 DEF Completed
<1> QED BY <1>1, <1>2, <1>3, <1>4, TotalAgrees

\* The redemptions of a learner.
PaidBy(l) == {r \in redemptions : r.learner = l}

\* What he paid for them.
LEMMA SpentIsANumber ==
  ASSUME EconomyTypeOK, IsFiniteSet(redemptions), NEW l \in Learners
  PROVE  /\ Spent(l) \in Nat /\ Spent(l) = Total(PaidBy(l), [r \in redemptions |-> r.price])
         /\ IsFiniteSet(PaidBy(l))
         /\ \A r \in redemptions : r.price \in Nat
<1>1. IsFiniteSet(PaidBy(l))
  BY FS_Subset DEF PaidBy
<1>2. \A r \in redemptions : r.price \in Nat
  <2> SUFFICES ASSUME NEW r \in redemptions PROVE r.price \in Nat
    OBVIOUS
  <2>1. r.price \in Worth \cup {1}
    BY DEF EconomyTypeOK, Redemption
  <2> QED BY <2>1, WorthIsANumber
<1>3. Spent(l) = Total(PaidBy(l), [r \in redemptions |-> r.price])
  BY DEF Spent, PaidBy
<1>4. \A r \in PaidBy(l) : [s \in redemptions |-> s.price][r] \in Nat
  BY <1>2 DEF PaidBy
<1> QED BY <1>1, <1>2, <1>3, <1>4, TotalAgrees

\* What is earned never shrinks: tasks get completed, and a completed one keeps its worth.
LEMMA EarnedGrows ==
  ASSUME EconomyTypeOK, EconomyTypeOK', NEW l \in Learners,
         \A t \in Completed(l) : claims'[<<l, t>>].worth = claims[<<l, t>>].worth,
         \/ Completed(l)' = Completed(l)
         \/ \E t \in NoviceTasks : Completed(l)' = Completed(l) \cup {t}
  PROVE  Earned(l) \in Nat /\ Earned(l)' \in Nat /\ Earned(l)' >= Earned(l)
<1> DEFINE before == Completed(l)
           after == Completed(l)'
           worth == [t \in NoviceTasks |-> claims[<<l, t>>].worth]
           now == [t \in NoviceTasks |-> claims'[<<l, t>>].worth]
<1>1. /\ Earned(l) = Total(before, worth) /\ Earned(l) \in Nat /\ IsFiniteSet(before)
      /\ \A t \in before : worth[t] \in Nat /\ now[t] = worth[t]
  <2>1. \A t \in before : t \in NoviceTasks
    BY DEF Completed
  <2> QED BY <2>1, EarnedIsANumber
<1>2. Earned(l)' = Total(after, now) /\ \A t \in NoviceTasks : now[t] \in Nat
  <2>1. Earned(l)' = Total(after, now)
    BY DEF Earned, Completed
  <2>2. \A t \in NoviceTasks : claims'[<<l, t>>].worth \in Worth \cup {0}
    BY DEF EconomyTypeOK
  <2> QED BY <2>1, <2>2, WorthIsANumber
<1>3. after = before \/ \E t \in NoviceTasks : after = before \cup {t}
  OBVIOUS
<1> HIDE DEF before, after, worth, now
<1>4. Total(before, worth) \in Nat /\ Total(before, now) = Total(before, worth)
  BY <1>1, TotalAgrees
<1>5. CASE after = before
  BY <1>1, <1>2, <1>4, <1>5
<1>6. ASSUME NEW t \in NoviceTasks, after = before \cup {t}, t \notin before
      PROVE  Earned(l)' \in Nat /\ Earned(l)' >= Earned(l)
  <2>1. Total(after, now) = now[t] + Total(before, now)
    <3>1. \A s \in before \cup {t} : now[s] \in Nat
      BY <1>1, <1>2
    <3> QED BY <1>1, <1>6, <3>1, TotalOfOneMore
  <2> QED BY <1>1, <1>2, <1>4, <1>6, <2>1
<1> QED BY <1>1, <1>3, <1>5, <1>6

\* Nothing is earned or spent by a step that completes no task and redeems no medal.
LEMMA NothingSpent ==
  ASSUME redemptions' = redemptions, NEW l
  PROVE  Spent(l)' = Spent(l)
BY DEF Spent

\* Nothing is earned.
LEMMA NothingEarned ==
  ASSUME claims' = claims, NEW l
  PROVE  Earned(l)' = Earned(l)
BY DEF Earned

\* A redemption is paid for by the one who redeems, and costs what the medal costs.
LEMMA RedeemSpends ==
  ASSUME EconomyTypeOK, IsFiniteSet(redemptions), NotYetRedeemed,
         NEW q \in Purchases, Redeem(q), NEW l \in Learners
  PROVE  /\ IsFiniteSet(redemptions') /\ Spent(l) \in Nat
         /\ Spent(l)' = Spent(l) + (IF l = purchases[q].learner
                                    THEN medals[purchases[q].medal].price ELSE 0)
         /\ medals[purchases[q].medal].price \in Nat
<1> DEFINE new == [learner |-> purchases[q].learner, medal |-> purchases[q].medal,
                   price |-> medals[purchases[q].medal].price]
           before == PaidBy(l)
           after == PaidBy(l)'
           price == [r \in redemptions |-> r.price]
           now == [r \in redemptions' |-> r.price]
<1>1. /\ purchases[q].learner \in Learners /\ purchases[q].medal \in Medals
      /\ medals[purchases[q].medal].price \in Nat
  <2>1. purchases[q] \in Purchase
    BY DEF Redeem, EconomyTypeOK
  <2>2. medals[purchases[q].medal].price \in Worth \cup {1}
    BY <2>1 DEF EconomyTypeOK, Purchase, Medal
  <2> QED BY <2>1, <2>2, WorthIsANumber DEF Purchase
<1>2. redemptions' = redemptions \cup {new} /\ new \notin redemptions
  BY DEF Redeem, NotYetRedeemed
<1>3. new.learner = purchases[q].learner /\ new.price = medals[purchases[q].medal].price
  OBVIOUS
<1> HIDE DEF new
<1>4. /\ Spent(l) = Total(before, price) /\ Spent(l) \in Nat /\ IsFiniteSet(before)
      /\ \A r \in redemptions : r.price \in Nat
      /\ \A r \in before : price[r] \in Nat /\ now[r] = price[r]
  <2>1. \A r \in before : r \in redemptions /\ r \in redemptions'
    BY <1>2 DEF PaidBy
  <2> QED BY <2>1, SpentIsANumber
<1>5. Spent(l)' = Total(after, now)
  BY DEF Spent, PaidBy
<1>6. after = IF l = purchases[q].learner THEN before \cup {new} ELSE before
  BY <1>2, <1>3 DEF PaidBy
<1>7. now[new] = medals[purchases[q].medal].price /\ new \notin before
  BY <1>2, <1>3 DEF PaidBy
<1> HIDE DEF before, after, price, now
<1>8. Total(before, price) \in Nat /\ Total(before, now) = Total(before, price)
  BY <1>4, TotalAgrees
<1>9. Total(before \cup {new}, now) = now[new] + Total(before, now)
  <2>1. \A r \in before \cup {new} : now[r] \in Nat
    BY <1>1, <1>4, <1>7
  <2> QED BY <1>4, <1>7, <2>1, TotalOfOneMore
<1>10. IsFiniteSet(redemptions')
  BY <1>2, FS_AddElement
<1> QED BY <1>1, <1>4, <1>5, <1>6, <1>7, <1>8, <1>9, <1>10

\* One more of the medal is sold.
LEMMA RedeemSells ==
  ASSUME EconomyTypeOK, IsFiniteSet(redemptions), NotYetRedeemed,
         NEW q \in Purchases, Redeem(q), NEW m \in Medals
  PROVE  /\ Sold(m) \in Nat
         /\ Sold(m)' = Sold(m) + (IF m = purchases[q].medal THEN 1 ELSE 0)
<1> DEFINE new == [learner |-> purchases[q].learner, medal |-> purchases[q].medal,
                   price |-> medals[purchases[q].medal].price]
           before == {r \in redemptions : r.medal = m}
           after == {r \in redemptions' : r.medal = m}
<1>1. redemptions' = redemptions \cup {new} /\ new \notin redemptions /\ new.medal = purchases[q].medal
  BY DEF Redeem, NotYetRedeemed
<1>2. Sold(m) = Cardinality(before) /\ Sold(m)' = Cardinality(after)
  BY DEF Sold
<1>3. IsFiniteSet(before) /\ Cardinality(before) \in Nat
  BY FS_Subset, FS_CardinalityType
<1> HIDE DEF new
<1>4. after = (IF m = purchases[q].medal THEN before \cup {new} ELSE before) /\ new \notin before
  BY <1>1
<1> HIDE DEF before, after
<1>5. Cardinality(before \cup {new}) = Cardinality(before) + 1
  BY <1>3, <1>4, FS_AddElement
<1> QED BY <1>2, <1>3, <1>4, <1>5

-----------------------------------------------------------------------------
(* Types. *)

\* A redemption under way is of a learner and a medal.
LEMMA UnderWay ==
  ASSUME EconomyTypeOK, NEW q \in Purchases, purchases[q] # NoPurchase
  PROVE  /\ purchases[q] \in Purchase
         /\ purchases[q].learner \in Learners /\ purchases[q].medal \in Medals
         /\ purchases[q].stage \in {"LEARNER_LOCKED", "PAYABLE"} /\ purchases[q].seen \in Nat
BY DEF EconomyTypeOK, Purchase

\* The stock of a medal that is redeemed is counted down, never below none.
LEMMA RedeemTyped ==
  ASSUME EconomyInv, NEW q \in Purchases, Redeem(q)
  PROVE  EconomyTypeOK'
<1>1. purchases[q] # NoPurchase /\ Paying(q)
  BY DEF Redeem, Paying
<1> DEFINE m == purchases[q].medal
           new == [learner |-> purchases[q].learner, medal |-> m, price |-> medals[m].price]
           row == IF medals[m].stock = Unlimited THEN medals[m]
                  ELSE [medals[m] EXCEPT !.stock = medals[m].stock - 1,
                                         !.revision = medals[m].revision + 1]
<1>2. m \in Medals /\ purchases[q].learner \in Learners
  BY <1>1, UnderWay DEF EconomyInv, ShopInv
<1>3. /\ redemptions' = redemptions \cup {new} /\ medals' = [medals EXCEPT ![m] = row]
      /\ purchases' = [purchases EXCEPT ![q] = NoPurchase]
      /\ UNCHANGED <<offers, claims, page, supplied, rules, verdicts, record>>
  <2>1. medals' = [medals EXCEPT ![m] = row]
    BY DEF Redeem
  <2>2. redemptions' = redemptions \cup {new}
    BY DEF Redeem
  <2> QED BY <2>1, <2>2 DEF Redeem, guild
<1>4. medals[m] \in Medal /\ medals[m].stock # 0
  BY <1>1, <1>2 DEF EconomyInv, ShopInv, StillPayable, EconomyTypeOK
<1>5. new \in Redemption
  BY <1>2, <1>4 DEF Redemption, Medal
<1>6. row \in Medal
  <2>1. CASE medals[m].stock = Unlimited
    BY <1>4, <2>1
  <2>2. CASE medals[m].stock # Unlimited
    <3>1. medals[m].stock \in Nat /\ medals[m].revision \in Nat
      BY <1>4, <2>2 DEF Medal
    <3>2. medals[m].stock - 1 \in Nat /\ medals[m].revision + 1 \in Nat
      BY <1>4, <3>1
    <3> DEFINE left == medals[m].stock - 1
               next == medals[m].revision + 1
    <3>3. left \in Nat \cup {Unlimited} /\ next \in Nat
      BY <3>2
    <3> HIDE DEF left, next
    <3>4. [medals[m] EXCEPT !.stock = left, !.revision = next] \in Medal
      BY <1>4, <3>3 DEF Medal
    <3> QED BY <2>2, <3>4 DEF left, next
  <2> QED BY <2>1, <2>2
<1> HIDE DEF m, new, row
<1>7. medals' \in [Medals -> Medal] /\ redemptions' \subseteq Redemption
  BY <1>3, <1>5, <1>6 DEF EconomyInv, ShopInv, EconomyTypeOK
<1>8. purchases' \in [Purchases -> Purchase \cup {NoPurchase}]
  BY <1>3 DEF EconomyInv, ShopInv, EconomyTypeOK
<1> QED BY <1>3, <1>7, <1>8 DEF EconomyInv, ShopInv, EconomyTypeOK

\* A redemption that locks its rows.
LEMMA LocksTyped ==
  ASSUME EconomyInv, NEW q \in Purchases,
         \/ \E l \in Learners, m \in Medals : RedeemLocksLearner(q, l, m)
         \/ RedeemLocksMedal(q)
  PROVE  EconomyTypeOK'
<1>1. PICK row : /\ purchases' = [purchases EXCEPT ![q] = row]
                 /\ row \in Purchase \cup {NoPurchase}
  <2>1. ASSUME NEW l \in Learners, NEW m \in Medals, RedeemLocksLearner(q, l, m)
        PROVE  [stage |-> "LEARNER_LOCKED", learner |-> l, medal |-> m,
                seen |-> medals[m].revision] \in Purchase
    BY <2>1 DEF EconomyInv, ShopInv, EconomyTypeOK, Purchase, Medal
  <2>2. ASSUME RedeemLocksMedal(q)
        PROVE  [purchases[q] EXCEPT !.stage = "PAYABLE"] \in Purchase
    <3>1. purchases[q] \in Purchase
      BY <2>2, UnderWay DEF RedeemLocksMedal, EconomyInv, ShopInv
    <3> QED BY <3>1 DEF Purchase
  <2> QED BY <2>1, <2>2 DEF RedeemLocksLearner, RedeemLocksMedal
<1>2. purchases' \in [Purchases -> Purchase \cup {NoPurchase}]
  BY <1>1 DEF EconomyInv, ShopInv, EconomyTypeOK
<1>3. UNCHANGED <<offers, claims, medals, page, redemptions, supplied, rules, verdicts, record>>
  BY DEF RedeemLocksLearner, RedeemLocksMedal, guild
<1> QED BY <1>2, <1>3 DEF EconomyInv, ShopInv, EconomyTypeOK

\* A page that is saved under the revision it shows still shows the stock.
LEMMA SaveMoves ==
  ASSUME EconomyInv, NEW m \in Medals,
         NEW status \in {"draft", "published", "unpublished"}, NEW price \in Worth,
         NEW stock \in {page[m].stock, Unlimited} \cup
                       {IF page[m].stock = Unlimited THEN 1 ELSE page[m].stock + 1},
         SaveMedal(m, status, price, stock)
  PROVE  /\ page[m] = medals[m] /\ Sold(m) \in Nat
         /\ stock \in Nat \cup {Unlimited}
         /\ medals' = [medals EXCEPT ![m] = [status |-> status, price |-> price, stock |-> stock,
                                             revision |-> medals[m].revision + 1]]
         /\ \E goods \in Nat : /\ supplied' = [supplied EXCEPT ![m] = goods]
                               /\ stock # Unlimited => goods = stock + Sold(m)
<1>1. page[m] = medals[m] /\ medals[m] \in Medal /\ supplied[m] \in Nat
  BY DEF SaveMedal, UnderSeenRevision, EconomyInv, ShopInv, PagesAreOfThePast, EconomyTypeOK
<1>2. Sold(m) \in Nat
  BY FS_Subset, FS_CardinalityType DEF Sold, EconomyInv, ShopInv
<1>3. medals[m].stock \in Nat \cup {Unlimited} /\ page[m].stock = medals[m].stock
  BY <1>1 DEF Medal
<1>4. stock \in Nat \cup {Unlimited}
  BY <1>3
<1>5. medals[m].stock # Unlimited => medals[m].stock + Sold(m) = supplied[m]
  BY DEF EconomyInv, ShopInv, WalletAndStockBalance
<1>6. \E goods \in Nat : /\ supplied' = [supplied EXCEPT ![m] = goods]
                         /\ stock # Unlimited => goods = stock + Sold(m)
  <2> DEFINE goods == IF stock = Unlimited THEN 0
                      ELSE IF page[m].stock = Unlimited THEN Sold(m) + stock
                      ELSE supplied[m] + stock - page[m].stock
  <2>1. supplied' = [supplied EXCEPT ![m] = goods]
    BY DEF SaveMedal
  <2>2. goods \in Nat /\ (stock # Unlimited => goods = stock + Sold(m))
    BY <1>1, <1>2, <1>3, <1>4, <1>5, WorthAssumption
  <2> HIDE DEF goods
  <2> QED BY <2>1, <2>2
<1>7. medals' = [medals EXCEPT ![m] = [status |-> status, price |-> price, stock |-> stock,
                                       revision |-> medals[m].revision + 1]]
  BY DEF SaveMedal
<1> QED BY <1>1, <1>2, <1>4, <1>6, <1>7

\* What the learners and the administrators of the guild do.
LEMMA GuildTyped ==
  ASSUME EconomyInv,
         \/ \E t \in NoviceTasks : Republish(t)
         \/ \E l \in Learners, t \in NoviceTasks : ClaimNoviceTask(l, t)
         \/ ShowMedals
         \/ \E t \in NoviceTasks, points \in Worth \cup {0} : SaveRule(t, points)
         \/ \E l \in Learners, t \in NoviceTasks, way \in Ways : PassTask(l, t, way)
         \/ \E v \in verdicts : CommitVerdict(v)
         \/ UNCHANGED economyVars
  PROVE  EconomyTypeOK'
<1>1. UNCHANGED <<medals, redemptions, purchases, supplied>> /\ page' \in {page, medals}
  BY DEF Republish, ClaimNoviceTask, ShowMedals, SaveRule, PassTask, CommitVerdict, economyVars,
         shop, guild
<1>2. page' \in [Medals -> Medal]
  BY <1>1 DEF EconomyInv, ShopInv, EconomyTypeOK
<1>3. offers' \in [NoviceTasks -> Worth] /\ rules' \in [NoviceTasks -> Worth \cup {0}]
  BY DEF EconomyInv, ShopInv, EconomyTypeOK, Republish, ClaimNoviceTask, ShowMedals, SaveRule, PassTask,
         CommitVerdict, economyVars, shop, guild
<1>4. claims' \in [Learners \X NoviceTasks ->
                   [status : {"NONE", "IN_PROGRESS", "COMPLETED"}, worth : Worth \cup {0}]]
  <2>1. \/ claims' = claims
        \/ \E p \in Learners \X NoviceTasks : \E w \in Worth :
             claims' = [claims EXCEPT ![p] = [status |-> "IN_PROGRESS", worth |-> w]]
        \/ \E p \in Learners \X NoviceTasks : claims' = [claims EXCEPT ![p].status = "COMPLETED"]
    <3>1. ASSUME NEW v \in verdicts, CommitVerdict(v)
          PROVE  \/ claims' = claims
                 \/ \E p \in Learners \X NoviceTasks : claims' = [claims EXCEPT ![p].status = "COMPLETED"]
      <4>1. <<v.learner, v.task>> \in Learners \X NoviceTasks
        BY DEF EconomyInv, ShopInv, EconomyTypeOK, Verdict
      <4> QED BY <3>1, <4>1 DEF CommitVerdict
    <3>2. ASSUME NEW l \in Learners, NEW t \in NoviceTasks, ClaimNoviceTask(l, t)
          PROVE  \E p \in Learners \X NoviceTasks : \E w \in Worth :
                   claims' = [claims EXCEPT ![p] = [status |-> "IN_PROGRESS", worth |-> w]]
      <4>1. offers[t] \in Worth /\ <<l, t>> \in Learners \X NoviceTasks
        BY DEF EconomyInv, ShopInv, EconomyTypeOK
      <4> QED BY <3>2, <4>1 DEF ClaimNoviceTask
    <3> QED BY <3>1, <3>2 DEF Republish, ShowMedals, SaveRule, PassTask, economyVars
  <2>2. claims \in [Learners \X NoviceTasks ->
                    [status : {"NONE", "IN_PROGRESS", "COMPLETED"}, worth : Worth \cup {0}]]
    BY DEF EconomyInv, ShopInv, EconomyTypeOK
  <2>3. ASSUME NEW p \in Learners \X NoviceTasks, claims' = [claims EXCEPT ![p].status = "COMPLETED"]
        PROVE  claims' \in [Learners \X NoviceTasks ->
                    [status : {"NONE", "IN_PROGRESS", "COMPLETED"}, worth : Worth \cup {0}]]
    <3> DEFINE done == [claims[p] EXCEPT !.status = "COMPLETED"]
    <3>1. done \in [status : {"NONE", "IN_PROGRESS", "COMPLETED"}, worth : Worth \cup {0}]
      BY <2>2
    <3>2. claims' = [claims EXCEPT ![p] = done]
      BY <2>3
    <3> HIDE DEF done
    <3> QED BY <2>2, <3>1, <3>2
  <2>4. ASSUME NEW p \in Learners \X NoviceTasks, NEW w \in Worth,
               claims' = [claims EXCEPT ![p] = [status |-> "IN_PROGRESS", worth |-> w]]
        PROVE  claims' \in [Learners \X NoviceTasks ->
                    [status : {"NONE", "IN_PROGRESS", "COMPLETED"}, worth : Worth \cup {0}]]
    BY <2>2, <2>4
  <2>5. CASE claims' = claims
    BY <2>2, <2>5
  <2> QED BY <2>1, <2>3, <2>4, <2>5
<1>5. verdicts' \subseteq Verdict /\ record' \in Seq(Verdict)
  <2>1. ASSUME NEW l \in Learners, NEW t \in NoviceTasks, NEW way \in Ways, PassTask(l, t, way)
        PROVE  verdicts' \subseteq Verdict /\ record' = record
    BY <2>1 DEF EconomyInv, ShopInv, EconomyTypeOK, PassTask, Verdict
  <2>2. ASSUME NEW v \in verdicts, CommitVerdict(v)
        PROVE  verdicts' \subseteq Verdict /\ record' \in Seq(Verdict)
    <3>1. v \in Verdict /\ [v EXCEPT !.credit = 0] \in Verdict
      BY DEF EconomyInv, ShopInv, EconomyTypeOK, Verdict
    <3>2. PICK w \in Verdict : record' = Append(record, w)
      BY <2>2, <3>1 DEF CommitVerdict
    <3> QED BY <2>2, <3>2 DEF EconomyInv, ShopInv, EconomyTypeOK, CommitVerdict
  <2>3. ASSUME verdicts' = verdicts, record' = record
        PROVE  verdicts' \subseteq Verdict /\ record' \in Seq(Verdict)
    BY <2>3 DEF EconomyInv, ShopInv, EconomyTypeOK
  <2> QED BY <2>1, <2>2, <2>3 DEF EconomyInv, ShopInv, EconomyTypeOK, Republish, ClaimNoviceTask, ShowMedals,
               SaveRule, economyVars, guild
<1> QED BY <1>1, <1>2, <1>3, <1>4, <1>5 DEF EconomyInv, ShopInv, EconomyTypeOK

-----------------------------------------------------------------------------
(* The steps. *)

\* What is earned meanwhile, and a page that is looked at, leave the shop in order.
LEMMA ShopUndisturbed ==
  ASSUME EconomyInv, EconomyTypeOK', UNCHANGED <<medals, redemptions, purchases, supplied>>,
         page' \in {page, medals},
         \A l \in Learners : Earned(l) \in Nat /\ Earned(l)' \in Nat /\ Earned(l)' >= Earned(l)
  PROVE  ShopInv'
<1>1. OnePurchaseEach' /\ OnePaymentEach' /\ NotYetRedeemed' /\ IsFiniteSet(redemptions)'
  BY DEF EconomyInv, ShopInv, OnePurchaseEach, OnePaymentEach, NotYetRedeemed, Paying
<1>2. \A l \in Learners : Spent(l)' = Spent(l) /\ Spent(l) \in Nat
  BY NothingSpent, SpentIsANumber DEF EconomyInv, ShopInv
<1>3. \A m \in Medals : medals[m].price \in Nat /\ medals[m].revision \in Nat /\ Sold(m)' = Sold(m)
  <2> SUFFICES ASSUME NEW m \in Medals
               PROVE  medals[m].price \in Nat /\ medals[m].revision \in Nat /\ Sold(m)' = Sold(m)
    OBVIOUS
  <2>1. medals[m].price \in Worth \cup {1} /\ medals[m].revision \in Nat
    BY DEF EconomyInv, EconomyTypeOK, Medal
  <2> QED BY <2>1, WorthIsANumber DEF Sold
<1>4. StillPayable'
  <2> SUFFICES ASSUME NEW q \in Purchases, Paying(q), NEW l \in Learners, purchases[q].learner = l
               PROVE  /\ medals[purchases[q].medal].stock # 0
                      /\ Earned(l)' >= Spent(l)' + medals[purchases[q].medal].price
    BY DEF StillPayable, Paying
  <2>1. PICK m \in Medals : m = purchases[q].medal
    BY UnderWay DEF EconomyInv, Paying
  <2>2. medals[m].stock # 0 /\ Earned(l) >= Spent(l) + medals[m].price
    BY <2>1 DEF EconomyInv, ShopInv, StillPayable
  <2>3. /\ Earned(l) \in Nat /\ Earned(l)' \in Nat /\ Earned(l)' >= Earned(l)
        /\ Spent(l)' = Spent(l) /\ Spent(l) \in Nat /\ medals[m].price \in Nat
    BY <1>2, <1>3
  <2> QED BY <2>1, <2>2, <2>3
<1>5. PagesAreOfThePast'
  BY <1>3 DEF EconomyInv, ShopInv, PagesAreOfThePast
<1>6. WalletAndStockBalance'
  <2>1. \A l \in Learners : Spent(l)' <= Earned(l)'
    <3> SUFFICES ASSUME NEW l \in Learners PROVE Spent(l)' <= Earned(l)'
      OBVIOUS
    <3>1. Spent(l) <= Earned(l)
      BY DEF EconomyInv, ShopInv, WalletAndStockBalance
    <3> QED BY <1>2, <3>1
  <2>2. \A m \in Medals : medals'[m].stock # Unlimited => medals'[m].stock + Sold(m)' = supplied'[m]
    BY <1>3 DEF EconomyInv, ShopInv, WalletAndStockBalance
  <2> QED BY <2>1, <2>2 DEF WalletAndStockBalance
<1> QED BY <1>1, <1>4, <1>5, <1>6 DEF ShopInv

\* The shop is in order after a step of the learners' tasks or of the guild.
LEMMA GuildStepsKeepShop ==
  ASSUME EconomyInv, EconomyTypeOK',
         \/ \E t \in NoviceTasks : Republish(t)
         \/ \E l \in Learners, t \in NoviceTasks : ClaimNoviceTask(l, t)
         \/ ShowMedals
         \/ \E t \in NoviceTasks, points \in Worth \cup {0} : SaveRule(t, points)
         \/ \E l \in Learners, t \in NoviceTasks, way \in Ways : PassTask(l, t, way)
         \/ \E v \in verdicts : CommitVerdict(v)
         \/ UNCHANGED economyVars
  PROVE  ShopInv'
<1>1. UNCHANGED <<medals, redemptions, purchases, supplied>> /\ page' \in {page, medals}
  BY DEF Republish, ClaimNoviceTask, ShowMedals, SaveRule, PassTask, CommitVerdict, economyVars,
         shop, guild
<1>2. ASSUME NEW l \in Learners
      PROVE  Earned(l) \in Nat /\ Earned(l)' \in Nat /\ Earned(l)' >= Earned(l)
  <2>1. \/ claims' = claims
        \/ \E k \in Learners, t \in NoviceTasks : ClaimNoviceTask(k, t)
        \/ \E v \in verdicts : v.way = "novice" /\ CommitVerdict(v)
    BY DEF Republish, ShowMedals, SaveRule, PassTask, CommitVerdict, economyVars
  <2>2. claims \in [Learners \X NoviceTasks ->
                    [status : {"NONE", "IN_PROGRESS", "COMPLETED"}, worth : Worth \cup {0}]]
    BY DEF EconomyInv, EconomyTypeOK
  <2>3. CASE claims' = claims
    <3>1. /\ Completed(l)' = Completed(l)
          /\ \A t \in Completed(l) : claims'[<<l, t>>].worth = claims[<<l, t>>].worth
      BY <2>3 DEF Completed
    <3> QED BY <3>1, EarnedGrows DEF EconomyInv
  <2>4. ASSUME NEW k \in Learners, NEW t \in NoviceTasks, ClaimNoviceTask(k, t)
        PROVE  Earned(l) \in Nat /\ Earned(l)' \in Nat /\ Earned(l)' >= Earned(l)
    <3> DEFINE begun == [status |-> "IN_PROGRESS", worth |-> offers[t]]
    <3>1. claims' = [claims EXCEPT ![<<k, t>>] = begun] /\ claims[<<k, t>>].status = "NONE"
      BY <2>4 DEF ClaimNoviceTask
    <3>2. begun.status = "IN_PROGRESS"
      OBVIOUS
    <3> HIDE DEF begun
    <3>3. \A s \in NoviceTasks : \/ claims'[<<l, s>>] = claims[<<l, s>>]
                                 \/ /\ claims'[<<l, s>>].status = "IN_PROGRESS"
                                    /\ claims[<<l, s>>].status = "NONE"
      BY <2>2, <3>1, <3>2
    <3>4. /\ Completed(l)' = Completed(l)
          /\ \A s \in Completed(l) : claims'[<<l, s>>].worth = claims[<<l, s>>].worth
      BY <3>3 DEF Completed
    <3> QED BY <3>4, EarnedGrows DEF EconomyInv
  <2>5. ASSUME NEW v \in verdicts, v.way = "novice", CommitVerdict(v)
        PROVE  Earned(l) \in Nat /\ Earned(l)' \in Nat /\ Earned(l)' >= Earned(l)
    <3>1. /\ <<v.learner, v.task>> \in Learners \X NoviceTasks /\ v.task \in NoviceTasks
          /\ claims' = [claims EXCEPT ![<<v.learner, v.task>>].status = "COMPLETED"]
      BY <2>5 DEF CommitVerdict, EconomyInv, EconomyTypeOK, Verdict
    <3>2. \A s \in NoviceTasks : claims'[<<l, s>>].worth = claims[<<l, s>>].worth
      BY <2>2, <3>1
    <3>3. \A s \in NoviceTasks :
            claims'[<<l, s>>].status = IF <<l, s>> = <<v.learner, v.task>> THEN "COMPLETED"
                                       ELSE claims[<<l, s>>].status
      BY <2>2, <3>1
    <3>4. Completed(l)' = IF l = v.learner THEN Completed(l) \cup {v.task} ELSE Completed(l)
      BY <3>1, <3>3 DEF Completed
    <3>5. \A s \in Completed(l) : claims'[<<l, s>>].worth = claims[<<l, s>>].worth
      BY <3>2 DEF Completed
    <3> QED BY <3>1, <3>4, <3>5, EarnedGrows DEF EconomyInv
  <2> QED BY <2>1, <2>3, <2>4, <2>5
<1> QED BY <1>1, <1>2, ShopUndisturbed

\* What the new row of a redemption may say: of its learner there is no other, he has not
\* redeemed this medal, and once it has locked the medal he can pay for it.
Entitled(q, row) ==
  row # NoPurchase =>
    /\ \A r \in Purchases : r # q /\ purchases[r] # NoPurchase
                              => purchases[r].learner # row.learner
    /\ \A r \in redemptions : r.learner # row.learner \/ r.medal # row.medal
    /\ row.stage = "PAYABLE" =>
         /\ \A r \in Purchases : ~ (Paying(r) /\ purchases[r].medal = row.medal)
         /\ medals[row.medal].stock # 0
         /\ \A l \in Learners : l = row.learner =>
              Earned(l) >= Spent(l) + medals[row.medal].price

\* A redemption that locks its learner, or its medal, finds nobody else at them.
LEMMA LocksKeepShop ==
  ASSUME EconomyInv, EconomyTypeOK', NEW q \in Purchases,
         \/ \E l \in Learners, m \in Medals : RedeemLocksLearner(q, l, m)
         \/ RedeemLocksMedal(q)
  PROVE  ShopInv'
<1>1. UNCHANGED <<claims, medals, page, redemptions, supplied>>
  BY DEF RedeemLocksLearner, RedeemLocksMedal
<1>2. /\ purchases \in [Purchases -> Purchase \cup {NoPurchase}]
      /\ \A m \in Medals : medals[m].price \in Nat
  <2>1. \A m \in Medals : medals[m].price \in Worth \cup {1}
    BY DEF EconomyInv, EconomyTypeOK, Medal
  <2> QED BY <2>1, WorthIsANumber DEF EconomyInv, EconomyTypeOK
<1>3. /\ \A l : Earned(l)' = Earned(l) /\ Spent(l)' = Spent(l)
      /\ \A m : Sold(m)' = Sold(m)
  BY <1>1, NothingSpent, NothingEarned DEF Sold
<1>4. PICK row : purchases' = [purchases EXCEPT ![q] = row] /\ Entitled(q, row)
  <2>1. ASSUME NEW l \in Learners, NEW m \in Medals, RedeemLocksLearner(q, l, m)
        PROVE  \E row : purchases' = [purchases EXCEPT ![q] = row] /\ Entitled(q, row)
    <3> DEFINE begun == [stage |-> "LEARNER_LOCKED", learner |-> l, medal |-> m,
                         seen |-> medals[m].revision]
    <3>1. purchases' = [purchases EXCEPT ![q] = begun]
      BY <2>1 DEF RedeemLocksLearner
    <3>2. begun.learner = l /\ begun.medal = m /\ begun.stage # "PAYABLE"
      OBVIOUS
    <3> HIDE DEF begun
    <3>3. \A r \in Purchases : r # q /\ purchases[r] # NoPurchase => purchases[r].learner # l
      BY <2>1 DEF RedeemLocksLearner, LearnerFree
    <3>4. \A r \in redemptions : r.learner # l \/ r.medal # m
      BY <2>1 DEF RedeemLocksLearner
    <3> QED BY <3>1, <3>2, <3>3, <3>4 DEF Entitled
  <2>2. ASSUME RedeemLocksMedal(q)
        PROVE  \E row : purchases' = [purchases EXCEPT ![q] = row] /\ Entitled(q, row)
    <3>1. CASE ~ Payable(purchases[q])
      BY <2>2, <3>1 DEF RedeemLocksMedal, Entitled
    <3>2. CASE Payable(purchases[q])
      <4> DEFINE locked == [purchases[q] EXCEPT !.stage = "PAYABLE"]
      <4>1. purchases' = [purchases EXCEPT ![q] = locked] /\ purchases[q] # NoPurchase
        BY <2>2, <3>2 DEF RedeemLocksMedal
      <4>2. locked.learner = purchases[q].learner /\ locked.medal = purchases[q].medal
        BY <4>1, UnderWay DEF EconomyInv, Purchase
      <4> HIDE DEF locked
      <4>3. \A r \in Purchases : r # q /\ purchases[r] # NoPurchase
                                   => purchases[r].learner # locked.learner
        BY <4>1, <4>2 DEF EconomyInv, ShopInv, OnePurchaseEach
      <4>4. \A r \in redemptions : r.learner # locked.learner \/ r.medal # locked.medal
        BY <4>1, <4>2 DEF EconomyInv, ShopInv, NotYetRedeemed
      <4>5. \A r \in Purchases : ~ (Paying(r) /\ purchases[r].medal = locked.medal)
        BY <2>2, <4>2 DEF RedeemLocksMedal, MedalFree, Paying
      <4>6. /\ medals[locked.medal].stock # 0
            /\ \A l \in Learners : l = locked.learner =>
                 Earned(l) >= Spent(l) + medals[locked.medal].price
        BY <3>2, <4>2 DEF Payable
      <4> QED BY <4>1, <4>3, <4>4, <4>5, <4>6 DEF Entitled
    <3> QED BY <3>1, <3>2
  <2> QED BY <2>1, <2>2
<1>5. \A r \in Purchases : purchases'[r] = IF r = q THEN row ELSE purchases[r]
  BY <1>2, <1>4
<1>6. OnePurchaseEach'
  BY <1>4, <1>5 DEF EconomyInv, ShopInv, Entitled, OnePurchaseEach
<1>7. OnePaymentEach'
  BY <1>4, <1>5 DEF EconomyInv, ShopInv, Entitled, OnePaymentEach, Paying
<1>8. NotYetRedeemed'
  BY <1>1, <1>4, <1>5 DEF EconomyInv, ShopInv, Entitled, NotYetRedeemed
<1>9. StillPayable'
  BY <1>1, <1>3, <1>4, <1>5 DEF EconomyInv, ShopInv, Entitled, StillPayable, Paying
<1>10. PagesAreOfThePast' /\ IsFiniteSet(redemptions)'
  BY <1>1 DEF EconomyInv, ShopInv, PagesAreOfThePast
<1>11. WalletAndStockBalance'
  BY <1>1, <1>3 DEF EconomyInv, ShopInv, WalletAndStockBalance
<1> QED BY <1>6, <1>7, <1>8, <1>9, <1>10, <1>11 DEF ShopInv

\* A redemption is paid from what was read when its rows were locked.
LEMMA RedeemKeepsShop ==
  ASSUME EconomyInv, EconomyTypeOK', NEW q \in Purchases, Redeem(q)
  PROVE  ShopInv'
<1>0. PICK k \in Learners, m \in Medals : k = purchases[q].learner /\ m = purchases[q].medal
  BY UnderWay DEF Redeem, EconomyInv
<1>1. Paying(q) /\ purchases[q] # NoPurchase
  BY DEF Redeem, Paying
<1>2. /\ claims' = claims /\ page' = page /\ supplied' = supplied
      /\ redemptions' = redemptions \cup {[learner |-> k, medal |-> m, price |-> medals[m].price]}
      /\ medals' = [medals EXCEPT ![m] =
           IF medals[m].stock = Unlimited THEN medals[m]
           ELSE [medals[m] EXCEPT !.stock = medals[m].stock - 1,
                                  !.revision = medals[m].revision + 1]]
  BY <1>0 DEF Redeem
<1>3. \A r \in Purchases : purchases'[r] = IF r = q THEN NoPurchase ELSE purchases[r]
  BY DEF Redeem, EconomyInv, EconomyTypeOK
<1>4. /\ IsFiniteSet(redemptions')
      /\ \A l \in Learners : /\ Spent(l) \in Nat
                             /\ Spent(l)' = Spent(l) + (IF l = k THEN medals[m].price ELSE 0)
      /\ \A other \in Medals : /\ Sold(other) \in Nat
                               /\ Sold(other)' = Sold(other) + (IF other = m THEN 1 ELSE 0)
      /\ medals[m].price \in Nat
  BY <1>0, RedeemSpends, RedeemSells DEF EconomyInv, ShopInv
<1>5. \A l : Earned(l)' = Earned(l)
  BY <1>2, NothingEarned
<1>6. /\ \A other \in Medals : other # m => medals'[other] = medals[other]
      /\ medals'[m].stock = IF medals[m].stock = Unlimited THEN Unlimited ELSE medals[m].stock - 1
      /\ medals[m].stock = Unlimited => medals'[m] = medals[m]
      /\ medals[m].stock # Unlimited => medals'[m].revision = medals[m].revision + 1
      /\ \A other \in Medals : /\ medals[other].revision \in Nat /\ page[other].revision \in Nat
                               /\ medals[other].stock \in Nat \cup {Unlimited}
  BY <1>2 DEF EconomyInv, EconomyTypeOK, Medal
<1>7. \A r \in redemptions' : r \in redemptions \/ (r.learner = k /\ r.medal = m)
  BY <1>2
<1>8. OnePurchaseEach' /\ OnePaymentEach'
  BY <1>3 DEF EconomyInv, ShopInv, OnePurchaseEach, OnePaymentEach, Paying
<1>9. \A r \in Purchases : r # q /\ purchases[r] # NoPurchase => purchases[r].learner # k
  BY <1>0, <1>1 DEF EconomyInv, ShopInv, OnePurchaseEach
<1>10. NotYetRedeemed'
  BY <1>3, <1>7, <1>9 DEF EconomyInv, ShopInv, NotYetRedeemed
<1>11. StillPayable'
  <2> SUFFICES ASSUME NEW r \in Purchases, Paying(r)',
                      NEW l \in Learners, purchases'[r].learner = l
               PROVE  /\ medals'[purchases'[r].medal].stock # 0
                      /\ Earned(l)' >= Spent(l)' + medals'[purchases'[r].medal].price
    BY DEF StillPayable
  <2>1. r # q /\ purchases'[r] = purchases[r] /\ Paying(r) /\ purchases[r] # NoPurchase
    BY <1>3 DEF Paying
  <2>2. PICK other \in Medals : other = purchases[r].medal
    BY <2>1, UnderWay DEF EconomyInv
  <2>3. other # m /\ l # k
    BY <1>0, <1>1, <1>9, <2>1, <2>2 DEF EconomyInv, ShopInv, OnePaymentEach
  <2>4. Spent(l)' = Spent(l) /\ Earned(l)' = Earned(l)
    BY <1>4, <1>5, <2>3
  <2>5. medals'[other] = medals[other]
    BY <1>6, <2>3
  <2>6. medals[other].stock # 0 /\ Earned(l) >= Spent(l) + medals[other].price
    BY <2>1, <2>2 DEF EconomyInv, ShopInv, StillPayable
  <2> QED BY <2>1, <2>2, <2>4, <2>5, <2>6
<1>12. PagesAreOfThePast'
  <2> SUFFICES ASSUME NEW other \in Medals
               PROVE  /\ page[other].revision <= medals'[other].revision
                      /\ page[other].revision = medals'[other].revision => page[other] = medals'[other]
    BY <1>2 DEF PagesAreOfThePast
  <2>1. /\ page[other].revision <= medals[other].revision
        /\ page[other].revision = medals[other].revision => page[other] = medals[other]
    BY DEF EconomyInv, ShopInv, PagesAreOfThePast
  <2>2. CASE medals'[other] = medals[other]
    BY <2>1, <2>2
  <2>3. CASE medals'[other].revision = medals[other].revision + 1
    BY <1>6, <2>1, <2>3
  <2> QED BY <1>6, <2>2, <2>3
<1>13. WalletAndStockBalance'
  <2>1. \A l \in Learners : Spent(l)' <= Earned(l)'
    <3> SUFFICES ASSUME NEW l \in Learners PROVE Spent(l)' <= Earned(l)'
      OBVIOUS
    <3>1. CASE l = k
      <4>1. Earned(k) >= Spent(k) + medals[m].price
        BY <1>0, <1>1 DEF EconomyInv, ShopInv, StillPayable
      <4> QED BY <1>4, <1>5, <3>1, <4>1, EarnedIsANumber DEF EconomyInv
    <3>2. CASE l # k
      <4>1. Spent(l) <= Earned(l)
        BY DEF EconomyInv, ShopInv, WalletAndStockBalance
      <4> QED BY <1>4, <1>5, <3>2, <4>1
    <3> QED BY <3>1, <3>2
  <2>2. \A other \in Medals :
          medals'[other].stock # Unlimited => medals'[other].stock + Sold(other)' = supplied'[other]
    <3> SUFFICES ASSUME NEW other \in Medals, medals'[other].stock # Unlimited
                 PROVE  medals'[other].stock + Sold(other)' = supplied[other]
      BY <1>2
    <3>1. medals[other].stock # Unlimited => medals[other].stock + Sold(other) = supplied[other]
      BY DEF EconomyInv, ShopInv, WalletAndStockBalance
    <3>2. CASE other = m
      <4>1. medals[m].stock \in Nat /\ medals'[m].stock = medals[m].stock - 1
        BY <1>1, <1>6, <3>2
      <4>2. Sold(m) \in Nat /\ Sold(m)' = Sold(m) + 1
        BY <1>1, <1>4
      <4> QED BY <1>6, <3>1, <3>2, <4>1, <4>2
    <3>3. CASE other # m
      <4>1. Sold(other) \in Nat /\ Sold(other)' = Sold(other)
        BY <1>4, <3>3
      <4> QED BY <1>6, <3>1, <3>3, <4>1
    <3> QED BY <3>2, <3>3
  <2> QED BY <2>1, <2>2 DEF WalletAndStockBalance
<1> QED BY <1>4, <1>8, <1>10, <1>11, <1>12, <1>13 DEF ShopInv

\* A medal is saved while no redemption has locked it, over the page that shows it.
LEMMA SaveKeepsShop ==
  ASSUME EconomyInv, NEW m \in Medals,
         NEW status \in {"draft", "published", "unpublished"}, NEW price \in Worth,
         NEW stock \in {page[m].stock, Unlimited} \cup
                       {IF page[m].stock = Unlimited THEN 1 ELSE page[m].stock + 1},
         SaveMedal(m, status, price, stock)
  PROVE  EconomyTypeOK' /\ ShopInv'
<1> DEFINE saved == [status |-> status, price |-> price, stock |-> stock,
                     revision |-> medals[m].revision + 1]
<1>1. PICK goods \in Nat :
        /\ medals' = [medals EXCEPT ![m] = saved] /\ supplied' = [supplied EXCEPT ![m] = goods]
        /\ stock # Unlimited => goods = stock + Sold(m)
        /\ stock \in Nat \cup {Unlimited} /\ page[m] = medals[m]
  BY SaveMoves
<1>2. UNCHANGED <<offers, claims, page, redemptions, purchases, rules, verdicts, record>>
  BY DEF SaveMedal, guild
<1>3. saved \in Medal
  <2>1. medals[m].revision + 1 \in Nat
    BY DEF EconomyInv, EconomyTypeOK, Medal
  <2> QED BY <1>1, <2>1 DEF Medal
<1>4. saved.stock = stock /\ saved.revision = medals[m].revision + 1
  OBVIOUS
<1> HIDE DEF saved
<1>5. medals' \in [Medals -> Medal] /\ supplied' \in [Medals -> Nat]
  BY <1>1, <1>3 DEF EconomyInv, EconomyTypeOK
<1>6. EconomyTypeOK'
  BY <1>2, <1>5 DEF EconomyInv, EconomyTypeOK
<1>7. /\ \A l : Earned(l)' = Earned(l) /\ Spent(l)' = Spent(l)
      /\ \A other : Sold(other)' = Sold(other)
  BY <1>2, NothingSpent, NothingEarned DEF Sold
<1>8. \A q \in Purchases : ~ (Paying(q) /\ purchases[q].medal = m)
  BY DEF SaveMedal, MedalFree, Paying
<1>9. /\ \A other \in Medals : other # m => medals'[other] = medals[other] /\ supplied'[other] = supplied[other]
      /\ medals'[m] = saved /\ supplied'[m] = goods
      /\ medals[m].revision \in Nat
  BY <1>1 DEF EconomyInv, EconomyTypeOK, Medal
<1>10. OnePurchaseEach' /\ OnePaymentEach' /\ NotYetRedeemed' /\ IsFiniteSet(redemptions)'
  BY <1>2 DEF EconomyInv, ShopInv, OnePurchaseEach, OnePaymentEach, NotYetRedeemed, Paying
<1>11. StillPayable'
  <2> SUFFICES ASSUME NEW q \in Purchases, NEW l \in Learners, Paying(q), purchases[q].learner = l
               PROVE  /\ medals'[purchases[q].medal].stock # 0
                      /\ Earned(l) >= Spent(l) + medals'[purchases[q].medal].price
    BY <1>2, <1>7 DEF StillPayable, Paying
  <2>1. medals'[purchases[q].medal] = medals[purchases[q].medal]
    BY <1>8, <1>9, UnderWay DEF EconomyInv, Paying
  <2> QED BY <2>1 DEF EconomyInv, ShopInv, StillPayable
<1>12. PagesAreOfThePast'
  <2> SUFFICES ASSUME NEW other \in Medals
               PROVE  /\ page[other].revision <= medals'[other].revision
                      /\ page[other].revision = medals'[other].revision => page[other] = medals'[other]
    BY <1>2 DEF PagesAreOfThePast
  <2>1. CASE other = m
    <3>1. /\ page[m].revision = medals[m].revision /\ medals'[m].revision = medals[m].revision + 1
      BY <1>1, <1>4, <1>9
    <3> QED BY <1>9, <2>1, <3>1
  <2>2. CASE other # m
    BY <1>9, <2>2 DEF EconomyInv, ShopInv, PagesAreOfThePast
  <2> QED BY <2>1, <2>2
<1>13. WalletAndStockBalance'
  <2>1. \A l \in Learners : Spent(l)' <= Earned(l)'
    BY <1>7 DEF EconomyInv, ShopInv, WalletAndStockBalance
  <2>2. \A other \in Medals :
          medals'[other].stock # Unlimited => medals'[other].stock + Sold(other)' = supplied'[other]
    BY <1>1, <1>4, <1>7, <1>9 DEF EconomyInv, ShopInv, WalletAndStockBalance
  <2> QED BY <1>6, <2>1, <2>2 DEF WalletAndStockBalance
<1> QED BY <1>6, <1>10, <1>11, <1>12, <1>13 DEF ShopInv

\* What the shop does does not concern the guild.
LEMMA GuildUndisturbed ==
  ASSUME GuildInv, verdicts' = verdicts, record' = record
  PROVE  GuildInv'
BY DEF GuildInv, OneVerdictAtATime, CreditIsForTheFirst, FirstCompletionIsCredited, PassesOf

\* The verdict that holds the guild's row reads the record as it is when it is written.
LEMMA PassKeepsGuild ==
  ASSUME EconomyInv, NEW l \in Learners, NEW t \in NoviceTasks, NEW way \in Ways,
         PassTask(l, t, way)
  PROVE  GuildInv'
<1> DEFINE v == [learner |-> l, task |-> t, way |-> way,
                 credit |-> IF PassesOf(l, t) # {} THEN 0 ELSE rules[t]]
<1>1. verdicts' = {v} /\ record' = record
  BY DEF PassTask, GuildFree
<1>2. v.learner = l /\ v.task = t /\ (v.credit # 0 => PassesOf(l, t) = {})
  OBVIOUS
<1> HIDE DEF v
<1>3. \A k, s : PassesOf(k, s)' = PassesOf(k, s)
  BY <1>1 DEF PassesOf
<1>4. CreditIsForTheFirst'
  <2>1. \A w \in verdicts' : w.credit # 0 => PassesOf(w.learner, w.task) = {}
    BY <1>1, <1>2
  <2> QED BY <1>1, <2>1 DEF CreditIsForTheFirst, PassesOf
<1> QED BY <1>1, <1>4 DEF EconomyInv, GuildInv, OneVerdictAtATime, FirstCompletionIsCredited

\* The record grows by the verdict that held the row: credited if it is the first.
LEMMA CommitKeepsGuild ==
  ASSUME EconomyInv, NEW v \in verdicts, CommitVerdict(v)
  PROVE  GuildInv'
<1>1. PICK w : /\ record' = Append(record, w)
               /\ w = v \/ w = [v EXCEPT !.credit = 0]
  BY DEF CommitVerdict
<1>2. /\ w.learner = v.learner /\ w.task = v.task /\ w.credit \in {v.credit, 0}
      /\ w \in Verdict /\ record \in Seq(Verdict)
  <2>1. v \in Verdict
    BY DEF EconomyInv, EconomyTypeOK
  <2>2. [v EXCEPT !.credit = 0] \in Verdict
    BY <2>1 DEF Verdict
  <2> QED BY <1>1, <2>1, <2>2 DEF EconomyInv, EconomyTypeOK, Verdict
<1>3. Len(record) \in Nat
  BY <1>2
<1>4. /\ Len(record') = Len(record) + 1 /\ record'[Len(record) + 1] = w
      /\ \A i \in 1..Len(record) : record'[i] = record[i]
  BY <1>1, <1>2
<1>5. verdicts' = {}
  BY DEF CommitVerdict, EconomyInv, GuildInv, OneVerdictAtATime
<1>6. FirstCompletionIsCredited'
  <2> SUFFICES ASSUME NEW i \in 1..Len(record'), NEW j \in 1..Len(record'), i < j,
                      record'[i].learner = record'[j].learner,
                      record'[i].task = record'[j].task
               PROVE  record'[j].credit = 0
    BY DEF FirstCompletionIsCredited
  <2>1. i \in 1..Len(record) /\ record'[i] = record[i]
    BY <1>3, <1>4
  <2>2. CASE j = Len(record) + 1
    <3>1. i \in PassesOf(v.learner, v.task)
      BY <1>2, <1>4, <2>1, <2>2 DEF PassesOf
    <3>2. v.credit = 0
      BY <3>1 DEF EconomyInv, GuildInv, CreditIsForTheFirst
    <3> QED BY <1>2, <1>4, <2>2, <3>2
  <2>3. CASE j # Len(record) + 1
    <3>1. j \in 1..Len(record) /\ record'[j] = record[j]
      BY <1>3, <1>4, <2>3
    <3> QED BY <2>1, <3>1 DEF EconomyInv, GuildInv, FirstCompletionIsCredited
  <2> QED BY <2>2, <2>3
<1> QED BY <1>5, <1>6 DEF GuildInv, OneVerdictAtATime, CreditIsForTheFirst

\* The invariant holds where the economy begins.
LEMMA EconomyBegins == EconomyInit => EconomyInv
<1> SUFFICES ASSUME EconomyInit PROVE EconomyInv
  OBVIOUS
<1>1. NoMedal \in Medal /\ NoMedal.stock = 0 /\ NoMedal.revision = 0
  BY DEF NoMedal, Medal
<1>2. EconomyTypeOK
  BY <1>1 DEF EconomyInit, EconomyTypeOK
<1>3. \A q \in Purchases : purchases[q] = NoPurchase
  BY DEF EconomyInit
<1>4. IsFiniteSet(redemptions) /\ redemptions = {}
  BY FS_EmptySet DEF EconomyInit
<1>5. OnePurchaseEach /\ OnePaymentEach /\ NotYetRedeemed /\ StillPayable
  BY <1>3 DEF OnePurchaseEach, OnePaymentEach, NotYetRedeemed, StillPayable, Paying
<1>6. PagesAreOfThePast
  BY <1>1 DEF EconomyInit, PagesAreOfThePast
<1>7. \A l \in Learners : Spent(l) = 0 /\ Earned(l) \in Nat
  <2> SUFFICES ASSUME NEW l \in Learners PROVE Spent(l) = 0 /\ Earned(l) \in Nat
    OBVIOUS
  <2>1. PaidBy(l) = {}
    BY <1>4 DEF PaidBy
  <2> QED BY <1>2, <1>4, <2>1, SpentIsANumber, EarnedIsANumber, TotalOfNothing
<1>8. \A m \in Medals : Sold(m) = 0 /\ medals[m].stock = 0 /\ supplied[m] = 0
  <2> SUFFICES ASSUME NEW m \in Medals PROVE Sold(m) = 0 /\ medals[m].stock = 0 /\ supplied[m] = 0
    OBVIOUS
  <2>1. {r \in redemptions : r.medal = m} = {}
    BY <1>4
  <2> QED BY <1>1, <2>1, FS_EmptySet DEF Sold, EconomyInit
<1>9. WalletAndStockBalance
  BY <1>2, <1>7, <1>8 DEF WalletAndStockBalance
<1>10. GuildInv
  <2>1. Len(record) = 0 /\ verdicts = {}
    BY DEF EconomyInit
  <2> QED BY <2>1 DEF GuildInv, OneVerdictAtATime, CreditIsForTheFirst, FirstCompletionIsCredited
<1> QED BY <1>2, <1>4, <1>5, <1>6, <1>9, <1>10 DEF EconomyInv, ShopInv

\* Every step keeps it.
LEMMA EconomyKeeps == EconomyInv /\ [EconomyNext]_economyVars => EconomyInv'
<1> SUFFICES ASSUME EconomyInv, [EconomyNext]_economyVars PROVE EconomyInv'
  OBVIOUS
<1>1. ASSUME \/ \E t \in NoviceTasks : Republish(t)
             \/ \E l \in Learners, t \in NoviceTasks : ClaimNoviceTask(l, t)
             \/ ShowMedals
             \/ \E t \in NoviceTasks, points \in Worth \cup {0} : SaveRule(t, points)
             \/ \E l \in Learners, t \in NoviceTasks, way \in Ways : PassTask(l, t, way)
             \/ \E v \in verdicts : CommitVerdict(v)
             \/ UNCHANGED economyVars
      PROVE  EconomyInv'
  <2>1. EconomyTypeOK'
    BY <1>1, GuildTyped
  <2>2. ShopInv'
    BY <1>1, <2>1, GuildStepsKeepShop
  <2>3. ASSUME verdicts' = verdicts, record' = record PROVE GuildInv'
    BY <2>3, GuildUndisturbed DEF EconomyInv
  <2>4. GuildInv'
    BY <1>1, <2>3, PassKeepsGuild, CommitKeepsGuild DEF Republish, ClaimNoviceTask, ShowMedals,
       SaveRule, economyVars, guild
  <2> QED BY <2>1, <2>2, <2>4 DEF EconomyInv
<1>2. ASSUME NEW q \in Purchases,
             \/ \E l \in Learners, m \in Medals : RedeemLocksLearner(q, l, m)
             \/ RedeemLocksMedal(q)
      PROVE  EconomyInv'
  <2>1. verdicts' = verdicts /\ record' = record
    BY <1>2 DEF RedeemLocksLearner, RedeemLocksMedal, guild
  <2>2. EconomyTypeOK' /\ ShopInv'
    BY <1>2, LocksTyped, LocksKeepShop
  <2> QED BY <2>1, <2>2, GuildUndisturbed DEF EconomyInv
<1>3. ASSUME NEW q \in Purchases, Redeem(q) PROVE EconomyInv'
  <2>1. verdicts' = verdicts /\ record' = record
    BY <1>3 DEF Redeem, guild
  <2>2. EconomyTypeOK' /\ ShopInv'
    BY <1>3, RedeemTyped, RedeemKeepsShop
  <2> QED BY <2>1, <2>2, GuildUndisturbed DEF EconomyInv
<1>4. ASSUME NEW m \in Medals, NEW status \in {"draft", "published", "unpublished"},
             NEW price \in Worth,
             NEW stock \in {page[m].stock, Unlimited} \cup
                           {IF page[m].stock = Unlimited THEN 1 ELSE page[m].stock + 1},
             SaveMedal(m, status, price, stock)
      PROVE  EconomyInv'
  <2>1. verdicts' = verdicts /\ record' = record
    BY <1>4 DEF SaveMedal, guild
  <2>2. EconomyTypeOK' /\ ShopInv'
    BY <1>4, SaveKeepsShop
  <2> QED BY <2>1, <2>2, GuildUndisturbed DEF EconomyInv
<1> QED BY <1>1, <1>2, <1>3, <1>4 DEF EconomyNext

\* EconomyInv holds of every reachable state.
THEOREM EconomyInvariant == EconomySpec => []EconomyInv
BY EconomyBegins, EconomyKeeps, PTL DEF EconomySpec

\* redeem and save of medal_routes.py: nobody spends points that were not earned, and the
\* stock of a medal is what was put in less what was redeemed, for any number of learners,
\* medals and redemptions at once.
THEOREM PointsAndStockBalance == EconomySpec => []WalletAndStockBalance
<1>1. EconomyInv => WalletAndStockBalance
  BY DEF EconomyInv, ShopInv
<1> QED BY <1>1, EconomyInvariant, PTL

\* credit_guild_completion: a task is credited once to a learner, for the first completion.
THEOREM FirstIsCredited == EconomySpec => []FirstCompletionIsCredited
<1>1. EconomyInv => FirstCompletionIsCredited
  BY DEF EconomyInv, GuildInv
<1> QED BY <1>1, EconomyInvariant, PTL
=============================================================================
