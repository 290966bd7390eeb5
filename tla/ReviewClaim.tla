----------------------------- MODULE ReviewClaim -----------------------------
(***************************************************************************)
(* Who may write the verdict on one submitted document.  Reviewers share   *)
(* the pool, so a browser tab first claims the document: an exclusive      *)
(* lease with a token, renewed while the tab is open.  The lease may       *)
(* lapse, be released, or be forced open by a super administrator; a       *)
(* decision of the administration page is two transactions when the review *)
(* has not been started.                                                   *)
(*                                                                         *)
(* Every request locks the Review row first, so a request is one step,     *)
(* a decision on an ASSIGNED review two.                                   *)
(***************************************************************************)
EXTENDS Naturals, Sequences

CONSTANTS
  Tabs,         \* browser tabs open on the document
  Owner,        \* Owner[t]: the reviewer signed in to tab t
  SuperAdmins,  \* reviewers with canGrantSuperAdmins
  MaxTokens     \* bound of the model: claims given

ASSUME OwnerAssumption == DOMAIN Owner = Tabs /\ Tabs # {}
ASSUME TokenAssumption == MaxTokens \in Nat \ {0}

VARIABLES
  review,       \* the Review row
  claim,        \* the ReviewClaim row; version 0 while there is none
  issued,       \* tokens issued so far: the next uuid is issued + 1
  tab,          \* what each tab has on screen, and its decision under way
  evaluations   \* the tabs whose decisions are in the evaluations table, in order

claimVars == <<review, claim, issued, tab, evaluations>>

Reviewers == {Owner[t] : t \in Tabs}
Forms     == {"complete", "incomplete"}  \* incomplete: the rubric fails only in finalize_review

ClaimTypeOK ==
  /\ review \in [status : {"ASSIGNED", "IN_REVIEW", "FINALIZED"}, revision : 1..3]
  /\ claim \in [owner : Reviewers, token : 0..MaxTokens, version : Nat, live : BOOLEAN]
  /\ issued \in 0..MaxTokens
  /\ tab \in [Tabs -> [revision : 1..3, token : 0..MaxTokens, seenVersion : Nat,
                       seenToken : 0..MaxTokens, deciding : Forms \cup {"no"}]]
  /\ evaluations \in Seq(Tabs)

\* The submission has just been made and every tab has loaded the list.
ClaimInit ==
  /\ review = [status |-> "ASSIGNED", revision |-> 1]
  /\ claim = [owner |-> CHOOSE r \in Reviewers : TRUE, token |-> 0, version |-> 0, live |-> FALSE]
  /\ issued = 0
  /\ tab = [t \in Tabs |-> [revision |-> 1, token |-> 0, seenVersion |-> 0, seenToken |-> 0,
                            deciding |-> "no"]]
  /\ evaluations = <<>>

Open     == review.status \in {"ASSIGNED", "IN_REVIEW"}
Idle(t)  == tab[t].deciding = "no"
Recorded == claim.version > 0

\* live_claim
LiveClaim == claim.live /\ Open

\* check_write
CheckWrite(t, required) ==
  /\ LiveClaim => claim.owner = Owner[t]
  /\ required \/ Recorded => LiveClaim /\ claim.token = tab[t].token

\* What a tab shows after it has read the row: the review's revision, and the claim
\* as claim_views lists it.
Shown(t, token) ==
  [tab[t] EXCEPT !.revision = review'.revision, !.token = token,
                 !.seenVersion = IF LiveClaim' THEN claim'.version ELSE 0,
                 !.seenToken = IF LiveClaim' THEN claim'.token ELSE 0]

-----------------------------------------------------------------------------
(* The claim endpoint. *)

\* Polling the list of reviews.
Refresh(t) ==
  /\ Idle(t)
  /\ UNCHANGED <<review, claim, issued, evaluations>>
  /\ tab' = [tab EXCEPT ![t] = Shown(t, tab[t].token)]

\* One's own live claim is extended; a free document must be as the tab saw it.
Acquirable(t) ==
  /\ LiveClaim => claim.owner = Owner[t]
  /\ ~ LiveClaim => review.revision = tab[t].revision

\* Mutant: the version counts releases only.
NewClaimSameVersion(t) ==
  [owner |-> Owner[t], token |-> issued + 1, version |-> IF Recorded THEN claim.version ELSE 1, live |-> TRUE]

NewClaim(t) ==
  [owner |-> Owner[t], token |-> issued + 1, version |-> claim.version + 1, live |-> TRUE]

\* acquire: also hands the token of one's own live claim to a second tab.
Acquire(t) ==
  /\ Idle(t) /\ Open
  /\ Acquirable(t)
  /\ IF LiveClaim /\ claim.owner = Owner[t]
     THEN UNCHANGED <<claim, issued>>
     ELSE /\ issued < MaxTokens
          /\ issued' = issued + 1
          /\ claim' = NewClaim(t)
  /\ UNCHANGED <<review, evaluations>>
  /\ tab' = [tab EXCEPT ![t] = Shown(t, claim'.token)]

\* renew pushes expires_at back; release lets it be now.
RenewOrRelease(t) ==
  /\ Idle(t) /\ Open
  /\ CheckWrite(t, TRUE)
  /\ \/ UNCHANGED claim
     \/ claim' = [claim EXCEPT !.live = FALSE, !.version = @ + 1]
  /\ UNCHANGED <<review, issued, evaluations>>
  /\ tab' = [tab EXCEPT ![t] = Shown(t, IF claim'.live THEN claim'.token ELSE 0)]

\* force_release: the review and the claim must be those on the screen.
Releasable(t) ==
  /\ review.revision = tab[t].revision
  /\ Recorded => claim.version = tab[t].seenVersion

ForceRelease(t) ==
  /\ Idle(t) /\ Open
  /\ Owner[t] \in SuperAdmins
  /\ Releasable(t)
  /\ IF Recorded THEN claim' = [claim EXCEPT !.live = FALSE, !.version = @ + 1]
                 ELSE UNCHANGED claim
  /\ UNCHANGED <<review, issued, evaluations>>
  /\ tab' = [tab EXCEPT ![t] = Shown(t, 0)]

\* expires_at goes by.
LeaseElapses ==
  /\ claim.live
  /\ claim' = [claim EXCEPT !.live = FALSE]
  /\ UNCHANGED <<review, issued, tab, evaluations>>

-----------------------------------------------------------------------------
(* The verdict. *)

\* start_review: what it writes to the Review.
Started == [review EXCEPT !.status = "IN_REVIEW", !.revision = @ + 1]

\* Mutant: nothing but the status tells whether there is a verdict already.
EvaluationIsNewAlways == TRUE

\* evaluations.review_id is unique.
EvaluationIsNew == evaluations = <<>>

\* finalize_review: the evaluation and the Review row, both or neither.
Finalized(t, revision) ==
  /\ EvaluationIsNew
  /\ evaluations' = Append(evaluations, t)
  /\ review' = [status |-> "FINALIZED", revision |-> revision + 1]

\* POST /reviews/{id}/start
StartReview(t) ==
  /\ Idle(t)
  /\ CheckWrite(t, FALSE)
  /\ review.revision = tab[t].revision /\ review.status = "ASSIGNED"
  /\ review' = Started
  /\ UNCHANGED <<claim, issued, evaluations>>
  /\ tab' = [tab EXCEPT ![t].revision = review'.revision]

\* POST /reviews/{id}/finalize
FinalizeReview(t) ==
  /\ Idle(t)
  /\ CheckWrite(t, FALSE)
  /\ review.revision = tab[t].revision /\ review.status = "IN_REVIEW"
  /\ Finalized(t, review.revision)
  /\ UNCHANGED <<claim, issued>>
  /\ tab' = [tab EXCEPT ![t].revision = review'.revision]

\* POST /review-admin/reviews/{id}/decision on a review in IN_REVIEW, one transaction.
Decide(t) ==
  /\ Idle(t)
  /\ review.revision = tab[t].revision /\ review.status = "IN_REVIEW"
  /\ CheckWrite(t, TRUE)
  /\ Finalized(t, review.revision)
  /\ UNCHANGED <<claim, issued>>
  /\ tab' = [tab EXCEPT ![t].revision = review'.revision]

\* ... on a review in ASSIGNED: start_review commits, whatever finalize_review will
\* think of the form.
DecideStart(t, form) ==
  /\ Idle(t)
  /\ review.revision = tab[t].revision /\ review.status = "ASSIGNED"
  /\ CheckWrite(t, TRUE)
  /\ review' = Started
  /\ UNCHANGED <<claim, issued, evaluations>>
  /\ tab' = [tab EXCEPT ![t].deciding = form]

\* Mutant: the check before the start counts for the whole request.
StillAllowedFromStart(t) == TRUE

\* The claim is read anew, but the Review is the object of the first transaction
\* (expire_on_commit is off): IN_REVIEW and one revision on, whatever the row says.
StillAllowed(t) == claim.live /\ claim.owner = Owner[t] /\ claim.token = tab[t].token

DecideFinish(t) ==
  /\ ~ Idle(t)
  /\ IF tab[t].deciding = "complete" /\ StillAllowed(t) /\ EvaluationIsNew
     THEN Finalized(t, tab[t].revision + 1)
     ELSE UNCHANGED <<review, evaluations>>
  /\ UNCHANGED <<claim, issued>>
  /\ tab' = [tab EXCEPT ![t].deciding = "no"]

\* The API process dies between the two transactions.
Interrupted(t) ==
  /\ ~ Idle(t)
  /\ tab' = [tab EXCEPT ![t].deciding = "no"]
  /\ UNCHANGED <<review, claim, issued, evaluations>>

ClaimNext ==
  \/ LeaseElapses
  \/ \E t \in Tabs :
       \/ Refresh(t) \/ Acquire(t) \/ RenewOrRelease(t) \/ ForceRelease(t)
       \/ StartReview(t) \/ FinalizeReview(t)
       \/ Decide(t) \/ DecideFinish(t) \/ Interrupted(t)
       \/ \E form \in Forms : DecideStart(t, form)

ClaimSpec == ClaimInit /\ [][ClaimNext]_claimVars

-----------------------------------------------------------------------------
(* Safety. *)

\* At most one verdict, and the Review says FINALIZED exactly when it is there:
\* also when a second tab finalizes between the two transactions of a decision; and the
\* rows and tabs are well typed.
OneVerdict ==
  /\ ClaimTypeOK
  /\ Len(evaluations) <= 1
  /\ review.status = "FINALIZED" <=> evaluations # <<>>

\* Once the document has been claimed, a verdict is written only by a tab that holds
\* the token of the live claim at that moment: a lapse, a release or a new claim
\* between the two transactions of a decision stops it.
VerdictIsFenced ==
  [][evaluations' # evaluations /\ Recorded =>
       LiveClaim /\ claim.token = tab[evaluations'[Len(evaluations')]].token]_claimVars

\* A live claim is forced open only by a tab whose screen shows this very claim, never
\* one that has since followed it.  (Its holder's own release changes nothing here.)
ForceReleasesWhatWasSeen ==
  [][\A t \in Tabs :
       ForceRelease(t) /\ claim.live /\ claim.owner # Owner[t] => claim.token = tab[t].seenToken]_claimVars
=============================================================================
