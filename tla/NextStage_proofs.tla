-------------------------- MODULE NextStage_proofs --------------------------
(***************************************************************************)
(* Proofs about NextStage for every set of authorizations, scopes, people  *)
(* and requests: one ACTIVE authorization in a scope, one chain of         *)
(* decisions on a handoff, acceptances that stand for ever and were made   *)
(* under an authorization in force, and nothing that is activated twice.   *)
(***************************************************************************)
EXTENDS NextStage, TLAPS

-----------------------------------------------------------------------------
(* Authorizations. *)

\* The tables start empty and well typed.
LEMMA InitTyped == Init => TypeOK
  BY ScopeAssumption, TimeAssumption
     DEF Init, CTAInit, TypeOK, CTATypeOK, Rows, Times, Signatures, Status, NoSnapshot

\* Who may activate has read a candidate.
LEMMA Candidate ==
  ASSUME CTATypeOK, NEW s \in Sessions, MayActivate(s)
  PROVE  seen[s].id \in Authorizations /\ seen[s].revision \in Nat
  <1>1. seen[s] \in Snapshots \cup {NoSnapshot} /\ seen[s].status = "PENDING_APPROVALS"
    BY DEF CTATypeOK, MayActivate
  <1>2. NoSnapshot.status = "NONE"
    BY DEF NoSnapshot
  <1>3. seen[s] \in Snapshots
    BY <1>1, <1>2
  <1> QED
    BY <1>3 DEF Snapshots

\* A row whose status, revision and timestamps change is still a row.
LEMMA RowUpdate ==
  ASSUME NEW row \in Rows, NEW status \in Status, NEW revision \in Nat, NEW at \in Times
  PROVE  /\ [row EXCEPT !.status = status, !.revision = revision, !.endedAt = at] \in Rows
         /\ [row EXCEPT !.status = status, !.revision = revision, !.activatedAt = at] \in Rows
         /\ row.revision + 1 \in Nat
  <1>1. [row EXCEPT !.status = status, !.revision = revision, !.endedAt = at] \in Rows
    BY DEF Rows
  <1>2. [row EXCEPT !.status = status, !.revision = revision, !.activatedAt = at] \in Rows
    BY DEF Rows
  <1>3. row.revision + 1 \in Nat
    BY DEF Rows
  <1> QED
    BY <1>1, <1>2, <1>3

\* Every command on authorizations writes well-typed rows.
LEMMA CTAStepTyped == ASSUME CTATypeOK, CTANext PROVE CTATypeOK'
  <1> USE DEF CTATypeOK
  <1>0. now \in Times
    BY TimeAssumption DEF Times
  <1>1. ASSUME NEW c \in Authorizations, NEW scope \in Scopes,
               NEW from \in Times, NEW until \in Times, Create(c, scope, from, until)
        PROVE  CTATypeOK'
    <2>1. [cta[c] EXCEPT !.status = "DRAFT", !.revision = 1, !.scope = scope,
                         !.validFrom = from, !.expiresAt = until] \in Rows
      BY DEF Rows, Status
    <2> QED
      BY <1>1, <2>1 DEF Create
  <1>2. ASSUME NEW c \in Authorizations, NEW from, NEW to \in Status, Move(c, from, to)
        PROVE  CTATypeOK'
    <2>1. cta[c].endedAt \in Times
      BY DEF Rows
    <2>2. [cta[c] EXCEPT !.status = to, !.revision = @ + 1,
                         !.endedAt = IF to = "PENDING_APPROVALS" THEN @ ELSE now] \in Rows
      BY <1>0, <2>1, RowUpdate
    <2> QED
      BY <1>2, <2>2 DEF Move
  <1>3. ASSUME NEW c \in Authorizations, NEW role \in OwnerRoles,
               NEW decision \in {"APPROVE", "REJECT"}, Approve(c, role, decision)
        PROVE  CTATypeOK'
    <2>1. [cta[c].signed EXCEPT ![role] = decision] \in Signatures
      BY DEF Rows, Signatures
    <2>2. [cta[c] EXCEPT !.signed[role] = decision] \in Rows
      BY <2>1 DEF Rows
    <2> QED
      BY <1>3, <2>2 DEF Approve
  <1>4. ASSUME NEW s \in Sessions, NEW c \in Authorizations, ReadCandidate(s, c)
        PROVE  CTATypeOK'
    BY <1>4 DEF ReadCandidate, Snapshots, Rows
  <1>5. ASSUME NEW s \in Sessions, Activate(s)
        PROVE  CTATypeOK'
    <2>0. MayActivate(s)
      BY <1>5 DEF Activate
    <2>1. seen[s].id \in Authorizations /\ seen[s].revision + 1 \in Nat
      BY <2>0, Candidate
    <2>2. Activated(s) \in Rows
      BY <1>0, <2>1, RowUpdate DEF Activated, Status
    <2>3. \A d \in Authorizations :
            [cta[d] EXCEPT !.status = "EXPIRED", !.revision = @ + 1, !.endedAt = now] \in Rows
      BY <1>0, RowUpdate DEF Status
    <2>4. cta' \in [Authorizations -> Rows]
      BY <1>5, <2>2, <2>3 DEF Activate
    <2>5. seen' \in [Sessions -> Snapshots \cup {NoSnapshot}] /\ now' = now
      BY <1>5 DEF Activate
    <2> QED
      BY <2>4, <2>5
  <1>6. ASSUME NEW s \in Sessions, RefuseActivation(s)
        PROVE  CTATypeOK'
    BY <1>6 DEF RefuseActivation
  <1>7. CASE Tick
    BY <1>7, TimeAssumption DEF Tick
  <1> QED
    BY <1>1, <1>2, <1>3, <1>4, <1>5, <1>6, <1>7 DEF CTANext, SubmitForApprovals, Revoke, Expire, Status

\* A scope never gets a second ACTIVE row: only Activate makes one, after its peers.
LEMMA OneActiveStep == ASSUME CTATypeOK, OneActivePerScope, CTANext PROVE OneActivePerScope'
  <1> USE DEF CTATypeOK, Rows, OneActivePerScope
  <1>1. ASSUME NEW c \in Authorizations, NEW scope \in Scopes,
               NEW from \in Times, NEW until \in Times, Create(c, scope, from, until)
        PROVE  OneActivePerScope'
    BY <1>1 DEF Create
  <1>2. ASSUME NEW c \in Authorizations, NEW from, NEW to, to # "ACTIVE", Move(c, from, to)
        PROVE  OneActivePerScope'
    BY <1>2 DEF Move
  <1>3. ASSUME NEW c \in Authorizations, NEW role \in OwnerRoles,
               NEW decision \in {"APPROVE", "REJECT"}, Approve(c, role, decision)
        PROVE  OneActivePerScope'
    BY <1>3 DEF Approve
  <1>4. ASSUME NEW s \in Sessions, Activate(s)
        PROVE  OneActivePerScope'
    <2> DEFINE c == seen[s].id
    <2>1. c \in Authorizations
      BY <1>4, Candidate DEF Activate
    <2>2. cta'[c].scope = cta[c].scope
      BY <1>4, <2>1 DEF Activate, Activated
    <2>3. \A d \in Authorizations \ {c} :
            cta'[d].status = "ACTIVE" =>
              cta[d].status = "ACTIVE" /\ cta'[d] = cta[d] /\ cta[d].scope # cta[c].scope
      BY <1>4, <2>1 DEF Activate, Peers
    <2> QED
      BY <2>1, <2>2, <2>3
  <1>5. ASSUME NEW s \in Sessions, NEW d \in Authorizations,
               ReadCandidate(s, d) \/ RefuseActivation(s) \/ Tick
        PROVE  OneActivePerScope'
    BY <1>5 DEF ReadCandidate, RefuseActivation, Tick
  <1>6. ASSUME UNCHANGED cta PROVE OneActivePerScope'
    BY <1>6
  <1> QED
    BY <1>1, <1>2, <1>3, <1>4, <1>5, <1>6
       DEF CTANext, SubmitForApprovals, Revoke, Expire, RefuseActivation, Tick

-----------------------------------------------------------------------------
(* Decisions and their reviews. *)

\* What the tables say of each other: a request is the only one on its decision, which is
\* adverse; assignments and resolutions belong to requests; and the inductive heart, a
\* decision that is not the last on its handoff was overturned.
Lineage ==
  /\ \A p, q \in requests : p.decision = q.decision => p = q
  /\ \A q \in requests : q.decision \in decisions /\ q.decision.value # "READY"
  /\ \A a \in assignments : a.request \in requests
  /\ \A s \in resolutions : s.request \in requests
  /\ \A d, e \in decisions :
       d.handoff = e.handoff /\ d.revision < e.revision =>
         \E s \in resolutions : s.request.decision = d
  /\ \A x \in acceptances : x.decision \in decisions

IInv == TypeOK /\ OneActivePerScope /\ OneDecisionPerRevision /\ Lineage /\ AcceptanceStands

\* Commands on decisions write well-typed rows.
LEMMA StageStepTyped == ASSUME TypeOK, StageNext PROVE TypeOK'
  <1>1. CTATypeOK'
    BY DEF StageNext, TypeOK, CTATypeOK, ctaVars, Decide, RequestReview, AssignIndependentReviewer,
           ResolveIndependentReview, AcceptHandoff
  <1> SUFFICES \/ UNCHANGED stageVars
               \/ /\ decisions' \subseteq Decisions
                  /\ requests' \subseteq RequestRows
                  /\ assignments' \subseteq [request : RequestRows, reviewer : Reviewers, assigner : Operators]
                  /\ resolutions' \subseteq [request : RequestRows, reviewer : Reviewers, status : Verdicts]
                  /\ acceptances' \subseteq [handoff : Handoffs, decision : Decisions,
                                             authorization : Authorizations, at : 1..MaxTime]
    BY <1>1 DEF TypeOK, stageVars
  <1> USE DEF TypeOK
  <1>2. ASSUME NEW h \in Handoffs, NEW user \in Users, NEW value \in Values, Decide(h, user, value)
        PROVE  decisions' \subseteq Decisions
    BY <1>2 DEF Decide, Decisions
  <1>3. ASSUME NEW d \in decisions, NEW id \in Requests, RequestReview(d, id)
        PROVE  requests' \subseteq RequestRows
    BY <1>3 DEF RequestReview, RequestRows
  <1>4. ASSUME NEW q \in requests, NEW reviewer \in Reviewers, NEW operator \in Operators,
               AssignIndependentReviewer(q, reviewer, operator)
        PROVE  assignments' \subseteq [request : RequestRows, reviewer : Reviewers, assigner : Operators]
    BY <1>4 DEF AssignIndependentReviewer
  <1>5. ASSUME NEW a \in assignments, NEW status \in Verdicts, NEW value \in Values,
               ResolveIndependentReview(a, status, value)
        PROVE  /\ resolutions' \subseteq [request : RequestRows, reviewer : Reviewers, status : Verdicts]
               /\ decisions' \subseteq Decisions
    <2>1. a.request \in RequestRows /\ a.reviewer \in Reviewers /\ a.reviewer \in Users
      BY PeopleAssumption
    <2>2. a.request.decision.handoff \in Handoffs /\ a.request.decision.revision \in Nat
      BY <2>1 DEF RequestRows, Decisions
    <2>3. Replacement(a, status, value) \subseteq Decisions
      BY <2>1, <2>2 DEF Replacement, Decisions
    <2> QED
      BY <1>5, <2>1, <2>3 DEF ResolveIndependentReview
  <1>6. ASSUME NEW d \in decisions, NEW c \in Authorizations, AcceptHandoff(d, c)
        PROVE  acceptances' \subseteq [handoff : Handoffs, decision : Decisions,
                                       authorization : Authorizations, at : 1..MaxTime]
    BY <1>6 DEF AcceptHandoff, Decisions, CTATypeOK
  <1> QED
    BY <1>2, <1>3, <1>4, <1>5, <1>6
       DEF StageNext, Decide, RequestReview, AssignIndependentReviewer, ResolveIndependentReview,
           AcceptHandoff

\* An unresolved request is about the last decision on its handoff, and nobody has
\* accepted there.
LEMMA UnderReviewIsLast ==
  ASSUME TypeOK, OneDecisionPerRevision, Lineage, AcceptanceStands,
         NEW a \in assignments, ~ \E s \in resolutions : s.request = a.request
  PROVE  LET source == a.request.decision IN
         /\ source \in decisions
         /\ \A d \in decisions : d.handoff = source.handoff => d.revision <= source.revision
         /\ \A x \in acceptances : x.handoff # source.handoff
  <1> DEFINE source == a.request.decision
  <1>1. a.request \in requests /\ source \in decisions /\ source.value # "READY"
    BY DEF Lineage
  <1>2. ~ \E s \in resolutions : s.request.decision = source
    BY <1>1 DEF Lineage
  <1>3. \A d \in decisions : d.revision \in Nat
    BY DEF TypeOK, Decisions
  <1>4. \A d \in decisions : d.handoff = source.handoff => d.revision <= source.revision
    BY <1>1, <1>2, <1>3 DEF Lineage
  <1>5. ASSUME NEW x \in acceptances, x.handoff = source.handoff
        PROVE  FALSE
    <2>1. /\ x.decision \in decisions /\ x.decision.value = "READY"
          /\ x.decision.handoff = source.handoff /\ source.revision <= x.decision.revision
      BY <1>1, <1>5 DEF Lineage, AcceptanceStands
    <2>2. x.decision.revision = source.revision
      BY <1>1, <1>3, <1>4, <2>1
    <2>3. x.decision = source
      BY <1>1, <2>1, <2>2 DEF OneDecisionPerRevision
    <2> QED
      BY <1>1, <2>1, <2>3
  <1> QED
    BY <1>1, <1>4, <1>5

\* The chain grows at its end only.
LEMMA StageStep ==
  ASSUME TypeOK, OneDecisionPerRevision, Lineage, AcceptanceStands, StageNext
  PROVE  OneDecisionPerRevision' /\ Lineage' /\ AcceptanceStands'
  <1>0. \A d \in decisions : d.revision \in Nat
    BY DEF TypeOK, Decisions
  <1>1. ASSUME NEW h \in Handoffs, NEW user \in Users, NEW value \in Values, Decide(h, user, value)
        PROVE  OneDecisionPerRevision' /\ Lineage' /\ AcceptanceStands'
    <2>1. \A x \in acceptances : x.handoff # h
      BY <1>1 DEF Decide, Lineage, AcceptanceStands
    <2>2. OneDecisionPerRevision'
      BY <1>1 DEF Decide, OneDecisionPerRevision
    <2>3. Lineage'
      BY <1>1 DEF Decide, Lineage
    <2>4. AcceptanceStands'
      BY <1>1, <2>1 DEF Decide, AcceptanceStands
    <2> QED
      BY <2>2, <2>3, <2>4
  <1>2. ASSUME NEW d \in decisions, NEW id \in Requests, RequestReview(d, id)
        PROVE  OneDecisionPerRevision' /\ Lineage' /\ AcceptanceStands'
    <2>1. Lineage'
      BY <1>2 DEF RequestReview, Reviewable, Asked, Lineage
    <2> QED
      BY <1>2, <2>1 DEF RequestReview, OneDecisionPerRevision, AcceptanceStands
  <1>3. ASSUME NEW q \in requests, NEW reviewer \in Reviewers, NEW operator \in Operators,
               AssignIndependentReviewer(q, reviewer, operator)
        PROVE  OneDecisionPerRevision' /\ Lineage' /\ AcceptanceStands'
    BY <1>3 DEF AssignIndependentReviewer, OneDecisionPerRevision, Lineage, AcceptanceStands
  <1>4. ASSUME NEW a \in assignments, NEW status \in Verdicts, NEW value \in Values,
               ResolveIndependentReview(a, status, value)
        PROVE  OneDecisionPerRevision' /\ Lineage' /\ AcceptanceStands'
    <2> DEFINE source == a.request.decision
               new == [handoff |-> source.handoff, revision |-> source.revision + 1,
                       value |-> value, by |-> a.reviewer]
               resolution == [request |-> a.request, reviewer |-> a.reviewer, status |-> status]
    <2>1. /\ source \in decisions
          /\ \A d \in decisions : d.handoff = source.handoff => d.revision <= source.revision
          /\ \A x \in acceptances : x.handoff # source.handoff
      BY <1>4, UnderReviewIsLast DEF ResolveIndependentReview
    <2>2. a.request \in requests /\ source.revision \in Nat
      BY <1>0, <2>1 DEF Lineage
    <2>3. decisions' = decisions \/ decisions' = decisions \cup {new}
      BY <1>4 DEF ResolveIndependentReview, Replacement
    <2>4. resolutions' = resolutions \cup {resolution} /\ resolution.request.decision = source
      BY <1>4 DEF ResolveIndependentReview
    <2>5. UNCHANGED <<requests, assignments, acceptances>>
      BY <1>4 DEF ResolveIndependentReview
    <2>6. new.handoff = source.handoff /\ new.revision = source.revision + 1
      OBVIOUS
    <2> HIDE DEF new, resolution, source
    <2>7. \A d \in decisions : d.handoff = new.handoff => d.revision < new.revision
      BY <1>0, <2>1, <2>2, <2>6
    <2>8. OneDecisionPerRevision'
      BY <1>0, <2>2, <2>3, <2>6, <2>7 DEF OneDecisionPerRevision
    <2>9. \A d \in decisions : d.handoff = new.handoff =>
            \E s \in resolutions' : s.request.decision = d
      <3> SUFFICES ASSUME NEW d \in decisions, d.handoff = new.handoff
                   PROVE  \E s \in resolutions' : s.request.decision = d
        OBVIOUS
      <3>1. CASE d = source
        BY <2>4, <3>1
      <3>2. CASE d # source
        <4>1. d.revision < source.revision
          BY <1>0, <2>1, <2>2, <2>6, <3>2 DEF OneDecisionPerRevision
        <4> QED
          BY <2>1, <2>4, <2>6, <4>1 DEF Lineage
      <3> QED
        BY <3>1, <3>2
    <2>10. \A d, e \in decisions' :
             d.handoff = e.handoff /\ d.revision < e.revision =>
               \E s \in resolutions' : s.request.decision = d
      <3> SUFFICES ASSUME NEW d \in decisions', NEW e \in decisions',
                          d.handoff = e.handoff, d.revision < e.revision
                   PROVE  \E s \in resolutions' : s.request.decision = d
        OBVIOUS
      <3>1. d # new
        BY <1>0, <2>2, <2>3, <2>6, <2>7
      <3>2. CASE e = new
        BY <2>3, <2>9, <3>1, <3>2
      <3>3. CASE e # new
        BY <2>3, <2>4, <3>1, <3>3 DEF Lineage
      <3> QED
        BY <3>2, <3>3
    <2>11. \A s \in resolutions' : s.request \in requests
      BY <2>2, <2>4 DEF Lineage, resolution
    <2>12. Lineage'
      BY <2>3, <2>5, <2>10, <2>11 DEF Lineage
    <2>13. AcceptanceStands'
      BY <2>1, <2>3, <2>5, <2>6 DEF AcceptanceStands
    <2> QED
      BY <2>8, <2>12, <2>13
  <1>5. ASSUME NEW d \in decisions, NEW c \in Authorizations, AcceptHandoff(d, c)
        PROVE  OneDecisionPerRevision' /\ Lineage' /\ AcceptanceStands'
    <2>1. AcceptanceStands'
      BY <1>5 DEF AcceptHandoff, AcceptanceStands
    <2> QED
      BY <1>5, <2>1 DEF AcceptHandoff, OneDecisionPerRevision, Lineage
  <1> QED
    BY <1>1, <1>2, <1>3, <1>4, <1>5 DEF StageNext

-----------------------------------------------------------------------------
(* The life of an authorization. *)

\* What the status of an authorization says of its dates and signatures: nothing happened to
\* one that waits, an ACTIVE one was activated in its window under every signature and has
\* not ended, and one that ended was activated before.
Lifecycle(c) ==
  /\ cta[c].status \in {"NONE", "DRAFT", "PENDING_APPROVALS"} =>
       cta[c].activatedAt = 0 /\ cta[c].endedAt = 0
  /\ cta[c].status = "ACTIVE" =>
       /\ cta[c].activatedAt # 0 /\ cta[c].validFrom <= cta[c].activatedAt
       /\ cta[c].activatedAt <= now
       /\ \A role \in OwnerRoles : cta[c].signed[role] = "APPROVE"
       /\ cta[c].endedAt = 0
  /\ cta[c].status \in {"REVOKED", "EXPIRED"} => cta[c].activatedAt # 0 /\ cta[c].endedAt # 0

\* What no command does to an authorization that was activated, or has ended.
RowKept(c) ==
  /\ cta[c].activatedAt # 0 =>
       /\ cta'[c].activatedAt = cta[c].activatedAt
       /\ cta'[c].validFrom = cta[c].validFrom /\ cta'[c].expiresAt = cta[c].expiresAt
       /\ cta'[c].signed = cta[c].signed
       /\ cta'[c].endedAt \in {cta[c].endedAt, now}
  /\ cta[c].endedAt # 0 => cta'[c] = cta[c]

LifecycleInv == \A c \in Authorizations : Lifecycle(c)

\* A row keeps its life and its dates while nobody writes it and the clock runs on.
LEMMA LifecycleFrame ==
  ASSUME CTATypeOK, NEW c \in Authorizations, Lifecycle(c), cta'[c] = cta[c],
         now' \in Nat, now <= now'
  PROVE  Lifecycle(c)' /\ RowKept(c)
  <1>1. now \in Nat /\ cta[c].activatedAt \in Nat
    BY TimeAssumption DEF CTATypeOK, Rows, Times
  <1> QED
    BY <1>1 DEF Lifecycle, RowKept

\* Every command on authorizations moves a row along its life: only a candidate under every
\* signature becomes ACTIVE, whatever the activation has seen, because the trigger compares
\* with the row itself.
LEMMA LifecycleStep ==
  ASSUME CTATypeOK, LifecycleInv, CTANext
  PROVE  LifecycleInv' /\ \A c \in Authorizations : RowKept(c)
  <1> SUFFICES ASSUME NEW c \in Authorizations PROVE Lifecycle(c)' /\ RowKept(c)
    BY DEF LifecycleInv
  <1> USE DEF CTATypeOK
  <1>0. /\ now \in Nat /\ now # 0
        /\ cta[c].activatedAt \in Nat /\ cta[c].endedAt \in Nat /\ cta[c].validFrom \in Nat
        /\ cta[c] \in Rows /\ Lifecycle(c)
    BY TimeAssumption DEF LifecycleInv, Rows, Times
  <1>1. ASSUME NEW d \in Authorizations, NEW scope, NEW from, NEW until, Create(d, scope, from, until)
        PROVE  Lifecycle(c)' /\ RowKept(c)
    <2>1. CASE c # d
      BY <1>0, <1>1, <2>1, LifecycleFrame DEF Create
    <2>2. CASE c = d
      <3>1. /\ cta[c].status = "NONE" /\ cta'[c].status = "DRAFT"
            /\ cta'[c].activatedAt = cta[c].activatedAt /\ cta'[c].endedAt = cta[c].endedAt
        BY <1>0, <1>1, <2>2 DEF Create, Rows
      <3> QED
        BY <1>0, <3>1 DEF Lifecycle, RowKept
    <2> QED
      BY <2>1, <2>2
  <1>2. ASSUME NEW d \in Authorizations, NEW from, NEW to,
               <<from, to>> \in {<<"DRAFT", "PENDING_APPROVALS">>, <<"ACTIVE", "REVOKED">>,
                                 <<"ACTIVE", "EXPIRED">>},
               Move(d, from, to)
        PROVE  Lifecycle(c)' /\ RowKept(c)
    <2>1. CASE c # d
      BY <1>0, <1>2, <2>1, LifecycleFrame DEF Move
    <2>2. CASE c = d
      <3>1. /\ cta[c].status = from /\ cta'[c].status = to
            /\ cta'[c].endedAt = IF to = "PENDING_APPROVALS" THEN cta[c].endedAt ELSE now
            /\ cta'[c].activatedAt = cta[c].activatedAt
            /\ cta'[c].validFrom = cta[c].validFrom /\ cta'[c].expiresAt = cta[c].expiresAt
            /\ cta'[c].signed = cta[c].signed
            /\ now' = now
        BY <1>0, <1>2, <2>2 DEF Move, Rows
      <3> QED
        BY <1>0, <1>2, <3>1 DEF Lifecycle, RowKept
    <2> QED
      BY <2>1, <2>2
  <1>3. ASSUME NEW d \in Authorizations, NEW role, NEW decision, Approve(d, role, decision)
        PROVE  Lifecycle(c)' /\ RowKept(c)
    <2>1. CASE c # d
      BY <1>0, <1>3, <2>1, LifecycleFrame DEF Approve
    <2>2. CASE c = d
      <3>1. /\ cta[c].status = "PENDING_APPROVALS" /\ cta'[c].status = "PENDING_APPROVALS"
            /\ cta'[c].activatedAt = cta[c].activatedAt /\ cta'[c].endedAt = cta[c].endedAt
        BY <1>0, <1>3, <2>2 DEF Approve, Rows
      <3> QED
        BY <1>0, <3>1 DEF Lifecycle, RowKept
    <2> QED
      BY <2>1, <2>2
  <1>4. ASSUME NEW s \in Sessions, Activate(s)
        PROVE  Lifecycle(c)' /\ RowKept(c)
    <2> DEFINE candidate == seen[s].id
    <2>0. candidate \in Authorizations /\ now' = now
      BY <1>4, Candidate DEF Activate
    <2>1. CASE c = candidate
      <3>1. /\ cta[c].status = "PENDING_APPROVALS"
            /\ cta[c].validFrom <= now
            /\ \A role \in OwnerRoles : cta[c].signed[role] = "APPROVE"
        BY <1>0, <1>4, <2>1
           DEF Activate, MayActivate, GuardMutation, Activated, InWindow, HumanApprovalsComplete, Rows
      <3>2. /\ cta'[c].status = "ACTIVE" /\ cta'[c].activatedAt = now
            /\ cta'[c].validFrom = cta[c].validFrom /\ cta'[c].signed = cta[c].signed
            /\ cta'[c].endedAt = cta[c].endedAt
        BY <1>0, <1>4, <2>1 DEF Activate, Activated, Rows
      <3> QED
        BY <1>0, <2>0, <3>1, <3>2 DEF Lifecycle, RowKept
    <2>2. CASE c # candidate /\ c \in Peers(candidate)
      <3>1. /\ cta[c].status = "ACTIVE" /\ cta'[c].status = "EXPIRED" /\ cta'[c].endedAt = now
            /\ cta'[c].activatedAt = cta[c].activatedAt
            /\ cta'[c].validFrom = cta[c].validFrom /\ cta'[c].expiresAt = cta[c].expiresAt
            /\ cta'[c].signed = cta[c].signed
        BY <1>0, <1>4, <2>2 DEF Activate, Peers, Rows
      <3> QED
        BY <1>0, <3>1 DEF Lifecycle, RowKept
    <2>3. CASE c # candidate /\ c \notin Peers(candidate)
      <3>1. cta'[c] = cta[c]
        BY <1>4, <2>3 DEF Activate
      <3> QED
        BY <1>0, <2>0, <3>1, LifecycleFrame
    <2> QED
      BY <2>1, <2>2, <2>3
  <1>5. ASSUME NEW s \in Sessions, NEW d \in Authorizations,
               ReadCandidate(s, d) \/ RefuseActivation(s)
        PROVE  Lifecycle(c)' /\ RowKept(c)
    BY <1>0, <1>5, LifecycleFrame DEF ReadCandidate, RefuseActivation
  <1>6. CASE Tick
    BY <1>0, <1>6, LifecycleFrame DEF Tick
  <1> QED
    BY <1>1, <1>2, <1>3, <1>4, <1>5, <1>6 DEF CTANext, SubmitForApprovals, Revoke, Expire

\* The authorization of an acceptance was in force, and no command takes that back.
AcceptanceIsPast == \A x \in acceptances : x.at <= now

\* Each step of the authorizations, of the handoffs and of the clock leaves every acceptance
\* under an authorization that was in force at its time.
LEMMA AuthorityStep ==
  ASSUME TypeOK, LifecycleInv, AcceptedUnderAuthority, AcceptanceIsPast, [Next]_vars
  PROVE  AcceptedUnderAuthority' /\ AcceptanceIsPast' /\ LifecycleInv'
  <1>0. /\ now \in Nat
        /\ \A x \in acceptances : x.authorization \in Authorizations /\ x.at \in Nat
    BY TimeAssumption DEF TypeOK, CTATypeOK
  <1>1. CASE CTANext /\ UNCHANGED stageVars
    <2>1. LifecycleInv' /\ acceptances' = acceptances
      BY <1>1, LifecycleStep DEF TypeOK, stageVars
    <2>2. now' \in Nat /\ now <= now'
      <3>1. now' = now \/ Tick
        <4>1. \A c, x, y, z : Create(c, x, y, z) \/ Move(c, x, y) \/ Approve(c, x, y) => now' = now
          BY DEF Create, Move, Approve
        <4>2. \A s, c : ReadCandidate(s, c) \/ Activate(s) \/ RefuseActivation(s) => now' = now
          BY DEF ReadCandidate, Activate, RefuseActivation
        <4> QED
          BY <1>1, <4>1, <4>2 DEF CTANext, SubmitForApprovals, Revoke, Expire
      <3> QED
        BY <1>0, <3>1 DEF Tick
    <2>3. ASSUME NEW x \in acceptances
          PROVE  LET c == cta'[x.authorization] IN
                 /\ c.activatedAt # 0 /\ c.validFrom <= c.activatedAt
                 /\ c.activatedAt <= x.at /\ x.at < c.expiresAt
                 /\ \A role \in OwnerRoles : c.signed[role] = "APPROVE"
                 /\ c.endedAt # 0 => x.at <= c.endedAt
      <3>1. RowKept(x.authorization)
        BY <1>0, <1>1, LifecycleStep DEF TypeOK
      <3> QED
        BY <2>3, <3>1 DEF RowKept, AcceptedUnderAuthority, AcceptanceIsPast
    <2>4. AcceptanceIsPast'
      BY <1>0, <2>1, <2>2 DEF AcceptanceIsPast
    <2> QED
      BY <2>1, <2>3, <2>4 DEF AcceptedUnderAuthority
  <1>2. CASE StageNext
    <2>1. UNCHANGED ctaVars
      BY <1>2 DEF StageNext, Decide, RequestReview, AssignIndependentReviewer,
                  ResolveIndependentReview, AcceptHandoff
    <2>2. ASSUME NEW x \in acceptances', x \notin acceptances
          PROVE  /\ x.at = now /\ x.authorization \in Authorizations
                 /\ cta[x.authorization].status = "ACTIVE" /\ now < cta[x.authorization].expiresAt
      BY <1>2, <2>2 DEF StageNext, Decide, RequestReview, AssignIndependentReviewer,
                  ResolveIndependentReview, AcceptHandoff, Effective, InWindow
    <2>3. AcceptanceIsPast' /\ LifecycleInv'
      BY <1>0, <2>1, <2>2 DEF AcceptanceIsPast, LifecycleInv, Lifecycle, ctaVars
    <2>4. ASSUME NEW x \in acceptances'
          PROVE  LET c == cta[x.authorization] IN
                 /\ c.activatedAt # 0 /\ c.validFrom <= c.activatedAt
                 /\ c.activatedAt <= x.at /\ x.at < c.expiresAt
                 /\ \A role \in OwnerRoles : c.signed[role] = "APPROVE"
                 /\ c.endedAt # 0 => x.at <= c.endedAt
      <3>1. CASE x \in acceptances
        BY <3>1 DEF AcceptedUnderAuthority
      <3>2. CASE x \notin acceptances
        BY <2>2, <2>4, <3>2 DEF LifecycleInv, Lifecycle
      <3> QED
        BY <3>1, <3>2
    <2> QED
      BY <2>1, <2>3, <2>4 DEF AcceptedUnderAuthority, ctaVars
  <1>3. CASE UNCHANGED vars
    BY <1>3 DEF vars, ctaVars, stageVars, AcceptedUnderAuthority, AcceptanceIsPast, LifecycleInv, Lifecycle
  <1> QED
    BY <1>1, <1>2, <1>3 DEF Next

-----------------------------------------------------------------------------
(* The theorems. *)

\* The invariant holds at the start and is kept by every step.
LEMMA Inductive == Spec => []IInv
  <1>1. Init => IInv
    BY InitTyped DEF Init, CTAInit, IInv, OneActivePerScope, OneDecisionPerRevision, Lineage,
                     AcceptanceStands
  <1>2. IInv /\ [Next]_vars => IInv'
    <2> SUFFICES ASSUME IInv, [Next]_vars PROVE IInv'
      OBVIOUS
    <2>1. CASE CTANext /\ UNCHANGED stageVars
      <3>1. CTATypeOK' /\ OneActivePerScope'
        BY <2>1, CTAStepTyped, OneActiveStep DEF IInv, TypeOK
      <3> QED
        BY <2>1, <3>1 DEF IInv, TypeOK, stageVars, OneDecisionPerRevision, Lineage, AcceptanceStands
    <2>2. CASE StageNext
      <3>1. UNCHANGED ctaVars
        BY <2>2 DEF StageNext, Decide, RequestReview, AssignIndependentReviewer,
                    ResolveIndependentReview, AcceptHandoff
      <3>2. OneActivePerScope'
        BY <3>1 DEF IInv, OneActivePerScope, ctaVars
      <3> QED
        BY <2>2, <3>2, StageStepTyped, StageStep DEF IInv
    <2>3. CASE UNCHANGED vars
      BY <2>3 DEF IInv, vars, ctaVars, stageVars, TypeOK, CTATypeOK, OneActivePerScope,
                  OneDecisionPerRevision, Lineage, AcceptanceStands
    <2> QED
      BY <2>1, <2>2, <2>3 DEF Next
  <1> QED
    BY <1>1, <1>2, PTL DEF Spec

\* Type correctness of authorizations, decisions, reviews and acceptances.
THEOREM TypeCorrect == Spec => []TypeOK
  BY Inductive, PTL DEF IInv

\* activate_controlled_task_authorization alone, stale candidate and all, keeps a scope to
\* one ACTIVE authorization.
THEOREM OneActive == Spec => []OneActivePerScope
  BY Inductive, PTL DEF IInv

\* request_next_training_stage_review and resolve_independent_review alone keep the
\* decisions on a handoff to one chain.
THEOREM OneChain == Spec => []OneDecisionPerRevision
  BY Inductive, PTL DEF IInv

\* An accepted decision is READY and the last one, however many reviews are under way.
THEOREM AcceptedForEver == Spec => []AcceptanceStands
  BY Inductive, PTL DEF IInv

\* The life of every authorization, and what its acceptances found.
LEMMA AuthorityHolds == Spec => [](LifecycleInv /\ AcceptanceIsPast /\ AcceptedUnderAuthority)
  <1>1. Init => LifecycleInv /\ AcceptanceIsPast /\ AcceptedUnderAuthority
    BY DEF Init, CTAInit, LifecycleInv, Lifecycle, AcceptanceIsPast, AcceptedUnderAuthority
  <1>2. TypeOK /\ LifecycleInv /\ AcceptanceIsPast /\ AcceptedUnderAuthority /\ [Next]_vars
          => LifecycleInv' /\ AcceptanceIsPast' /\ AcceptedUnderAuthority'
    BY AuthorityStep
  <1> QED
    BY <1>1, <1>2, TypeCorrect, PTL DEF Spec

\* Every acceptance was made under an authorization in force, activated in its window under
\* every signature, however late the activation locked its candidate.
THEOREM UnderAuthority == Spec => []AcceptedUnderAuthority
  BY AuthorityHolds, PTL

\* No interleaving of activations, revocations and expiries activates an authorization twice
\* or brings an ended one back.
THEOREM NeverRevived == Spec => ActivatedOnce
  <1>1. TypeOK /\ LifecycleInv /\ [Next]_vars =>
          [\A c \in Authorizations :
             /\ cta[c].activatedAt # 0 => cta'[c].activatedAt = cta[c].activatedAt
             /\ cta[c].endedAt # 0 => cta'[c] = cta[c]]_ctaVars
    <2> SUFFICES ASSUME TypeOK, LifecycleInv, [Next]_vars, ctaVars' # ctaVars,
                        NEW c \in Authorizations
                 PROVE  RowKept(c)
      BY DEF RowKept
    <2>1. CTANext
      BY DEF Next, vars, ctaVars, StageNext, Decide, RequestReview, AssignIndependentReviewer,
             ResolveIndependentReview, AcceptHandoff
    <2> QED
      BY <2>1, LifecycleStep DEF TypeOK
  <1> QED
    BY <1>1, TypeCorrect, AuthorityHolds, PTL DEF Spec, ActivatedOnce
=============================================================================
