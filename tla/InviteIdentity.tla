--------------------------- MODULE InviteIdentity ---------------------------
(***************************************************************************)
(* How a person gets into the platform.  An operator creates an invite, for *)
(* somebody new or for a user it targets, or a re-entry link to an existing *)
(* Enrollment; the token is exchanged once for a join context, and the      *)
(* context is confirmed into an identity, an active Enrollment and a        *)
(* session.  Links are revoked and expire, Enrollments are cancelled, and   *)
(* a known learner also signs in with the phone, without any link, until    *)
(* the account is migrated into a corporate one.                            *)
(*                                                                          *)
(* Every command locks the rows it writes and is one step, but for the      *)
(* exchange: the Enrollments of the target are read without a lock, so      *)
(* that what was read (exchanging) may be stale when the rows are inserted. *)
(* Only a partial unique index stands between two exchanges then.           *)
(*                                                                          *)
(* The user and the Enrollment that an invite may create are named by the   *)
(* invite; Known names the learner with an account of before and the        *)
(* Enrollment the first sign-in creates.                                    *)
(***************************************************************************)
EXTENDS Naturals, FiniteSets

CONSTANTS
  Invites,       \* invites, each with the user and Enrollment it may create
  Reviewers,     \* reviewers an invite may name
  LoginReviewer, \* feishu_learner_reviewer_id
  Known,         \* the learner with an account, and the Enrollment of the login
  NoOne,         \* SQL NULL
  MaxSessions    \* bound of the model: live sessions of one user

ASSUME NameAssumption == Known \notin Invites /\ NoOne \notin Invites \cup {Known}
ASSUME ReviewerAssumption == LoginReviewer \in Reviewers
ASSUME BoundAssumption == MaxSessions \in Nat \ {0}

VARIABLES
  invites,      \* the Invite rows; late: expires_at has passed
  contexts,     \* the JoinContext of each invite
  exchanging,   \* the Enrollment an exchange under way has decided for
  users,        \* User.status
  enrollments,  \* Enrollment.status
  graduated,    \* the Enrollments with an Outcome
  sessions      \* number of live learner sessions of each user

vars == <<invites, contexts, exchanging, users, enrollments, graduated, sessions>>

Keys == Invites \cup {Known}
Open == {"PENDING_IDENTITY", "ACTIVE"}
Entered == {"ACTIVE", "COMPLETED"}

NoInvite  == [status |-> "NONE", target |-> NoOne, goal |-> NoOne,
              reviewer |-> LoginReviewer, late |-> FALSE]
NoContext == [status |-> "NONE", enrollment |-> NoOne, late |-> FALSE]

TypeOK ==
  /\ invites \in [Invites -> [status : {"NONE", "ACTIVE", "CONSUMED", "REVOKED", "EXPIRED"},
                              target : Keys \cup {NoOne}, goal : Keys \cup {NoOne},
                              reviewer : Reviewers, late : BOOLEAN]]
  /\ contexts \in [Invites -> [status : {"NONE", "PENDING", "CONFIRMED", "REVOKED"},
                               enrollment : Keys \cup {NoOne}, late : BOOLEAN]]
  /\ exchanging \in [Invites -> Keys \cup {NoOne}]
  /\ users \in [Keys -> {"NONE", "PENDING_IDENTITY", "ACTIVE", "DISABLED"}]
  /\ enrollments \in [Keys -> {"NONE", "PENDING_IDENTITY", "ACTIVE", "COMPLETED", "CANCELLED"}]
  /\ graduated \subseteq Keys
  /\ sessions \in [Keys -> 0..MaxSessions]

Init ==
  /\ invites = [i \in Invites |-> NoInvite]
  /\ contexts = [i \in Invites |-> NoContext]
  /\ exchanging = [i \in Invites |-> NoOne]
  /\ users = [k \in Keys |-> IF k = Known THEN "ACTIVE" ELSE "NONE"]
  /\ enrollments = [k \in Keys |-> "NONE"]
  /\ graduated = {}
  /\ sessions = [k \in Keys |-> 0]

-----------------------------------------------------------------------------
(* What the commands read. *)

\* Enrollment.learner_id and reviewer_id: what the invite said at the exchange.
Owner(e) == IF e = Known \/ invites[e].target = NoOne THEN e ELSE invites[e].target
ReviewerOf(e) == IF e = Known THEN LoginReviewer ELSE invites[e].reviewer
EnrollmentsOf(u) == {e \in Keys : enrollments[e] # "NONE" /\ Owner(e) = u}
OpenOf(u) == {e \in EnrollmentsOf(u) : enrollments[e] \in Open}

\* uq_enrollments_active_learner: Enrollment e may become an open one of u.
UniqueOpen(u, e) == OpenOf(u) \subseteq {e}

\* A row that an exchange under way has locked.
Locked(i) == exchanging[i] # NoOne

\* matching_reentry_enrollments: the one the link names, or the only one there is.
Matching(i) ==
  LET link == invites[i]
      entered == {e \in EnrollmentsOf(link.target) : enrollments[e] \in Entered}
      named == IF link.goal # NoOne THEN entered \cap {link.goal}
               ELSE IF Cardinality(entered) = 1 THEN entered ELSE {}
  IN {e \in named : ReviewerOf(e) = link.reviewer}

-----------------------------------------------------------------------------
(* Links. *)

\* create_invite; the target may be any user of the organization.
CreateInvite(i, target, reviewer) ==
  /\ invites[i].status = "NONE"
  /\ target # NoOne => users[target] # "NONE"
  /\ invites' = [invites EXCEPT ![i] = [NoInvite EXCEPT !.status = "ACTIVE",
                                          !.target = target, !.reviewer = reviewer]]
  /\ UNCHANGED <<contexts, exchanging, users, enrollments, graduated, sessions>>

\* create_learner_reentry: not while another usable link leads there.  (Whether a
\* completed journey has a coaching revision to do is not of this module.)
CreateLearnerReentry(i, e) ==
  /\ invites[i].status = "NONE"
  /\ enrollments[e] \in Entered
  /\ users[Owner(e)] = "ACTIVE"
  /\ \A j \in Invites : ~ /\ invites[j].status = "ACTIVE" /\ ~ invites[j].late
                          /\ invites[j].target = Owner(e)
                          /\ invites[j].reviewer = ReviewerOf(e)
                          /\ invites[j].goal \in {e, NoOne}
  /\ invites' = [invites EXCEPT ![i] = [status |-> "ACTIVE", target |-> Owner(e), goal |-> e,
                                          reviewer |-> ReviewerOf(e), late |-> FALSE]]
  /\ UNCHANGED <<contexts, exchanging, users, enrollments, graduated, sessions>>

\* Time passes; a context never outlives its invite.
PassExpiry(i) ==
  /\ invites[i].status = "ACTIVE"
  /\ \/ /\ invites' = [invites EXCEPT ![i].late = TRUE]
        /\ contexts' = [contexts EXCEPT ![i].late = @ \/ contexts[i].status # "NONE"]
     \/ /\ contexts[i].status = "PENDING"
        /\ contexts' = [contexts EXCEPT ![i].late = TRUE]
        /\ UNCHANGED invites
  /\ UNCHANGED <<exchanging, users, enrollments, graduated, sessions>>

\* Mutant: a context that was exchanged and not confirmed is forgotten.
RevokeContextAlone(i) == UNCHANGED <<contexts, users, enrollments>>

\* What revoke_invite takes back of an exchange that is not confirmed yet.
RevokeContext(i) ==
  LET e == contexts[i].enrollment IN
  IF contexts[i].status = "PENDING"
  THEN /\ contexts' = [contexts EXCEPT ![i].status = "REVOKED"]
       /\ enrollments' = [enrollments EXCEPT ![e] = IF @ = "PENDING_IDENTITY" THEN "CANCELLED" ELSE @]
       /\ users' = [users EXCEPT ![i] = IF @ = "PENDING_IDENTITY" THEN "DISABLED" ELSE @]
  ELSE UNCHANGED <<contexts, users, enrollments>>

\* revoke_invite; a late invite only learns that it is expired.
RevokeInvite(i) ==
  /\ invites[i].status = "ACTIVE"
  /\ ~ Locked(i)
  /\ IF invites[i].late
     THEN /\ invites' = [invites EXCEPT ![i].status = "EXPIRED"]
          /\ UNCHANGED <<contexts, users, enrollments>>
     ELSE /\ invites' = [invites EXCEPT ![i].status = "REVOKED"]
          /\ RevokeContext(i)
  /\ UNCHANGED <<exchanging, graduated, sessions>>

-----------------------------------------------------------------------------
(* exchange_invite: look, then insert. *)

ExchangeLate(i) ==
  /\ invites[i].status = "ACTIVE"
  /\ invites[i].late
  /\ ~ Locked(i)
  /\ invites' = [invites EXCEPT ![i].status = "EXPIRED"]
  /\ UNCHANGED <<contexts, exchanging, users, enrollments, graduated, sessions>>

\* The decision: re-enter the matching Enrollment, or join with a new one.
ExchangeReads(i) ==
  /\ invites[i].status = "ACTIVE"
  /\ ~ invites[i].late
  /\ ~ Locked(i)
  /\ contexts[i].status = "NONE"
  /\ LET u == invites[i].target IN
     \/ /\ u = NoOne
        /\ exchanging' = [exchanging EXCEPT ![i] = i]
     \/ /\ u # NoOne
        /\ users[u] = "ACTIVE"
        /\ \E e \in Matching(i) :
             /\ invites[i].goal = NoOne => OpenOf(u) \subseteq {e}
             /\ exchanging' = [exchanging EXCEPT ![i] = e]
     \/ /\ u # NoOne
        /\ users[u] = "ACTIVE"
        /\ Matching(i) = {}
        /\ OpenOf(u) = {}
        /\ exchanging' = [exchanging EXCEPT ![i] = i]
  /\ UNCHANGED <<invites, contexts, users, enrollments, graduated, sessions>>

\* The rows, unless the index refuses the new Enrollment.
ExchangeInserts(i) ==
  /\ Locked(i)
  /\ LET e == exchanging[i] IN
     /\ contexts' = [contexts EXCEPT ![i] = [status |-> "PENDING", enrollment |-> e,
                                               late |-> invites[i].late]]
     /\ IF e = i
        THEN /\ UniqueOpen(IF invites[i].target = NoOne THEN i ELSE invites[i].target, e)
             /\ enrollments' = [enrollments EXCEPT ![i] = "PENDING_IDENTITY"]
             /\ users' = IF invites[i].target = NoOne
                         THEN [users EXCEPT ![i] = "PENDING_IDENTITY"] ELSE users
        ELSE UNCHANGED <<enrollments, users>>
  /\ exchanging' = [exchanging EXCEPT ![i] = NoOne]
  /\ UNCHANGED <<invites, graduated, sessions>>

\* The index or a crash of the server rolls the exchange back.
ExchangeAborts(i) ==
  /\ Locked(i)
  /\ exchanging' = [exchanging EXCEPT ![i] = NoOne]
  /\ UNCHANGED <<invites, contexts, users, enrollments, graduated, sessions>>

-----------------------------------------------------------------------------
(* confirm_identity *)

\* Mutant: whatever became of the user since the exchange.
ConfirmableByContext(i) ==
  /\ contexts[i].status = "PENDING" /\ ~ contexts[i].late
  /\ ~ Locked(i)
  /\ invites[i].status = "ACTIVE" /\ ~ invites[i].late
  /\ enrollments[contexts[i].enrollment] \in Entered \cup {"PENDING_IDENTITY"}

\* The context and its invite still hold, and so does the user.
Confirmable(i) ==
  /\ contexts[i].status = "PENDING" /\ ~ contexts[i].late
  /\ ~ Locked(i)
  /\ invites[i].status = "ACTIVE" /\ ~ invites[i].late
  /\ enrollments[contexts[i].enrollment] \in Entered \cup {"PENDING_IDENTITY"}
  /\ users[Owner(contexts[i].enrollment)] \in {"PENDING_IDENTITY", "ACTIVE"}

Consume(i) ==
  /\ invites' = [invites EXCEPT ![i].status = "CONSUMED"]
  /\ contexts' = [contexts EXCEPT ![i].status = "CONFIRMED"]

\* A first identity: user and Enrollment become active with the session.
ConfirmJoin(i) ==
  LET e == contexts[i].enrollment
      u == Owner(e)
  IN
  /\ Confirmable(i)
  /\ enrollments[e] = "PENDING_IDENTITY"
  /\ sessions[u] < MaxSessions
  /\ Consume(i)
  /\ enrollments' = [enrollments EXCEPT ![e] = "ACTIVE"]
  /\ users' = [users EXCEPT ![i] = IF u = i THEN "ACTIVE" ELSE @]
  /\ sessions' = [sessions EXCEPT ![u] = @ + 1]
  /\ UNCHANGED <<exchanging, graduated>>

\* Every live session of the learner is revoked, and there is one new one.
RotateSessions(u) == sessions' = [sessions EXCEPT ![u] = 1]

\* Mutant: the Enrollment is activated whichever way the learner came.
ReenterActivates(e) == enrollments' = [enrollments EXCEPT ![e] = "ACTIVE"]

\* A re-entry reads the Enrollment and leaves it as it is.
Reenter(e) == UNCHANGED enrollments

\* A re-entry: the Enrollment must still be entered, under the same reviewer.
ConfirmReentry(i) ==
  LET e == contexts[i].enrollment IN
  /\ Confirmable(i)
  /\ enrollments[e] # "PENDING_IDENTITY"
  /\ invites[i].target = Owner(e)
  /\ ReviewerOf(e) = invites[i].reviewer
  /\ Consume(i)
  /\ Reenter(e)
  /\ RotateSessions(Owner(e))
  /\ UNCHANGED <<exchanging, users, graduated>>

-----------------------------------------------------------------------------
(* Enrollments and sessions, from elsewhere. *)

\* cancel_enrollment looks at one JoinContext of the Enrollment, any of them.
RevokeOneLink(e) ==
  LET leading == {i \in Invites : contexts[i].enrollment = e} IN
  \/ /\ leading = {}
     /\ UNCHANGED <<invites, contexts>>
  \/ \E i \in leading :
       IF contexts[i].status = "PENDING"
       THEN /\ ~ Locked(i)
            /\ contexts' = [contexts EXCEPT ![i].status = "REVOKED"]
            /\ invites' = [invites EXCEPT ![i].status = IF @ = "ACTIVE" THEN "REVOKED" ELSE @]
       ELSE UNCHANGED <<invites, contexts>>

\* cancel_enrollment, of an Enrollment without a review and without a retest.
CancelEnrollment(e) ==
  /\ enrollments[e] \in Open
  /\ e \notin graduated
  /\ RevokeOneLink(e)
  /\ enrollments' = [enrollments EXCEPT ![e] = "CANCELLED"]
  /\ UNCHANGED <<exchanging, users, graduated, sessions>>

\* finalize_review, at the end of the journey or of its retest.
Complete(e) ==
  /\ enrollments[e] = "ACTIVE"
  /\ enrollments' = [enrollments EXCEPT ![e] = "COMPLETED"]
  /\ graduated' = graduated \cup {e}
  /\ UNCHANGED <<invites, contexts, exchanging, users, sessions>>

\* start_evidence_revision reopens a completed journey, if the index lets it; the
\* command of a migrated learner comes from the corporate account.
StartEvidenceRevision(e) ==
  /\ enrollments[e] = "COMPLETED"
  /\ sessions[Owner(e)] > 0 \/ users[Owner(e)] = "DISABLED"
  /\ UniqueOpen(Owner(e), e)
  /\ enrollments' = [enrollments EXCEPT ![e] = "ACTIVE"]
  /\ UNCHANGED <<invites, contexts, exchanging, users, graduated, sessions>>

\* provision_learner: a login creates a journey for a learner without any.
ProvisionLearner ==
  enrollments' = IF EnrollmentsOf(Known) = {}
                 THEN [enrollments EXCEPT ![Known] = "ACTIVE"] ELSE enrollments

\* A sign-in with the phone revokes the learner's other sessions.
SignIn ==
  /\ users[Known] = "ACTIVE"
  /\ ProvisionLearner
  /\ RotateSessions(Known)
  /\ UNCHANGED <<invites, contexts, exchanging, users, graduated>>

\* migrate_completion_code retires an account that has no identity but its phone.
MigrateCompletionCode ==
  /\ users[Known] = "ACTIVE"
  /\ EnrollmentsOf(Known) \cap graduated # {}
  /\ ~ \E i \in Invites : invites[i].target = Known /\ contexts[i].enrollment = i
                          /\ contexts[i].status = "CONFIRMED"
  /\ users' = [users EXCEPT ![Known] = "DISABLED"]
  /\ sessions' = [sessions EXCEPT ![Known] = 0]
  /\ UNCHANGED <<invites, contexts, exchanging, enrollments, graduated>>

\* logout_session, or expires_at of a session has passed.
SessionEnds(u) ==
  /\ sessions[u] > 0
  /\ sessions' = [sessions EXCEPT ![u] = @ - 1]
  /\ UNCHANGED <<invites, contexts, exchanging, users, enrollments, graduated>>

Next ==
  \/ \E i \in Invites :
       \/ \E target \in Keys \cup {NoOne}, reviewer \in Reviewers : CreateInvite(i, target, reviewer)
       \/ \E e \in Keys : CreateLearnerReentry(i, e)
       \/ PassExpiry(i) \/ RevokeInvite(i)
       \/ ExchangeLate(i) \/ ExchangeReads(i) \/ ExchangeInserts(i) \/ ExchangeAborts(i)
       \/ ConfirmJoin(i) \/ ConfirmReentry(i)
  \/ \E e \in Keys : CancelEnrollment(e) \/ Complete(e) \/ StartEvidenceRevision(e)
  \/ SignIn \/ MigrateCompletionCode
  \/ \E u \in Keys : SessionEnds(u)

Spec == Init /\ [][Next]_vars

-----------------------------------------------------------------------------
(* What must hold. *)

\* A link that was taken back opens nothing: once an invite is revoked or
\* expired, nobody holds a context of it that was or can be confirmed, the user
\* made for it is not active and has no session, and its Enrollment is not open
\* (expired: not active).  The command that takes it back may fall between any
\* two steps of the person who uses it.
TakenBackOpensNothing == \A i \in Invites :
  invites[i].status \in {"REVOKED", "EXPIRED"} =>
    /\ contexts[i].status # "CONFIRMED"
    /\ contexts[i].status = "PENDING" => contexts[i].late
    /\ users[i] # "ACTIVE" /\ sessions[i] = 0
    /\ enrollments[i] \notin Entered
    /\ invites[i].status = "REVOKED" => enrollments[i] # "PENDING_IDENTITY"

\* The rows of a join agree: an Enrollment that a link created is in use only if
\* that link was consumed by the confirmation of its own context, by a user who
\* is active; and a session belongs to an active user, also when the account was
\* migrated between the exchange and the confirmation of a link.  And exchanges of
\* several links, a sign-in and the reopening of a completed journey never leave a
\* learner two open Enrollments.  (All rows are typed.)
JoinIsAllOrNothing ==
  /\ TypeOK
  /\ \A u \in Keys : Cardinality(OpenOf(u)) <= 1
  /\ \A i \in Invites : enrollments[i] \in Entered =>
       /\ invites[i].status = "CONSUMED"
       /\ contexts[i].status = "CONFIRMED" /\ contexts[i].enrollment = i
       /\ users[Owner(i)] = "ACTIVE"
  /\ \A u \in Keys : sessions[u] > 0 => users[u] = "ACTIVE"

\* Coming back through a link changes no user and no Enrollment, whatever became
\* of them since the exchange, never enters a cancelled one, and leaves the
\* learner one session, the new one.
ReentryPreserves == [][\A i \in Invites :
  (invites'[i].status = "CONSUMED" /\ invites[i].status = "ACTIVE"
     /\ contexts[i].enrollment # i) =>
    LET e == contexts[i].enrollment IN
    /\ UNCHANGED <<users, enrollments>>
    /\ enrollments[e] \in Entered
    /\ sessions' = [sessions EXCEPT ![Owner(e)] = 1]]_vars
=============================================================================
