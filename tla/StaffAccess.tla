---------------------------- MODULE StaffAccess ----------------------------
(***************************************************************************)
(* How the staff get in.  There are two ways.  An operator hands a member   *)
(* of the staff a link for one role; following it and signing in at Feishu  *)
(* ties the Feishu account to that member, and from then on the account     *)
(* alone signs in.  Or a super administrator grants access to somebody of   *)
(* the directory, alone or with a department: an account that nobody has    *)
(* gets a user of its own, and the user of an account in use, a learner     *)
(* perhaps, becomes an administrator; such access is demoted and revoked.   *)
(* An account is revoked, revived by a link that is younger than the        *)
(* revocation, or, while revoked, transferred from a reviewer to a content  *)
(* editor.  The same account may also enter on the side of the learners.    *)
(* Whoever commands may not touch the own account and access, and is not    *)
(* among the members here: an operator, and the super administrator who     *)
(* may make others (can_grant_super_admin).                                 *)
(*                                                                          *)
(* A sign-in is started; called back, it consumes its state, commits, asks  *)
(* the provider who it is, and runs one transaction: on the learners' side  *)
(* it locks the organization, then the row of the account, if there is one, *)
(* the learner and the link, reads whether the member has an account        *)
(* already without any lock (CHECKED), and writes.  Nobody reads the state  *)
(* again but to refuse it, so that the first commit and the read of the     *)
(* second transaction are one step here.                                    *)
(***************************************************************************)
EXTENDS Naturals, FiniteSets

CONSTANTS
  Staff,     \* users the operator made
  HomeRole,  \* the staff role each of them has from the start
  Accounts,  \* Feishu accounts; each also names the user it may come with
  Links,     \* identity links
  Logins,    \* sign-ins, each with the session it may open
  Nothing    \* SQL NULL

ASSUME StaffAssumption == HomeRole \in [Staff -> {"REVIEWER", "CONTENT_EDITOR"}]
ASSUME AccountAssumption == Accounts \cap Staff = {}
ASSUME NothingAssumption == Nothing \notin Staff \cup Accounts \cup Links

VARIABLES
  identities,  \* the ExternalIdentity of each account
  links,       \* the ExternalIdentityLink rows
  logins,      \* the OAuthLoginState rows, and how far their sign-in is
  tickets,     \* the IdentitySession that each sign-in opened
  roles,       \* the RoleAssignment rows
  access       \* the ReviewAdminAccess rows

accessVars == <<identities, links, logins, tickets, roles, access>>

Members == Staff \cup Accounts
StaffRoles == {"REVIEWER", "CONTENT_EDITOR"}

NoIdentity == [user |-> Nothing, live |-> FALSE, revision |-> 0]
NoLink == [status |-> "NONE", user |-> Nothing, role |-> "REVIEWER", late |-> FALSE,
           outdated |-> {}]  \* outdated: the accounts revoked since created_at
NoLogin == [stage |-> "NONE", link |-> Nothing, role |-> "LEARNER", account |-> Nothing, seen |-> 0]
NoTicket == [user |-> Nothing, account |-> Nothing, revision |-> 0, role |-> "LEARNER",
             revoked |-> TRUE]

AccessTypeOK ==
  /\ identities \in [Accounts -> [user : Members \cup {Nothing}, live : BOOLEAN, revision : Nat]]
  /\ links \in [Links -> [status : {"NONE", "PENDING", "EXPIRED", "REVOKED", "CONSUMED"},
                          user : Members \cup {Nothing}, role : StaffRoles, late : BOOLEAN,
                          outdated : SUBSET Accounts]]
  /\ logins \in [Logins -> [stage : {"NONE", "STARTED", "CHECKED", "DONE", "FAILED"},
                            link : Links \cup {Nothing}, role : StaffRoles \cup {"LEARNER"},
                            account : Accounts \cup {Nothing}, seen : Nat]]
  /\ tickets \in [Logins -> [user : Members \cup {Nothing}, account : Accounts \cup {Nothing},
                             revision : Nat, role : StaffRoles \cup {"LEARNER"},
                             revoked : BOOLEAN]]
  /\ roles \in [Members -> SUBSET (StaffRoles \cup {"LEARNER"})]
  /\ access \in [Members -> {"none", "admin", "super_admin", "revoked"}]

AccessInit ==
  /\ identities = [a \in Accounts |-> NoIdentity]
  /\ links = [k \in Links |-> NoLink]
  /\ logins = [l \in Logins |-> NoLogin]
  /\ tickets = [l \in Logins |-> NoTicket]
  /\ roles = [m \in Members |-> IF m \in Staff THEN {HomeRole[m]} ELSE {}]
  /\ access = [m \in Members |-> "none"]

-----------------------------------------------------------------------------
(* What the commands read. *)

Exists(a) == identities[a].user # Nothing
AccountsOf(m) == {a \in Accounts : identities[a].user = m}
HasIdentity(m) == \E a \in AccountsOf(m) : identities[a].live
Holder(a) == IF Exists(a) THEN identities[a].user ELSE a
Usable(k) == links[k].status = "PENDING" /\ ~ links[k].late

\* Rows that a sign-in holds until it commits; an account without a row is not held.
HeldLink(k) == \E l \in Logins : logins[l].stage = "CHECKED" /\ logins[l].link = k
HeldAccount(a) == \E l \in Logins : /\ logins[l].stage = "CHECKED"
                                    /\ logins[l].account = a /\ logins[l].seen > 0

\* On the learners' side a sign-in holds the organization and the user of the account.
HoldsOrganization(l) == logins[l].stage = "CHECKED" /\ logins[l].role = "LEARNER"
HeldOrganization == \E l \in Logins : HoldsOrganization(l)
HoldsUser(l, m) == /\ HoldsOrganization(l) /\ logins[l].seen > 0
                   /\ identities[logins[l].account].user = m
HeldUser(m) == \E l \in Logins : HoldsUser(l, m)

\* filter_staff_roles: the access row may take from the roles.
EffectiveRoles(m) ==
  CASE access[m] = "revoked" -> roles[m] \ StaffRoles
    [] access[m] = "admin"   -> roles[m] \ {"CONTENT_EDITOR"}
    [] OTHER                 -> roles[m]

\* get_actor: whether a session lets its holder in.
LetsIn(l) ==
  LET t == tickets[l] IN
  /\ ~ t.revoked
  /\ identities[t.account].live
  /\ identities[t.account].user = t.user
  /\ identities[t.account].revision = t.revision
  /\ EffectiveRoles(t.user) # {}

-----------------------------------------------------------------------------
(* The commands of the operator. *)

GrantReviewerRole(m) ==
  /\ "CONTENT_EDITOR" \in roles[m]
  /\ HasIdentity(m)
  /\ "REVIEWER" \notin roles[m]
  /\ ~ HeldUser(m)
  /\ roles' = [roles EXCEPT ![m] = @ \cup {"REVIEWER"}]
  /\ UNCHANGED <<identities, links, logins, tickets, access>>

RevokeReviewerRole(m) ==
  /\ StaffRoles \subseteq roles[m]
  /\ roles' = [roles EXCEPT ![m] = @ \ {"REVIEWER"}]
  /\ UNCHANGED <<identities, links, logins, tickets, access>>

\* create_identity_link; a late link of the same role gives way.
CreateIdentityLink(k, m, role) ==
  LET pending == {j \in Links : links[j].status = "PENDING" /\ links[j].user = m
                                /\ links[j].role = role}
  IN
  /\ links[k].status = "NONE"
  /\ role \in roles[m]
  /\ ~ HeldUser(m)
  /\ ~ HasIdentity(m)
  /\ \A j \in pending : links[j].late /\ ~ HeldLink(j)
  /\ links' = [j \in Links |->
                 IF j = k THEN [NoLink EXCEPT !.status = "PENDING", !.user = m, !.role = role]
                 ELSE IF j \in pending THEN [links[j] EXCEPT !.status = "EXPIRED"] ELSE links[j]]
  /\ UNCHANGED <<identities, logins, tickets, roles, access>>

\* revoke_identity_link
RevokeIdentityLink(k) ==
  /\ links[k].status = "PENDING"
  /\ ~ HeldLink(k)
  /\ links' = [links EXCEPT ![k].status = "REVOKED"]
  /\ UNCHANGED <<identities, logins, tickets, roles, access>>

\* expires_at of a link passes.
LinkGetsLate(k) ==
  /\ Usable(k)
  /\ links' = [links EXCEPT ![k].late = TRUE]
  /\ UNCHANGED <<identities, logins, tickets, roles, access>>

\* revoke_external_identity ends the sessions of the account with it.
RevokeExternalIdentity(a) ==
  /\ Exists(a)
  /\ identities[a].live
  /\ ~ HeldAccount(a)
  /\ identities' = [identities EXCEPT ![a].live = FALSE, ![a].revision = @ + 1]
  /\ tickets' = [l \in Logins |-> IF tickets[l].account = a
                                  THEN [tickets[l] EXCEPT !.revoked = TRUE] ELSE tickets[l]]
  /\ links' = [k \in Links |-> IF links[k].status = "NONE" THEN links[k]
                               ELSE [links[k] EXCEPT !.outdated = @ \cup {a}]]
  /\ UNCHANGED <<logins, roles, access>>

\* A revoked account without a session, of a reviewer who has another one in use,
\* may go to a content editor who never had any and has no usable link.
Transferable(a, m) ==
  /\ Exists(a) /\ ~ identities[a].live
  /\ ~ HeldAccount(a)
  /\ "REVIEWER" \in roles[identities[a].user]
  /\ \E b \in AccountsOf(identities[a].user) \ {a} : identities[b].live
  /\ "CONTENT_EDITOR" \in roles[m]
  /\ AccountsOf(m) = {}
  /\ \A k \in Links : links[k].user = m => ~ Usable(k)
  /\ \A l \in Logins : tickets[l].account = a => tickets[l].revoked

\* transfer_revoked_external_identity; the account stays revoked.
TransferRevokedExternalIdentity(a, m) ==
  /\ Transferable(a, m)
  /\ identities' = [identities EXCEPT ![a].user = m, ![a].revision = @ + 1]
  /\ UNCHANGED <<links, logins, tickets, roles, access>>

-----------------------------------------------------------------------------
(* The commands of a super administrator. *)

\* What a grant writes: an account that nobody has gets a user of its own; the sessions
\* and the links of a user stay what they are.
Granted(a, role) ==
  /\ identities' = IF Exists(a) THEN identities
                   ELSE [identities EXCEPT ![a] = [user |-> a, live |-> TRUE, revision |-> 1]]
  /\ access' = [access EXCEPT ![Holder(a)] = role]
  /\ roles' = [roles EXCEPT ![Holder(a)] = @ \cup {"REVIEWER"}]
  /\ UNCHANGED <<links, logins, tickets>>

\* grant_administrator; a super administrator is demoted or revoked first.
GrantAdministrator(a, role) ==
  /\ ~ HeldOrganization /\ ~ HeldAccount(a)
  /\ Exists(a) => identities[a].live
  /\ access[Holder(a)] # "super_admin"
  /\ Granted(a, role)

\* apply, for one of the department: who has any access or staff role, or had it, is left
\* alone; the row of the account is read without a lock.
ApplyBulkAccess(a) ==
  /\ ~ HeldOrganization
  /\ Exists(a) => identities[a].live
  /\ access[Holder(a)] = "none"
  /\ roles[Holder(a)] \cap StaffRoles = {}
  /\ Granted(a, "admin")

\* The staff sessions of a member end, the learner's stay.
EndStaffSessions(m) ==
  tickets' = [l \in Logins |-> IF tickets[l].user = m /\ tickets[l].role # "LEARNER"
                               THEN [tickets[l] EXCEPT !.revoked = TRUE] ELSE tickets[l]]

\* demote_administrator
DemoteAdministrator(m) ==
  /\ access[m] = "super_admin"
  /\ ~ HeldUser(m)
  /\ access' = [access EXCEPT ![m] = "admin"]
  /\ roles' = [roles EXCEPT ![m] = (@ \ {"CONTENT_EDITOR"}) \cup {"REVIEWER"}]
  /\ EndStaffSessions(m)
  /\ UNCHANGED <<identities, links, logins>>

\* revoke_administrator; who has staff roles and no row gets a revoked one.
RevokeAdministrator(m) ==
  /\ access[m] # "none" \/ roles[m] \cap StaffRoles # {}
  /\ ~ HeldUser(m)
  /\ access' = [access EXCEPT ![m] = "revoked"]
  /\ roles' = [roles EXCEPT ![m] = @ \ StaffRoles]
  /\ EndStaffSessions(m)
  /\ UNCHANGED <<identities, links, logins>>

-----------------------------------------------------------------------------
(* A sign-in. *)

\* start_feishu_oauth, with a link for the role of the entry or without any.
StartFeishuOAuth(l, k, role) ==
  /\ logins[l].stage = "NONE"
  /\ k # Nothing => Usable(k) /\ ~ HeldLink(k) /\ links[k].role = role
  /\ logins' = [logins EXCEPT ![l] = [NoLogin EXCEPT !.stage = "STARTED", !.link = k, !.role = role]]
  /\ UNCHANGED <<identities, links, tickets, roles, access>>

\* A late link is found out when it is followed.
StartWithLateLink(k) ==
  /\ links[k].status = "PENDING" /\ links[k].late
  /\ ~ HeldLink(k)
  /\ links' = [links EXCEPT ![k].status = "EXPIRED"]
  /\ UNCHANGED <<identities, logins, tickets, roles, access>>

\* Mutant: a link made before the revocation revives the account as well.
LinkFitsAnyAge(k, a) ==
  /\ Usable(k) /\ ~ HeldLink(k)
  /\ identities[a].user \in {Nothing, links[k].user}
  /\ ~ Exists(a) => ~ HasIdentity(links[k].user)

\* The link may tie account a to its member: it is nobody else's, was not revoked
\* since the link was made, and is not a second one for a member who has one.
LinkFits(k, a) ==
  /\ Usable(k) /\ ~ HeldLink(k)
  /\ identities[a].user \in {Nothing, links[k].user}
  /\ Exists(a) /\ ~ identities[a].live => a \notin links[k].outdated
  /\ ~ Exists(a) => ~ HasIdentity(links[k].user)

\* complete_feishu_oauth, up to what it reads; the provider names the account.
CheckAccount(l, a) ==
  /\ logins[l].stage = "STARTED"
  /\ logins[l].role = "LEARNER" => ~ HeldOrganization
  /\ ~ HeldAccount(a)
  /\ IF logins[l].link # Nothing THEN LinkFits(logins[l].link, a)
     ELSE \/ identities[a].live
          \/ logins[l].role = "LEARNER" /\ ~ Exists(a)
  /\ logins' = [logins EXCEPT ![l].stage = "CHECKED", ![l].account = a,
                              ![l].seen = identities[a].revision]
  /\ UNCHANGED <<identities, links, tickets, roles, access>>

\* Mutant: only a session of the same entry is replaced.
ReplacedSameEntry(m, role) ==
  {l \in Logins : tickets[l].user = m /\ tickets[l].role = role /\ role # "LEARNER"}

\* The sessions of a member that a sign-in ends: whoever enters as staff leaves
\* every other staff session.
Replaced(m, role) ==
  {l \in Logins : tickets[l].user = m /\ tickets[l].role # "LEARNER" /\ role # "LEARNER"}

\* The learner's session in the same browser, or none.
ReplacedHere(m, role) ==
  {{}} \cup {{l} : l \in {l \in Logins : /\ role = "LEARNER" /\ tickets[l].role = "LEARNER"
                                         /\ tickets[l].user = m}}

\* complete_feishu_oauth, what it writes.  Somebody may have made a row for the account
\* since, which the unique index refuses.
OpenSession(l) ==
  LET a == logins[l].account
      k == logins[l].link
      role == logins[l].role
      m == IF k # Nothing THEN links[k].user ELSE Holder(a)
      revision == identities[a].revision + (IF identities[a].live THEN 0 ELSE 1)
  IN
  /\ logins[l].stage = "CHECKED"
  /\ identities[a].revision = logins[l].seen
  /\ \A j \in Logins \ {l} : ~ HoldsUser(j, m)
  /\ role \in EffectiveRoles(m) \cup {"LEARNER"}
  /\ identities' = [identities EXCEPT ![a] = [user |-> m, live |-> TRUE, revision |-> revision]]
  /\ links' = IF k = Nothing THEN links ELSE [links EXCEPT ![k].status = "CONSUMED"]
  /\ roles' = [roles EXCEPT ![m] = @ \cup {role}]
  /\ \E here \in ReplacedHere(m, role) :
       tickets' = [s \in Logins |->
         IF s = l THEN [user |-> m, account |-> a, revision |-> revision, role |-> role,
                        revoked |-> FALSE]
         ELSE IF s \in Replaced(m, role) \cup here
              THEN [tickets[s] EXCEPT !.revoked = TRUE] ELSE tickets[s]]
  /\ logins' = [logins EXCEPT ![l].stage = "DONE"]
  /\ UNCHANGED access

\* The state is late, the provider fails, something does not fit, the role was taken
\* away, the index refuses or the server stops: nothing of the transaction stays.
LoginFails(l) ==
  /\ logins[l].stage \in {"STARTED", "CHECKED"}
  /\ logins' = [logins EXCEPT ![l].stage = "FAILED"]
  /\ UNCHANGED <<identities, links, tickets, roles, access>>

\* logout_session, or expires_at of the session passes.
LogOut(l) ==
  /\ ~ tickets[l].revoked
  /\ tickets' = [tickets EXCEPT ![l].revoked = TRUE]
  /\ UNCHANGED <<identities, links, logins, roles, access>>

AccessNext ==
  \/ \E m \in Members :
       \/ GrantReviewerRole(m) \/ RevokeReviewerRole(m)
       \/ DemoteAdministrator(m) \/ RevokeAdministrator(m)
  \/ \E k \in Links :
       \/ \E m \in Members, role \in StaffRoles : CreateIdentityLink(k, m, role)
       \/ RevokeIdentityLink(k) \/ LinkGetsLate(k) \/ StartWithLateLink(k)
  \/ \E a \in Accounts :
       \/ RevokeExternalIdentity(a)
       \/ \E m \in Members : TransferRevokedExternalIdentity(a, m)
       \/ \E role \in {"admin", "super_admin"} : GrantAdministrator(a, role)
       \/ ApplyBulkAccess(a)
  \/ \E l \in Logins :
       \/ \E k \in Links : StartFeishuOAuth(l, k, links[k].role)
       \/ \E role \in StaffRoles \cup {"LEARNER"} : StartFeishuOAuth(l, Nothing, role)
       \/ \E a \in Accounts : CheckAccount(l, a)
       \/ OpenSession(l) \/ LoginFails(l) \/ LogOut(l)

AccessSpec == AccessInit /\ [][AccessNext]_accessVars

-----------------------------------------------------------------------------
(* What must hold. *)

\* A sign-in with a link for its very member, made after the account was last revoked,
\* tied the account to the member.
TiedByLink(a) == \E l \in Logins :
  LET k == logins[l].link IN
  /\ logins[l].stage = "DONE" /\ logins[l].account = a
  /\ k # Nothing
  /\ links[k].status = "CONSUMED"
  /\ links[k].user = identities[a].user
  /\ a \notin links[k].outdated

\* A super administrator's grant stands for the user that came with the account, and the
\* account was never revoked.
StandsByGrant(a) ==
  /\ identities[a].user = a /\ identities[a].revision = 1
  /\ access[a] \in {"admin", "super_admin"}

IsStaff(m) == m \in Staff \/ EffectiveRoles(m) \cap StaffRoles # {}

\* Only an invitation or a grant makes an account a staff account.  An account in use
\* whose user is of the staff was tied to this very member by a link that is younger
\* than its last revocation, or is the account that the user came with, never revoked,
\* and the grant of a super administrator stands; whatever old links, revocations,
\* transfers and grants there were.  So no grant brings back a revoked account, or gives
\* the account of one member to another.  (All rows are typed.)
AccountsAreInvited ==
  /\ AccessTypeOK
  /\ \A a \in Accounts : identities[a].live /\ IsStaff(identities[a].user) =>
       TiedByLink(a) \/ StandsByGrant(a)

\* A member of the staff is in once: whichever entries and accounts were used, and
\* whatever became of the roles meanwhile, at most one staff session lets in; the
\* sessions of the learners' side do not count.
OneStaffSession == \A m \in Members :
  Cardinality({l \in Logins : tickets[l].user = m /\ tickets[l].role # "LEARNER" /\ LetsIn(l)}) <= 1
=============================================================================
