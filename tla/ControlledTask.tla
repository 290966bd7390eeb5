--------------------------- MODULE ControlledTask ---------------------------
(***************************************************************************)
(* Authorizations of controlled tasks.  Operators draft an authorization   *)
(* for one scope (a stage of a journey and its task), the owners it names  *)
(* sign it, one of them activates it, and it is revoked or expires.  Only  *)
(* an ACTIVE authorization lets a learner enter the task.                  *)
(*                                                                         *)
(* Every command locks the row before it reads it, so it is one step, but  *)
(* activation reads the candidate first, to learn the scope whose lock it  *)
(* then waits for.  The locked SELECT that follows does not refresh an     *)
(* object the session holds already: activation decides on what it read    *)
(* before the lock.  Approvals and the other rows of the scope are read    *)
(* for the first time under the lock.                                      *)
(***************************************************************************)
EXTENDS Naturals

CONSTANTS
  Authorizations,  \* ids of authorizations
  Scopes,          \* (journey version, stage version, task version)
  OwnerRoles,      \* the roles that sign, four in the code
  Sessions,        \* requests that activate
  MaxTime          \* bound of the model: the last instant of the clock

ASSUME ScopeAssumption == Scopes # {}
ASSUME TimeAssumption  == MaxTime \in Nat \ {0}

VARIABLES
  cta,     \* the rows of controlled_task_authorizations with their approvals
  seen,    \* what an activation read of its candidate before the scope lock
  now      \* clock_timestamp()

ctaVars == <<cta, seen, now>>

Status == {"NONE", "DRAFT", "PENDING_APPROVALS", "ACTIVE", "REVOKED", "EXPIRED"}
Snapshots == [id : Authorizations, status : Status, revision : Nat]
NoSnapshot == [status |-> "NONE"]

Times      == 0..MaxTime  \* 0 stands for a missing timestamp
Signatures == [OwnerRoles -> {"NONE", "APPROVE", "REJECT"}]
Rows == [status : Status, revision : Nat, scope : Scopes,
         validFrom : Times, expiresAt : Times,
         signed : Signatures,
         activatedAt : Times, endedAt : Times]

CTATypeOK ==
  /\ cta \in [Authorizations -> Rows]
  /\ seen \in [Sessions -> Snapshots \cup {NoSnapshot}]
  /\ now \in 1..MaxTime

\* No authorization exists.
CTAInit ==
  /\ cta = [c \in Authorizations |->
             [status |-> "NONE", revision |-> 0, scope |-> CHOOSE scope \in Scopes : TRUE,
              validFrom |-> 0, expiresAt |-> 0, signed |-> [r \in OwnerRoles |-> "NONE"],
              activatedAt |-> 0, endedAt |-> 0]]
  /\ seen = [s \in Sessions |-> NoSnapshot]
  /\ now = 1

InWindow(c) == cta[c].validFrom <= now /\ now < cta[c].expiresAt

\* Mutant: the trigger is missing.
AnyMutation(old, new) == TRUE

\* trg_cta_guard_mutation: one revision at a time, along the lifecycle.
GuardMutation(old, new) ==
  /\ new.revision = old.revision + 1
  /\ <<old.status, new.status>> \in
       {<<"DRAFT", "PENDING_APPROVALS">>, <<"PENDING_APPROVALS", "ACTIVE">>,
        <<"ACTIVE", "REVOKED">>, <<"ACTIVE", "EXPIRED">>}

-----------------------------------------------------------------------------
(* The commands. *)

Create(c, scope, from, until) ==
  /\ cta[c].status = "NONE"
  /\ from < until
  /\ cta' = [cta EXCEPT ![c].status = "DRAFT", ![c].revision = 1, ![c].scope = scope,
                        ![c].validFrom = from, ![c].expiresAt = until]
  /\ UNCHANGED <<seen, now>>

\* A status change of a row that is read under its lock.
Move(c, from, to) ==
  /\ cta[c].status = from
  /\ cta' = [cta EXCEPT ![c].status = to, ![c].revision = @ + 1,
                        ![c].endedAt = IF to = "PENDING_APPROVALS" THEN @ ELSE now]
  /\ UNCHANGED <<seen, now>>

SubmitForApprovals(c) == Move(c, "DRAFT", "PENDING_APPROVALS")

\* A role signs once; a signature leaves the revision alone.
Approve(c, role, decision) ==
  /\ cta[c].status = "PENDING_APPROVALS"
  /\ cta[c].signed[role] = "NONE"
  /\ cta' = [cta EXCEPT ![c].signed[role] = decision]
  /\ UNCHANGED <<seen, now>>

Revoke(c) == Move(c, "ACTIVE", "REVOKED")

Expire(c) == now >= cta[c].expiresAt /\ Move(c, "ACTIVE", "EXPIRED")

\* Activation reads its candidate, and waits for the lock of the scope.
ReadCandidate(s, c) ==
  /\ seen[s] = NoSnapshot
  /\ cta[c].status # "NONE"
  /\ seen' = [seen EXCEPT ![s] = [id |-> c, status |-> cta[c].status, revision |-> cta[c].revision]]
  /\ UNCHANGED <<cta, now>>

\* Mutant: an authorization that is still in its window is passed over.
OverduePeers(c) ==
  {d \in Authorizations \ {c} : /\ cta[d].scope = cta[c].scope /\ cta[d].status = "ACTIVE"
                                /\ now >= cta[d].expiresAt}

\* The other ACTIVE rows of the scope.
Peers(c) ==
  {d \in Authorizations \ {c} : cta[d].scope = cta[c].scope /\ cta[d].status = "ACTIVE"}

\* No other authorization of the scope is in force.
ScopeIsFree(c) == \A d \in Peers(c) : now >= cta[d].expiresAt

HumanApprovalsComplete(c) == \A role \in OwnerRoles : cta[c].signed[role] = "APPROVE"

\* The checks of the handler.  The candidate's status is the one seen, and the client
\* expects the revision seen.
MayActivate(s) ==
  /\ seen[s].status = "PENDING_APPROVALS"
  /\ InWindow(seen[s].id)
  /\ ScopeIsFree(seen[s].id)
  /\ HumanApprovalsComplete(seen[s].id)

\* What the handler writes on the candidate.
Activated(s) ==
  [cta[seen[s].id] EXCEPT !.status = "ACTIVE", !.revision = seen[s].revision + 1, !.activatedAt = now]

\* Under the lock: what is overdue expires, the candidate becomes ACTIVE.
Activate(s) ==
  LET c == seen[s].id IN
  /\ MayActivate(s)
  /\ GuardMutation(cta[c], Activated(s))
  /\ cta' = [d \in Authorizations |->
               IF d = c THEN Activated(s)
               ELSE IF d \in Peers(c)
               THEN [cta[d] EXCEPT !.status = "EXPIRED", !.revision = @ + 1, !.endedAt = now]
               ELSE cta[d]]
  /\ seen' = [seen EXCEPT ![s] = NoSnapshot]
  /\ UNCHANGED now

\* The handler refuses with an ApiError, or the trigger with an exception: rolled back.
RefuseActivation(s) ==
  /\ seen[s] # NoSnapshot
  /\ ~ (MayActivate(s) /\ GuardMutation(cta[seen[s].id], Activated(s)))
  /\ seen' = [seen EXCEPT ![s] = NoSnapshot]
  /\ UNCHANGED <<cta, now>>

Tick == now < MaxTime /\ now' = now + 1 /\ UNCHANGED <<cta, seen>>

CTANext ==
  \/ \E c \in Authorizations :
       \/ \E scope \in Scopes, from, until \in Times : Create(c, scope, from, until)
       \/ SubmitForApprovals(c)
       \/ \E role \in OwnerRoles, decision \in {"APPROVE", "REJECT"} : Approve(c, role, decision)
       \/ Revoke(c)
       \/ Expire(c)
       \/ \E s \in Sessions : ReadCandidate(s, c)
  \/ \E s \in Sessions : Activate(s) \/ RefuseActivation(s)
  \/ Tick

CTASpec == CTAInit /\ [][CTANext]_ctaVars

-----------------------------------------------------------------------------
(* Properties. *)

\* A scope has one ACTIVE authorization at most: the handler never relies on the index
\* uq_cta_one_active_stage, which is not in the model, though its candidate is stale.
OneActivePerScope ==
  \A c, d \in Authorizations :
    cta[c].status = "ACTIVE" /\ cta[d].status = "ACTIVE" /\ cta[c].scope = cta[d].scope => c = d

\* An authorization is activated once and ends once: a late activation, which decides on a
\* stale row, neither activates it again nor revives it.
ActivatedOnce ==
  [][\A c \in Authorizations :
       /\ cta[c].activatedAt # 0 => cta'[c].activatedAt = cta[c].activatedAt
       /\ cta[c].endedAt # 0 => cta'[c] = cta[c]]_ctaVars
=============================================================================
