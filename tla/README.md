# Muchen Journey vNext in TLA+

This directory models the core of the training platform in `src/`: how people get in, how
tasks reach them, how a learner's work is submitted, judged by humans and turned into a
result, how the result is notified, what it earns, and how a running installation is moved
to a new schema. Every module is translated from the Python code it names; TLC checks the
modules on small instances, TLAPS proves the theorems below for every size.

## The system

The platform is a FastAPI service (`apps/api/journey_api`) over PostgreSQL, a polling
worker (`apps/worker/journey_worker`), and a Next.js frontend (`apps/web`). All state is in
the database and the object storage; requests interact only through rows, row locks,
revision numbers and idempotency keys, and with the worker only through the
`outbox_events` table. `scripts/canary_schema_upgrade.py` drives all of it from outside.

| Component | State it keeps | Operations | What is hard | What makes it correct |
|---|---|---|---|---|
| Formal journey workflow | Enrollment, Assignment (8 stages, or one task), LearningMaterialCompletion, Submission and its versions, draft, Review, Evaluation, Outcome | confirm identity, complete material, start, save draft, submit, start/cancel an evidence revision, start/finalize a review, assign reviewer, hand a review over, cancel an Enrollment | several stages in review at once, stages reopened before and after graduation, operator commands between learner and reviewer | every status rests on a human verdict; graduation exactly when all is approved; nothing becomes unreachable |
| Outbox and worker | OutboxEvent, NotificationDelivery, NotificationAttempt, receipts, NotificationEndpoint | claim, deliver, record receipt, finalize, redrive, configure/revoke recipient | several workers, leases, crashes between any two steps, provider calls outside transactions, two lock orders | the rows agree, each attempt has one result, no stale worker settles, it settles at last |
| Review claims | ReviewClaim, Review, Evaluation; tokens held by browser tabs | acquire, renew, release, force release, start, finalize, decide | leases that lapse while a tab decides; a decision made of two transactions | one verdict, by the holder of the live claim |
| Task content and publication | ReviewAdminTask, publication requests, TaskVersion and its content, administrators' grants | save, archive, submit, decide, publish (three ways), grant, demote, revoke, certify | a task edited, archived or published while it waits; rights that change between submission and approval | what is approved is what was submitted, by who may; what is live stays live |
| Controlled tasks | ControlledTaskAuthorization and its approvals | create, submit, sign, activate, revoke, expire | two activations at once; a candidate read before the lock; validity windows | one authorization in force per scope, signed by all its owners |
| Handoff and next stage | NextTrainingStageDecision, review requests, assignments, resolutions, HandoffAcceptance | request a review, assign an independent reviewer, resolve, accept | a review that overturns a decision while it is being accepted; revocation during acceptance | who accepts stands on the last decision and on an authorization in force, for ever |
| Attachments | Attachment, its links to drafts and versions; objects in the storage | intent, signed address, upload, complete, bind, remove | the storage is no part of the transaction; addresses outlive what they were signed for | evidence was scanned as it is, and stays bound |
| Invites, identity, sessions | Invite, JoinContext, User, Enrollment, IdentitySession | create, exchange, confirm, re-enter, revoke, sign in, migrate | a link revoked, expired, or overtaken by a phone sign-in between exchange and confirmation | a link opens all it promises or nothing |
| Staff access | RoleAssignment, ReviewAdminAccess, ExternalIdentityLink, ExternalIdentity, OAuthLoginState, sessions | link, start, call back, complete, revoke, transfer; grant from the directory, alone or in bulk, demote, revoke | sign-ins that complete at once; links older than a revocation; grants in the middle of a sign-in | a staff account that is in was invited by a link or granted; one session each |
| AI self check | AISelfCheck; comments on a Feishu document | claim, evaluate, comment, restart | calls of minutes without a lock; a lost answer | one comment, and the row knows it |
| Task page | the text on each open page, its copy in the browser, SubmissionDraft | type, autosave, poll, ask for a self-check, submit, revise, cancel; leave and come back | commands that arrive after their page was left; two devices; a check that holds the page | nothing typed is lost, no round of editing shows another one's text |
| Academy | AcademyCourse, AcademyVideo, AcademyLearningRecord, AcademyCourseCover | save, show, review, resubmit, upload, play, report progress, make a cover | stale tabs and players; a cover made while its course changes | what is public was read; progress and cover are of the present content |
| Novice economy, medals, guild | novice Enrollments, MedalDefinition, MedalRedemption, GuildRule, GuildTransaction | claim, redeem, save a medal, publish it, enable a rule, pass | a derived wallet and a stored stock under two locks; rules that change while verdicts commit | nobody overspends, no stock is oversold, a first completion is credited once |
| Schema upgrade script | release directories, backup files, the current link, containers, receipts | prepare, backup-migrate, switch, backfill, rollback-pre-backfill | killed at any step, run again, containers that outlive it, users writing meanwhile | no migration without a backup; nothing goes back behind the backfill |
| Others | ledgers, caches, rate limits, reports, other pages | see `PROJECT.json` | mostly projections and refusals | not modelled |

The components call each other as follows. `confirm_identity` creates what `FormalJourney`
begins with. `finalize_review` writes the Outcome and, in the same transaction, its
notification event and delivery (`create_pass_outcome_bundle`), which is where
`FormalJourney` ends and `NotificationOutbox` begins; the same transaction credits the guild
(`NoviceEconomy`). `decide` of the review administration calls `start_review` and
`finalize_review`, which `ReviewClaim` models from the side of the claim and `FormalJourney`
from the side of the learner's stages. A submission binds the files of `Attachments`.
`accept_handoff` joins the controlled tasks and the decisions on the next stage: it creates
the Enrollment and the first Assignment of the next journey, where a new `FormalJourney`
begins. The task page (`Workspace`) sends
the drafts, submissions and revisions of `FormalJourney` and the clicks of `AiSelfCheck`.
A published version of `TaskPublication` is what `NoviceEconomy` lets learners claim.
`canary_schema_upgrade.py` replaces the application under all of them.

`PROJECT.json` lists every hazard at its line with the properties aimed at it.

## Modules

| Module | What it is |
|---|---|
| `FormalAssignmentWorkflow` | the transition table of `formal_assignment_workflow.py`, as a set of rows |
| `FormalJourney` | all commands of learner, reviewer and operator on one Enrollment |
| `HumanGate` | abstract: versions, at most one human verdict on each, graduation at a verdict that leaves everything approved |
| `FormalJourney_proofs` | the theorems about `FormalJourney` |
| `NotificationOutbox` | one event, its delivery, the workers, the operator's redrive |
| `NotificationDelivery` | abstract: attempts one at a time, each with one final record, bounded redrives |
| `NotificationOutbox_proofs` | the theorems about `NotificationOutbox` |
| `ReviewClaim` | the claim on one review, its tabs and the verdict |
| `TaskPublication`, `TaskPublication_proofs` | one task from its profile to the catalogue, and who may publish; its theorems |
| `ControlledTask` | the authorizations of controlled tasks, their signatures and their activation |
| `NextStage` | extends `ControlledTask`: decisions, their reviews, and the acceptance under an authorization |
| `NextStage_proofs` | the theorems about `ControlledTask` and `NextStage` |
| `Attachments` | the evidence files of one Assignment, in the database and in the storage |
| `InviteIdentity` | the learners' side of getting in: links, contexts, Enrollments, sign-in, migration |
| `StaffAccess` | the staff's side: roles, links, Feishu accounts, administrators' grants, sign-in, sessions |
| `AiSelfCheck` | the AI self-check of one document and its comments |
| `Academy` | one course of the AI academy, its videos, a learner's record, its cover |
| `Workspace` | the learner's task page: its text, the browser's copy, the draft, the commands on the way |
| `NoviceEconomy` | points, medals and the guild's credits |
| `ReviewEconomy_proofs` | the theorems about `ReviewClaim` and `NoviceEconomy` |
| `Identity_proofs` | the theorems about `InviteIdentity` and `StaffAccess` |
| `LearnerPages_proofs` | the theorems about `Attachments`, `Academy`, `AiSelfCheck` and `Workspace` |
| `SchemaUpgrade`, `SchemaUpgrade_proofs` | the upgrade script, its containers and the application it replaces; its theorems |
| `MCFormalJourney`, `MCNotificationOutbox`, `MCNextStage`, `MCWorkspace` | constants and bounds of one of them for TLC |
| `MCTaskPublication` | `ReviewClaim`, `TaskPublication`, `NoviceEconomy` and `SchemaUpgrade` for TLC |
| `MCInviteIdentity` | `InviteIdentity` and `StaffAccess` for TLC |
| `MCLearnerPages` | `Academy`, `Attachments`, `AiSelfCheck` and `Workspace` for TLC |

The last three put modules that share no row side by side: a behaviour is one of one of
them, so that the states are a sum and not a product. `SchemaUpgrade` and `AiSelfCheck`
are also run alone, without bounds of their own.

### FormalJourney

One action is one command. Every command of this component takes the row lock of the
Enrollment first (`lock_active_learner_assignment`, `lock_scoped_context`,
`scoped_enrollment(for_update=True)`) and commits once, so commands of different actors
interleave but never overlap; that is why an action may be the whole handler. The state:

| Variable | Code |
|---|---|
| `enrollment`, `reviewer` | `Enrollment.status`, `Enrollment.reviewer_id` |
| `assignment[s]` | `Assignment.status` of stage `s`; `ABSENT` until the identity is confirmed |
| `material[s]` | the required materials of the stage are completed |
| `version[s]`, `draft[s]` | `Submission.current_version_no`, a `SubmissionDraft` exists |
| `reviewStatus`, `reviewOwner`, `delegate`, `evaluation` | by stage and version: `Review.status`, `Review.reviewer_id`, `ReviewDelegation.reviewer_id`, `Evaluation.decision` |
| `outcome` | the Outcome: the evaluation that caused it and its JourneyOutcomeEvidence |

`program` is what the Enrollment is bound to: a journey, an invited single task or a novice
practice, which differ in what an approval completes. Optimistic concurrency (`expected_revision`) only refuses
commands, and the model lets every command be sent from the newest state, so nothing is
lost by leaving revisions out. A journey has 8 stages, 3 of them assessments, and the code
tests for those two numbers; the model takes `StageCount` and `Assessments` instead.

### NotificationOutbox

Events are independent, so one is modelled. Transactions that lock two rows are two steps
with the first lock held in between, because the order of the locks is what the model is
about; the delivery and the provider call are outside any transaction in the code and are
separate steps here. A lease is `NONE`, `LIVE` or `EXPIRED`; the clock is an action. The
lock token is a uuid in the code, here the number of the attempt it was drawn for.
`LeaseOutlived` lets the lease of a live worker expire, `Crash` ends a worker anywhere.

### ReviewClaim

All requests on one review lock its row, so each is one step; `decide` on a review that was
not started is two (`DecideStart`, `DecideFinish`), because `start_review` commits. What the
session still holds in the second one, the Review object of the first, is modelled by not
looking at `review` there. A tab keeps the revision and token of its last answer.

### ControlledTask and NextStage

| Variable | Code |
|---|---|
| `cta[c]` | the row of `controlled_task_authorizations`: status, revision, scope (journey version, stage, task), window, `activated_at`, the end (`revoked_at` or `expired_at`), and `signed[role]` for its row in `controlled_task_authorization_approvals` |
| `seen[s]` | the object `initial` of a request that activates: what it read before it waited for the lock of the scope |
| `now` | `clock_timestamp()`, a small number that only grows; 0 is a missing timestamp |
| `decisions`, `requests`, `assignments`, `resolutions` | the append-only tables `next_training_stage_*` |
| `acceptances` | `handoff_acceptances`, each standing for the Enrollment and the Assignment it creates |

Every command locks the rows it decides on before it reads them, so it is one step, with one
exception. `activate_controlled_task_authorization` needs the scope of its candidate to know
which lock to wait for, so it reads the row first (`ReadCandidate`). The `SELECT ... FOR UPDATE`
that follows does not say `populate_existing`, so SQLAlchemy hands back the object it has
already: `Activate` therefore checks the *seen* status and revision and writes the seen revision
plus one, while peers and signatures, which it reads for the first time, are current. What stops
a stale activation is the trigger `guard_cta_mutation`, which is the conjunct `GuardMutation`.

The unique index on the ACTIVE authorization of a scope, the unique keys of decisions, requests
and acceptances, and the triggers `guard_cta_activation` and `guard_handoff_acceptance` are *not*
in the model. The properties say what they enforce, so a run that passes shows that the handlers
do not need them. The first decision on a handoff (`Decide`) is recorded by a human outside the
service: no code in `src/apps` writes it.

### TaskPublication

| Variable | Code |
|---|---|
| `access[m]`, `roles[m]` | the ReviewAdminAccess row and the RoleAssignments of a member |
| `profile` | the ReviewAdminTask row: revision, status, content |
| `requests` | the publication requests, with the content frozen in each |
| `versions` | TaskVersion and PublishedTaskContent: who published and what |
| `submitted` | a ContentDraft of the older route waits |
| `claimed` | a learner has claimed a version |

A write of a staff session locks its own User before its rights are read (`get_actor`), and
then the TaskDefinition: every command is one step. A content is named by the revision that
saved it and keeps its level and its camp, which decide who may publish it and where it shows.
`ArchiveTask` of a definition without a profile makes the first revision of one, as the code
does, of the entry level and of the camp that the definition's key gives it.
The grants in bulk (`review_bulk_access.apply`) do to each of their targets what
`GrantAdministrator` does to a target without rows, after more refusals.

### Attachments

`attachment[f]` is the row, `object[f]` what the storage holds under its key: nothing, the
declared bytes or others. Commands lock the rows they read and are one step, but a storage
call comes before the commit: `Upload…` and `Delete…` have a variant whose commit does not
follow, counted by `MaxFaults`. With the TOS backend the browser writes the object itself as
long as its signed address is valid. `infected` are the files whose declared content the
scanner would reject.

### InviteIdentity and StaffAccess

Two sides of signing in. Both are rows and the clock's view of them (`late`). On the
learners' side the exchange of a link is two steps, because it decides on Enrollments it
reads without a lock (`exchanging`); only a partial unique index is between two exchanges
then, and it is a conjunct of the insert. Users and Enrollments that a link may create bear
its name. On the staff's side a sign-in is started, called back (CHECKED: it locked its
account and link, but read without a lock whether the member has an account) and completed;
the unique keys of accounts are conjuncts of the completion. `LetsIn` is `get_actor`: a
session lets in only as long as its account and its revision are what they were and its
member has a role left (`EffectiveRoles` is `filter_staff_roles`).

There are two ways for an account to become one of the staff. `LinkFits` and `OpenSession` are
the one, by a link of the operator. The other has neither link nor sign-in: `grant_administrator`
(`GrantAdministrator`) and the bulk apply (`ApplyBulkAccess`) give somebody of the directory
access, the role of a reviewer and, if nobody has the account, a user with an account in use;
the user of an account in use, a learner's too, becomes an administrator. `access` is the
ReviewAdminAccess row, `DemoteAdministrator` and `RevokeAdministrator` take it back and end the
sessions. `Staff` are the users that the operator made; `Members` adds the users that come with
accounts, each under the name of its account. A first grant and a sign-in on the learners' side
take the lock of the organization (`HeldOrganization`), which is what keeps them from making
two users of one account. So `AccountsAreInvited` has two branches: tied by a link that is
younger than the last revocation, or granted, never revoked, and the grant stands.

### AiSelfCheck

`row` is the AISelfCheck row, `checking[r].row` the object that the session of request `r`
holds: a step that the code makes on an object it has not read again is a step on
`checking[r].row`, and that is the heart of the module. The call to Feishu has three outcomes
(done, rejected, unknown), and unknown has two truths. A text is named by its attempt. A lease
may run out under a request that works (`LeaseElapses`): nothing in the code ends an attempt
at ten minutes. `overtaken` is a history variable, set when a click takes the row over from a
request that is still at work; `RowKnowsItsComment` speaks of what happens before that.

### Academy

A command on the course is one step. A request for the cover is a chain of transactions
(`request[r].step`): look, claim, extract, complete, look again, answer. The player keeps the
revision it was loaded with, a publisher's tab that of the share it shows. `vetted` is a
history variable: a publisher has read the present content. `expected_revision` of a report of
progress may be left out, and is compared only if it is there: `Progress(0, …)` is such a
report, and `record.unnamed` remembers, until the record is reset, that one was taken. It may
credit a learner with progress in a video that was replaced, so that `ProgressIsOfThisVideo`
is about records whose reports all named their revision, as those of the platform's page do.

### Workspace

| Variable | Code |
|---|---|
| `desk[p]` | the hook `useWorkspaceRecovery` on the page `p`: `edition` is the revision of the Assignment it was loaded with, `body` the text, `saved` is `savedBody`; `busy` and `asking` are `selfCheckInFlight`, without and with `requestInFlight`; a page is `starting` until its first poll |
| `storage[b][e]` | localStorage of the browser `b` under `workspaceKey` of the revision `e` |
| `server` | the Assignment as far as the page sees it: its revision, whether it is edited, its SubmissionDraft, its latest version |
| `wire` | server actions on the way, `from` the page that waits for them or from none |
| `checks`, `abandoned` | rows of self-checks that are RUNNING or SENDING; those left by a dead process |
| `typing` | history: the round each text was typed in, the last one per browser and whether no other tab of the browser had that round open, the newest the server stored |

A text is a number, in the order they were typed, 0 the empty one. A round of editing is a
revision: drafts do not raise it, submissions, revisions and cancellations do. The timers of
the page are not modelled: an autosave or a poll may come at any time, and the 30 seconds
for which a page waits for a check it asked for may be over at any time. A page has
one command on the way; two arrive in either order only when one of them has outlived its page.

### NoviceEconomy

A redemption locks the learner and then the medal (`purchases`); a verdict locks the guild's
row (`verdicts`) before it reads the rules. The wallet is not a variable: `Earned` and `Spent`
derive it from `claims` and `redemptions`, as `wallet()` does. `page` is what an
administrator's page shows, older than the medals. `supplied` and `record` are history.
The guild's row exists from the start; before the first visit of its page there is none to
lock, which is a hazard no property covers.

### SchemaUpgrade

One step is what happens between two places where the script can die with a visible
difference: a file or link written, a container started or ended, a commit. `step` is where
the call is, `container` what Docker runs: a migration, the backfill of the present call, and
strays, backfills whose calls are gone. `Killed` and `Fails` end a call anywhere, and what it
started goes on (`Abandoned`). `overlooked` is a history variable: a rollback went ahead while a stray
backfill had yet to commit. `backup`, `sound`, `marks`, `current`, `temporary`
and `prepared` are the files that the next call finds. `Write` is the application in use.
A second backfill may be called while the container of the first one still runs; `Strays`
bounds how many go on at a time.

## What the runs show

Passing runs:

| Run | Instance | Properties |
|---|---|---|
| `journey` | a journey of 3 stages (2 assessments), a task, a practice; 2 versions, 2 reviewers | `ReviewFollowsAssignment`: Assignment, versions, reviews and evaluations agree; `CompletedMeansApproved`; `GraduationIsEarned`: an Outcome rests on approvals, is there exactly once and when the Enrollment completes, with the three programs; `StagesOpenInOrder`, one retest at a time; `NothingLeftBehind`: a cancelled Enrollment is at rest, drafts are writable, open reviews reachable; `ImplementsHumanGate` |
| `outbox` | either adapter, 2 workers, 2 attempts, 2 redrives, 2 faults | `RowsAgree`, `SettledIsEarned`: delivered has a receipt, dead has used its attempts; `NoCircularWait`, `ImplementsDelivery`, `EventuallySettled` |
| `acceptance` | 1 handoff, 2 authorizations of 1 scope, 2 activations, 2 signing roles, 3 instants, 2 review requests, 3 reviewers (one the learner, one an operator) | `OneActivePerScope`, `ActivatedOnce`: a stale activation neither repeats nor revives; `OneDecisionPerRevision`, `AcceptanceStands`, `AcceptedUnderAuthority` |
| `identity` | learners: 2 invites, 2 reviewers, a known learner; staff: 2 members, 2 accounts, 3 links, 3 sign-ins, grants of either kind | `TakenBackOpensNothing`, `JoinIsAllOrNothing`, `ReentryPreserves`; `AccountsAreInvited`: a staff account in use was tied by a link younger than its revocation, or granted and never revoked; `OneStaffSession` |
| `administration` | 3 tabs of 2 people, 3 claims; 2 members, 3 revisions, 2 versions; 2 learners, 2 medals, 2 redemptions; 3 kills, 3 writes, containers that outlive their calls | `OneVerdict`, `VerdictIsFenced`, `ForceReleasesWhatWasSeen`; `PendingIsFrozen`, `OrdinaryStaffCannotPublish`, `LiveStaysLive`; `WalletAndStockBalance`, `FirstCompletionIsCredited`; `MigratedHasBackup`, `BackfillIsTheEdge`, `SuccessIsReal` |
| `pages` | a course of each kind, 2 videos, 1 address, 2 tabs, 2 requests, 4 revisions; 2 files, 2 versions, 2 faults, either backend; 2 devices, 2 texts, 3 revisions, 1 mishap; 2 requests, 3 clicks, 2 versions of the document, 1 crash | `PublicWasVetted`, `ProgressIsOfThisVideo`, `CoverIsCurrent`; `EvidenceWasScanned`, `BoundForEver`; `NothingTypedIsLost`, `RoundsDoNotMix`; `RowKnowsItsComment`, of which there is one until a row is taken from a request at work |

Runs that show where the code does something other than what it says (details with the
quoted lines under "findings" in `PROJECT.json`):

| Run | Violated | What the trace shows |
|---|---|---|
| `retest` | `GraduateIsCompletedOrRetesting` | an assessment approved again after graduation leaves the Enrollment ACTIVE for ever |
| `graduation` | `CompleteJourneyHasGraduated` | cancelling a reopened stage completes the journey, but nobody graduates the learner |
| `selfcheck_superseded` | `AtMostOneComment` | an attempt that outlives its ten minutes compares the row with itself, so that two attempts comment |
| `upgrade_outlived` | `OldNeverMeetsCoaching` | a backfill whose container outlives the script commits after a rollback that counted nothing |
| `draft_devices` | `DraftIsNewest` | a page that was merely opened keeps an empty entry in its browser; opened again, it saves that over the draft of another device |
| `stuck_check` | `StuckIsTakenOver` | a row left RUNNING keeps the page busy for ever, so that the click that may take it over is never made |

`GraduationIsEarned` holds although the `graduation` run fails: the first says that who is
COMPLETED has an Outcome, the second that who is complete has one. `selfcheck_superseded` and `upgrade_outlived` check the
same specifications as the passing runs of their modules, in which leases run out under an
attempt and containers outlive their script. What the passing runs show there, they show up to
the one step that leads into these traces: a click that takes the row from a request at work
(`overtaken`), a rollback over a backfill that has yet to commit (`overlooked`). The history
variables name that step, so that everything else that a late attempt or a stray container
does is in the passing runs and in the theorems. `SuccessIsReal` holds without such a limit.

Every property has a mutant under "mutants": a changed definition (a dropped guard, a
missing reset, an off-by-one) under which TLC finds the property violated. The type
invariants are conjuncts of an invariant of their module or of its inductive invariant.

### Bounds, and why they are enough

- *Stages.* The commands treat stages alike except for their order and for assessments. Three
  let one be in review while another is reopened and a third is returned, and have an ordinary
  stage and two assessments, with a retest of each kind.
- *Versions.* Two let a stage be judged, reopened and judged again. `SubmitAssignment` stops
  at `MaxVersions`; the code has no limit.
- *Reviewers.* Two allow a handover and its return. `OthersInOneStage`: a reviewer
  other than the first takes part in one stage at most; reviews of different stages share
  nothing but the Enrollment's reviewer.
- *Workers, attempts, redrives, faults.* Two workers race; two attempts make one retry and
  one final failure; two redrives make the offset of a cycle differ from the sum of attempts;
  `MaxFaults` bounds crashes and outlived leases together, and two let a successor fail as
  well. The run has liveness properties, so it uses no symmetry.
- *Claims.* Three let a claim lapse, be taken by the other reviewer and come back.
- *Authorizations.* Two of one scope compete and succeed each other; scopes do not interact, so
  `Scopes` has one. Two activations race. Three instants put a window before, around and after
  the present, and let one window end where the next begins.
- *Review requests.* Two make a decision that replaces another be replaced in turn, so that the
  reviewer of the first is the signer under review in the second. Handoffs share nothing but
  the authorizations: one is enough.
- *Self-checks.* Two requests overlap; three clicks let a third take over from both; two
  versions let a result be archived and its comment answered. `FewClicks`: the third click
  comes while the document is what it was and nothing has crashed. `NotOvertaken`: a behaviour
  is not followed beyond the step of which `RowKnowsItsComment` says nothing any more.
- *The task page.* Two devices, each with a page and a storage. Two tabs of one browser are two
  pages of one `Browser`; the theorem `TypedTextSurvives` includes them, and what it says is
  limited to texts typed while no other tab had the round open: a second tab that edits the
  same round may write its own text over the first one's. Two texts let
  an older one meet a newer one; three revisions let an answer be handed in, reopened or
  returned, and handed in or cancelled again. `FewAtATime` lets two commands be on the way, or
  both pages be open, only while no check is around and nothing was lost.
- *Links and sign-ins.* Two invites may meet in one learner, who may also sign in. Three links
  and three sign-ins take an account in, out and back in with another. `LinksInOrder` removes
  renamings. `FewFailures`: at most two sign-ins under way, one on the learners' side, one link
  given up; a sign-in that failed left nothing, and the behaviour is not followed further.
  `FewGrants`: the access of one member is changed, any number of times, and with at most one
  link made; grants of two members share no row but the organization's. The theorems have
  none of these bounds.
- *Tasks.* One: no command reads the rows of another. Two members, three revisions and
  two versions: submitted, edited after the decision, submitted again. `OnePage` lets the
  creator start with both roles, since nothing is refused for a role that one has.
- *The shop.* `SmallShop` and `GuildAtRest`, `GuildOfOne`: two learners compete for one medal or
  one chooses between two; the guild is looked at without medals and with one learner, whom
  alone its credit concerns. One piece at a time makes the last piece contested. `Worth` is
  {1, 2}: a price that the wallet holds, and one that it does not. `MaxSaves` is 2: one save
  from a page older than the other.
- *Courses and files.* Two videos replace each other; two requests compete for the cover and one may be
  left over from a former source. `OneSide`: either the learner opens the course or its
  cover is asked for; the two share only what neither writes. A cover is asked for while the
  course changes twice, there and back, and that of a share, whose address stays, while one
  tab reviews it. `OneEvidence`, `OneCourse`, `OneTask`, `OneDocument`: none is repeated for
  every start of another. Two files and two faults let a repeated
  half-done deletion meet a renewed upload.
- *The upgrade.* Three kills end a call, the call that recovers from it, and the next.
  Three writes: before, between and after two readings of the facts. One stray backfill, beside
  which another may be called. The theorems hold for every value of these bounds.

Symmetry is used over ids that are only compared for equality, and in no run with a liveness
property. The checks with `CHECK_DEADLOCK FALSE` are systems that may stop: a learner's
journey, a settled notification, an accepted handoff, clicks, revisions and faults that are
used up, an upgrade whose kills and writes are.

### Fairness

Two modules have liveness. In `NotificationOutbox`: weak fairness of each worker's steps: `run()` loops
for ever and the container is restarted. Of the second half of a redrive: a transaction that
holds its locks commits or ends. Of `RetryFallsDue` and `LeaseElapses`: the clock advances.
Not assumed: that an operator redrives, that the provider ever accepts, that the recipient is
configured. `EventuallySettled` therefore has the premise that the recipient stays configured.
In `Workspace`, for `stuck_check` only: a page is opened and polls every three
seconds (weak), the network delivers (weak), and the learner clicks on the check whenever the
page lets him again and again (strong); he stays on the page once the check is stuck.
Stronger fairness would not help: the click is never enabled.
The other modules assume no fairness: no learner, reviewer, operator or caller of a script is
obliged to act, so they promise nothing that eventually happens.

## What is proved

Every property of a passing run but the liveness `EventuallySettled` is a theorem as well:
the run shows it on its instance, the theorem for every value of the constants. The proofs
use the named assumptions of the modules on their constants and no others: no theorem assumes
of the surroundings what the code does not ensure. Four properties are false of some
behaviours; they say which, by a history variable that no guard reads:

| History | Recorded | Property, theorem | Afterwards |
|---|---|---|---|
| `overlooked` | a rollback goes ahead over a backfill that has yet to commit | `BackfillIsTheEdge`, `BackfillIsTheBoundary` | the run `upgrade_outlived` |
| `overtaken` | a click takes the row from a request that is still at work | `RowKnowsItsComment`, `RowsKnowTheirComment` | the run `selfcheck_superseded` |
| `alone` of a text | whether another tab of the browser had the round open when it was typed | `NothingTypedIsLost`, `TypedTextSurvives` | the other tab's poll writes its own text (a hazard) |
| `unnamed` of a record | a report that named no revision was taken | `ProgressIsOfThisVideo`, `ProgressIsCurrent` | the record may be of a replaced video, until the next reset |

Each invariant below is proved the same way: it follows from an inductive invariant, which
one lemma per command shows to be kept. What follows says what had to be added to make it
inductive, because that is what the code relies on without saying so.

### FormalJourney_proofs

For every `StageCount`, set of reviewers, `MaxVersions` and program: `TypeCorrect`,
`ReviewsFollow`, `CompletedIsApproved`, `NothingIsLeft`, `OpenInOrder`, `GraduationEarned`,
and `HumanGateHolds`, the refinement.

A stage's verdict is consulted when a revision is cancelled, so the invariant has to say what
the verdict of the latest version is for every status, not only for `COMPLETED`; and no
command but `ConfirmIdentity` may find an unconfirmed Enrollment with work in it. The
inductive invariant `IInv` is `TypeOK`, *nothing is there before the confirmation*, *a stage
the program does not have is ABSENT*, and, for every stage, `StageAgrees`: the agreement of
`ReviewFollowsAssignment` and of the latest verdict with the status. Lemmas show that
`StageAgrees` is kept by each kind of command: a frame lemma for untouched stages, `SubmitAgrees`,
`StartReviewAgrees`, `FinalizeAgrees`, and `RestingAgrees` for commands that move a stage
outside a review. `TransitionTable` is the only place where the table is unfolded.

`Progress` is kept by every command that finds `IInv`. Its parts are about the whole journey:
the stages are cancelled with the Enrollment (`CancelledTogether`, `CancelledIsAtRest`); a
stage is worked on after the earlier ones were submitted (`WorkedInOrder`); the Outcome of a journey comes
when all stages are approved (`OutcomeIsLate`), rests on approvals (`OutcomeRests`) and leaves
one retest at a time (`OneRetest`); and `CompletedIsEarned`. None is kept alone: a retest is
exclusive because the Outcome is late, and who completes has earned it because the retest was
the only stage left.

The refinement proof maps `submitted`, `verdict` and `graduated` to `version`, `evaluation` and
the existence of the Outcome; each command but submission and decision is a stutter, and a
decision of `FormalJourney` is one of `HumanGate` because of `IInv`.

### NextStage_proofs

For every set of authorizations, scopes, roles, sessions, handoffs and users, every `MaxTime`,
and any `Person` that maps handoffs to users: `TypeCorrect`, `OneActive`, `OneChain`,
`AcceptedForEver`, `UnderAuthority`, and the action property `NeverRevived`.

`OneActive` is inductive with the types: `Peers` is read under the lock of the scope, and an
activation ends every peer it finds. For the decisions two more facts are needed (`Lineage`): a
decision that is not the last of its handoff had its review resolved, and a decision
has one request, which has one resolution. A review that is still open is therefore on the last
decision (`UnderReviewIsLast`), so its replacement has a new revision, and the chain stays one
chain. Nobody can have accepted at that point, because an acceptance is on a last decision that
is READY and a decision under review is not.

The dates of an authorization follow its status (`LifecycleInv`): nothing happened to one that
waits, an ACTIVE one was activated in its window under every signature, an ended one was
active before. A stale activation keeps this because the trigger `GuardMutation` compares with
the row, not with what was seen; that alone makes `NeverRevived` hold. `UnderAuthority` needs
`AcceptanceIsPast` besides: an acceptance is not in the future, so a later end cannot precede it.

### TaskPublication_proofs

For every set of members, every `MaxRevision` and `MaxVersions`: `TypeCorrect`,
`PendingStaysFrozen`, and the action properties `OnlySupersPublish` and `LiveTasksStay`.
The inductive invariant is `PendingIsFrozen` with the types and with `NothingSaved`: a task of
revision 0 has no content, so that the first save finds nothing that waits.

### SchemaUpgrade_proofs

For any number of kills, writes and strays: `TypeCorrect`, `BackupFirst`, `BackfillIsTheBoundary`
and `ReportedSuccess`. `BackupKept` says what each
step of backup-migrate rests on, so that the migration finds a backup that was restored and
compared; a migration that outlives its script makes the disjunction in it necessary, because
the next call may find the schema of either side. `ReceiptFirst` says that the new
application waits for the receipt. `Boundary` adds to `OldNeverMeetsCoaching` that the steps
of a switch or a rollback are reached only while there are no coaching facts and no stray
backfill, and that a backfill's container, stray or not, was started under the new
application, which still serves; it is kept until a rollback overlooks one. `Consistent` relates application and link for every step between the two.

### NotificationOutbox_proofs

For any number of workers, attempts, redrives and faults, either adapter:
`InductiveInvariant`, `RowsTellOneStory`, `NoDeadlock`, `SettledEarned`, and `DeliveryHolds`,
the refinement of `NotificationDelivery`.

`RowsAgree` alone is not kept. `LocksAgree` says what a lock protects between the two halves of
a transaction: an event locked to be claimed stays claimable, one locked to be settled stays
its worker's, and a delivery locked by the operator stays DEAD. As no event that can be locked
goes with a DEAD delivery, this is `NoCircularWait`: the status checks are what stands in for
an order of the locks. `ClaimsAgree` ties what a worker remembers to the row (its token is its
attempt, and of the present cycle if it still owns the lease), so that a stale worker cannot be
taken for the owner. `FailuresAreCounted` bounds the retryable failures of a cycle by
their attempt numbers, from which the `Cardinality` in `SettledIsEarned` follows; it also says that a
final failure ended its cycle. Both are needed for the steps of the refinement, in which a
crash, a lost lease and the first half of every transaction are stutters.

### ReviewEconomy_proofs

For any number of tabs, people and claims: `OneVerdictEach`, and the action properties
`VerdictsAreFenced` and `ForcedAfterSeen`. The second half of a decision does not look at the
review. What makes it safe is that the revision of a review counts its two steps
(`RevisionCountsSteps`) and that a decision under way was made on the first revision
(`DecisionsHaveStarted`): a verdict of another tab would have had to be written under another
claim, and the token is compared. `ScreensAreOfThePast` says that no two claims share a
version, so that a tab that sends a version means the claim it shows.

For any number of learners, medals and redemptions, a finite number of tasks, and any worth:
`PointsAndStockBalance` and `FirstIsCredited`. The first rests on what holds between the two
locks of a redemption. A learner has one under way (`OnePurchaseEach`) and a medal is paid by
one (`OnePaymentEach`), so that what was read stays true until the commit (`StillPayable`,
`NotYetRedeemed`): points may only be added meanwhile, and the medal is locked against saves.
`PagesAreOfThePast` is why a save on the present revision puts back the stock that is there.
For the second, a credit that was decided on and is not yet written is still for the first completion
(`CreditIsForTheFirst`), because the row of the guild is locked by one verdict at a time.

The wallet is a sum over a set, defined by a recursive function on subsets. The induction
theorems of the library cannot be used (they take an operator), so that the facts about sums,
that they exist, do not depend on the order, and grow by what is added (`SumsExist`,
`SumsAgree`, `SumOfOneMore`, `TotalIsTheSum`, `TotalOfOneMore`), are proved by a smallest
counterexample: `WFMin` gives a smallest set for which a sum fails, and the set with one
element less contradicts it. This needs `FiniteAssumption`.

### Identity_proofs

Of `StaffAccess`, for any number of members, accounts, links and sign-ins: `OnlyInvitedAccounts`
and `StaffAreInOnce`. A sign-in checks an account in one transaction and ties it in another. It
may do so because the revision it has seen stands for what it checked (`ChecksHold`: if the
row is of this revision, the account still fits the link) and because of two sign-ins with one
account at most one has seen a row, so that the unique key stops the other. Grants change the
roles of users whose accounts nobody invited, so the invariant speaks of all of them: an account
in use was tied to its user, or came with it and was never revoked (`Invited`), and a user who
came with an account has no staff role that no grant gave (`UsersAreKnown`). `RowsAreCounted`,
`LinksAreNamed` and `LoginsAreLinked` are the bookkeeping. `Cardinality` of the sessions that
let in follows from `OneTicket`.

Of `InviteIdentity`, for any number of links and reviewers: `TakenBackIsShut`, `JoinsAreWhole`,
and the action property `ReentryChangesNothing`. `JoinInv` says of every link (`LinkInv`) that nothing comes
before its cause (`InOrder`), that context and Invite end together (`ContextFollows`), that the
rows a join makes wait while its context does (`OwnRows`), that a link which leads to an
Enrollment of another leads to one that was joined (`LeadsBack`), and that the user a link was
used for stays (`TargetStays`). The last two are about the window between the two halves of an
exchange, in which other links are confirmed and revoked.

### LearnerPages_proofs

- `Attachments`, for any number of files, versions and faults: `EvidenceIsScanned`, and the
  action property `BoundFilesStay`. Added: what is bound is READY (`BoundIsReady`), so that no
  upload or deletion passes its guard.
- `Academy`, for any number of videos, addresses, tabs and requests: `PublicIsVetted`,
  `ProgressIsCurrent`, and the action property `CoversAreCurrent`. What a page of an older
  revision sends is refused, so the invariant has to say what a page of the present revision
  shows (`PageIsCurrent`) and that no page is of a revision to come (`RevisionsAreOfThePast`).
  A report that names no revision is not refused, and only then is the record `unnamed`.
  `ReviewedWasRead`: an approval was of the present text. For the cover: whatever a request
  holds is of the source it asked for (`RequestsHoldTheirSource`), and a ready cover is in
  nobody's claim (`ReadyIsOfItsSource`).
- `AiSelfCheck`, for any number of requests, clicks, versions and crashes, with leases that run
  out at any time: `RowsKnowTheirComment`. `WorkersOwnTheRow` says at every step of an
  attempt which of the facts it remembers still hold of the row; `OneWorks`, that there is one such
  attempt. Both fail at the step that sets `overtaken`, and not before: a lease that runs out
  changes nothing until somebody clicks. `CommentIsKnown` and `TextIsKept` say that an attempt that ended in the dark is the only way for a comment to be unknown to the row.
- `Workspace`, for any number of pages, browsers, texts and commands on the way:
  `RoundsStayApart` and `TypedTextSurvives`, with any number of pages in one browser. `RoundsInv` says of every place where
  a text may be (page, storage, wire, draft) that it belongs to the round that place is of, and that no
  place is of a round to come: this is why a late save of an old round must carry its revision.
  `TypedInv` adds that the last text typed in a browser, if typed alone there, is in its storage
  (`LastIsStored`) and on every page of the browser that edits its round (`LastIsShown`): a tab
  opened later begins with the entry of the storage, so that it shows the same text.

### What is not proved

The liveness properties `EventuallySettled` and `StuckIsTakenOver`, and with them what is
assumed of fairness: TLAPS has neither ENABLED nor liveness under fairness. The six runs that
expect a violation show a trace, and there is nothing to prove. No module declares a RECURSIVE
operator.

Two things in the models came from proofs that failed, and were put right after the code:
the choice of the text to show in `Workspace` and the bookkeeping of stock in `NoviceEconomy`
were CASE expressions whose guards overlap, of which TLA+ does not say which arm counts (the
code tests them in order); and `Academy` did not say that no source is called `NoSource`.

## What is left out, and why

- Data: texts, rubric scores, links, timestamps other than what orders steps.
- Scopes: the organization filters only refuse a command; the model gives commands to those
  who may send them. Roles are modelled where they change (`TaskPublication`, `StaffAccess`).
- Idempotent replay: a replay returns a stored answer and changes nothing. Two first
  deliveries of one key end in a unique key that rolls one of them back.
- Coaching reviews in `FormalJourney`, which no current command creates, and SUPERSEDED
  reviews; `SchemaUpgrade` counts the former.
- Rate limits, phone codes and attempts: they refuse, and what they count is nobody's input.
- `data_lifecycle.py` and `offline_import.py`: operator tools over rows that are closed.
- The switch that freezes new invites (`InvitationControl`): it only refuses to create one.
- The first visit of the guild's page, when there is no row to lock yet.
- The event loop: a handler that awaits while it holds a row lock (`upload_attachment_content`)
  may block the process that would let it go on; the models have transactions only.
- The rest of the frontend, most scripts, seeds, packages and reports, some 60 000 lines: they render,
  check or fill what the modules above keep, and have no protocol of their own. This is why
  the models stand for a small share of all lines of the repository.
- The components marked `not_modelled` in `PROJECT.json`, each with its reason.

## Plan

Done: 1. `FormalAssignmentWorkflow`, `FormalJourney` with `HumanGate` and its proofs;
2. `NotificationOutbox` with `NotificationDelivery`; 3. `ReviewClaim`; 4. `ControlledTask` and
`NextStage` with their proofs; 5. `TaskPublication` with its proofs; 6. `Attachments`;
7. `InviteIdentity` and `StaffAccess`; 8. `AiSelfCheck`; 9. `Academy`; 10. `NoviceEconomy`;
11. `SchemaUpgrade` with its proofs; 12. `Workspace`;
13. the theorems about every module, listed above.

Next:

- *Abstract specifications* of the components that have none yet, and the refinement proved:
  of `ReviewClaim` (a verdict by whoever holds the lock), of the economy (a ledger with an
  atomic purchase), of `Attachments` (evidence that is written once).
- *Beyond the history*: what still holds once a row was `overtaken` (it is never COMPLETED with
  a comment that is not there).
- *The proofs themselves*: `SchemaUpgrade_proofs` splits Next into 32 flat cases; lemmas by phase
  would read better.
- *More of the program*: the incentive ledger and the appeals, which append to what
  `FormalJourney` and `NextStage` keep.
