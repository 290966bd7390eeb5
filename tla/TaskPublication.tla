--------------------------- MODULE TaskPublication ---------------------------
(***************************************************************************)
(* How a task reaches the learners: its profile is edited by its creator,  *)
(* submitted, approved by a super administrator and published as an        *)
(* immutable version, of which the catalogue shows the latest; and who may *)
(* do so, which other administrators change at the same time.              *)
(*                                                                         *)
(* One task: nothing here reads the rows of another.  Every command is one  *)
(* step: a write of a staff session locks its own User before its rights   *)
(* are read (auth.get_actor), and then the TaskDefinition.                 *)
(*                                                                         *)
(* A content is named by the revision of the profile that saved it and     *)
(* keeps the difficulty and the camp, which decide who may publish it and  *)
(* where it shows.  Learners see the content captured with the latest      *)
(* version; a version without one (NoContent) is in no catalogue.          *)
(***************************************************************************)
EXTENDS Naturals, Sequences

CONSTANTS
  Members,          \* users of the organization that are staff at some time
  Root,             \* the member that may grant super administrators
  Creator,          \* the member who created the definition
  MaxRevision,      \* bound of the model: revisions of the profile
  MaxVersions       \* bound of the model: published versions

ASSUME MemberAssumption == {Root, Creator} \subseteq Members
ASSUME BoundAssumption == {MaxRevision, MaxVersions} \subseteq Nat \ {0}

VARIABLES
  access,       \* the ReviewAdminAccess row of each member
  roles,        \* the RoleAssignments of each member
  profile,      \* the ReviewAdminTask row, revision 0 while there is none
  requests,     \* the TaskPublicationRequests in the order of their submission
  versions,     \* the TaskVersions, each with its PublishedTaskContent
  submitted,    \* whether a ContentDraft is submitted and not published yet
  claimed       \* whether a learner has claimed a version

vars == <<access, roles, profile, requests, versions, submitted, claimed>>
people == <<access, roles>>

Levels  == 1..2
Camps   == {"novice", "exploration"}
Contents == [saved : 1..MaxRevision, level : Levels, camp : Camps]
NoContent == [saved |-> 0, level |-> 1, camp |-> "exploration"]
NoProfile == [revision |-> 0, status |-> "draft", content |-> NoContent]

TypeOK ==
  /\ access \in [Members -> [role : {"none", "admin", "super_admin"}, level : Levels,
                             revoked : BOOLEAN]]
  /\ roles \in [Members -> SUBSET {"OPERATOR", "REVIEWER"}]
  /\ profile \in [revision : 0..MaxRevision, status : {"draft", "published", "archived"},
                  content : Contents \cup {NoContent}]
  /\ requests \in Seq([revision : 1..MaxRevision, content : Contents,
                       status : {"pending", "approved", "rejected"}])
  /\ versions \in Seq([by : Members, content : Contents \cup {NoContent}])
  /\ submitted \in BOOLEAN
  /\ claimed \in BOOLEAN

\* The creator is staff of before the grants (no access row), or an administrator.
Init ==
  /\ access = [m \in Members |->
       [role |-> IF m = Root THEN "super_admin" ELSE "none", level |-> 1, revoked |-> FALSE]]
  /\ roles \in [Members -> SUBSET {"OPERATOR", "REVIEWER"}]
  /\ roles[Root] = {"OPERATOR", "REVIEWER"}
  /\ roles[Creator] # {}
  /\ \A m \in Members \ {Root, Creator} : roles[m] = {}
  /\ profile = NoProfile
  /\ requests = <<>> /\ versions = <<>> /\ submitted = FALSE
  /\ claimed = FALSE

-----------------------------------------------------------------------------
(* Authority: review_admin_access.py. *)

HasAccess(m) == access[m].role # "none" /\ ~ access[m].revoked

IsSuper(m) == HasAccess(m) /\ access[m].role = "super_admin"

\* permissions: staff without an access row publishes at the entry level.
CanPublish(m) == HasAccess(m) \/ (access[m].role = "none" /\ roles[m] # {})

MayPublish(m, level) ==
  CanPublish(m) /\ (IsSuper(m) \/ level = 1 \/ (HasAccess(m) /\ level <= access[m].level))

\* filter_staff_roles: an administrator with an access row is no operator.
IsOperator(m) == "OPERATOR" \in roles[m] /\ (access[m].role = "none" \/ IsSuper(m))

Pending == {i \in DOMAIN requests : requests[i].status = "pending"}

\* Mutant: a task is editable although it waits for its approval.
EditableAlways == TRUE

\* ensure_editable.
Editable == Pending = {}

\* What learners can claim: novice_routes.published.
Visible ==
  /\ versions # <<>> /\ profile.status = "published"
  /\ versions[Len(versions)].content.camp = "novice"

-----------------------------------------------------------------------------
(* The creator: save, archive and restore, submit. *)

\* Mutant: an edited task is a draft again.
DraftAgain == "draft"

\* What a task that is not archived is.
LiveStatus == IF versions # <<>> THEN "published" ELSE "draft"

\* save_task: an archived task stays archived, and one that learners hold a novice task.
SaveTask(level, camp) ==
  /\ MayPublish(Creator, level)
  /\ Editable
  /\ camp = "novice" \/ ~ claimed
  /\ profile.revision < MaxRevision
  /\ profile' = [revision |-> profile.revision + 1,
                 status |-> IF profile.status = "archived" THEN "archived" ELSE LiveStatus,
                 content |-> [saved |-> profile.revision + 1, level |-> level, camp |-> camp]]
  /\ UNCHANGED <<people, requests, versions, submitted, claimed>>

\* archive_task, for both directions.  A definition without a profile gets one, of the entry
\* level and the camp of its key: the first revision.
ArchiveTask(archived, camp) ==
  /\ CanPublish(Creator) /\ (archived \/ MayPublish(Creator, profile.content.level))
  /\ Editable
  /\ profile.revision < MaxRevision
  /\ profile' = [revision |-> profile.revision + 1,
                 status |-> IF archived THEN "archived" ELSE LiveStatus,
                 content |-> IF profile.revision = 0 THEN [saved |-> 1, level |-> 1, camp |-> camp]
                             ELSE profile.content]
  /\ UNCHANGED <<people, requests, versions, submitted, claimed>>

\* submit: one request per revision of the profile, and one that waits.
SubmitPublication ==
  /\ profile.revision > 0 /\ MayPublish(Creator, profile.content.level)
  /\ \A i \in DOMAIN requests : requests[i].revision # profile.revision
  /\ Editable
  /\ profile.status # "archived" /\ profile.content.camp = "novice"
  /\ requests' = Append(requests, [revision |-> profile.revision, content |-> profile.content,
                                   status |-> "pending"])
  /\ UNCHANGED <<people, profile, versions, submitted, claimed>>

-----------------------------------------------------------------------------
(* Publishing: publish_task_version, its callers, and drafts. *)

\* The immutable version, with the content captured for the learners.
AddVersion(m, content) ==
  /\ Len(versions) < MaxVersions
  /\ \E reviewer \in Members : "REVIEWER" \in roles[reviewer]
  /\ versions' = Append(versions, [by |-> m, content |-> content])

\* Mutant: publishing asks for the level and not for a super administrator.
AuthorityByLevel(m, content) == MayPublish(m, content.level)

\* require_version_publisher, for a task with a profile.
Authority(m, content) == IsSuper(m) /\ MayPublish(m, content.level)

\* publish_task: the creator is a super administrator.
PublishTask ==
  /\ profile.revision > 0
  /\ Editable /\ Authority(Creator, profile.content)
  /\ profile' = [profile EXCEPT !.status = "published"]
  /\ AddVersion(Creator, profile.content)
  /\ UNCHANGED <<people, requests, submitted, claimed>>

\* decide: what was submitted must still be the profile, and its author staff.
DecidePublication(m, i, decision) ==
  /\ IsSuper(m)
  /\ requests[i].status = "pending"
  /\ profile.revision = requests[i].revision /\ profile.content = requests[i].content
  /\ requests' = [requests EXCEPT ![i].status = decision]
  /\ IF decision = "approved"
     THEN /\ ~ access[Creator].revoked /\ roles[Creator] # {}
          /\ "REVIEWER" \in roles[m]
          /\ profile' = [profile EXCEPT !.status = "published"]
          /\ AddVersion(m, profile.content)
     ELSE UNCHANGED <<profile, versions>>
  /\ UNCHANGED <<people, submitted, claimed>>

\* publish_task_version at its own endpoint, with a text of its own for the version and the
\* profile, if there is one, for the learners; the status of the profile stays.
PublishTaskVersion ==
  /\ IF profile.revision > 0 THEN Authority(Creator, profile.content) ELSE IsOperator(Creator)
  /\ Editable
  /\ AddVersion(Creator, profile.content)
  /\ UNCHANGED <<people, profile, requests, submitted, claimed>>

\* A content editor submits a draft (until then it is private), and an operator publishes
\* it without a look at the profile or at what waits for approval, and without a content.
SubmitContentDraft ==
  /\ ~ submitted
  /\ submitted' = TRUE
  /\ UNCHANGED <<people, profile, requests, versions, claimed>>

PublishContentDraft(m) ==
  /\ IsOperator(m)
  /\ submitted
  /\ AddVersion(m, NoContent)
  /\ submitted' = FALSE
  /\ UNCHANGED <<people, profile, requests, claimed>>

-----------------------------------------------------------------------------
(* Learners and administrators. *)

\* claim: the version the learner has seen is the one that is visible.
Claim ==
  /\ Visible
  /\ "REVIEWER" \in roles[Creator]
  /\ claimed' = TRUE
  /\ UNCHANGED <<people, profile, requests, versions, submitted>>

\* Nobody changes her own access or that of the root.
Protected(m, target) == m # target /\ target # Root

\* grant_administrator: a super administrator that was revoked comes back by the root only.
GrantAdministrator(m, target, role, level) ==
  /\ IsSuper(m) /\ Protected(m, target)
  /\ role = "super_admin" => m = Root
  /\ access[target].role = "super_admin" => access[target].revoked /\ m = Root
  /\ access' = [access EXCEPT ![target] = [role |-> role, revoked |-> FALSE,
                  level |-> IF role = "super_admin" THEN 2 ELSE level]]
  /\ roles' = [roles EXCEPT ![target] = @ \cup {"REVIEWER"}]
  /\ UNCHANGED <<profile, requests, versions, submitted, claimed>>

DemoteAdministrator(m, target, level) ==
  /\ m = Root /\ IsSuper(m) /\ Protected(m, target)
  /\ IsSuper(target)
  /\ access' = [access EXCEPT ![target].role = "admin", ![target].level = level]
  /\ roles' = [roles EXCEPT ![target] = {"REVIEWER"}]
  /\ UNCHANGED <<profile, requests, versions, submitted, claimed>>

RevokeAdministrator(m, target) ==
  /\ IsSuper(m) /\ Protected(m, target)
  /\ access[target].role = "super_admin" => m = Root
  /\ access[target].role # "none" \/ roles[target] # {}
  /\ access' = [access EXCEPT ![target].revoked = TRUE,
                  ![target].role = IF @ = "none" THEN "admin" ELSE @]
  /\ roles' = [roles EXCEPT ![target] = {}]
  /\ UNCHANGED <<profile, requests, versions, submitted, claimed>>

\* certify: the level of an ordinary administrator, whose row it may create.
Certify(m, target, level) ==
  /\ IsSuper(m)
  /\ access[target].role # "super_admin" /\ ~ access[target].revoked
  /\ CanPublish(target)
  /\ access' = [access EXCEPT ![target].role = "admin", ![target].level = level]
  /\ UNCHANGED <<roles, profile, requests, versions, submitted, claimed>>

Next ==
  \/ \E level \in Levels, camp \in Camps : SaveTask(level, camp)
  \/ \E archived \in BOOLEAN, camp \in Camps : ArchiveTask(archived, camp)
  \/ SubmitPublication \/ PublishTask
  \/ \E m \in Members, i \in DOMAIN requests, decision \in {"approved", "rejected"} :
       DecidePublication(m, i, decision)
  \/ PublishTaskVersion
  \/ SubmitContentDraft \/ \E m \in Members : PublishContentDraft(m)
  \/ Claim
  \/ \E m, target \in Members :
       \/ \E role \in {"admin", "super_admin"}, level \in Levels :
            GrantAdministrator(m, target, role, level)
       \/ \E level \in Levels : DemoteAdministrator(m, target, level) \/ Certify(m, target, level)
       \/ RevokeAdministrator(m, target)

Spec == Init /\ [][Next]_vars

-----------------------------------------------------------------------------
(* Properties. *)

\* While a request waits it is the only one, and the profile is what it asks to publish:
\* no other command of the creator gets between what was submitted and what is approved.
PendingIsFrozen ==
  \A i \in Pending :
    /\ Pending = {i}
    /\ profile.revision = requests[i].revision /\ profile.content = requests[i].content
    /\ profile.status # "archived"

\* "ordinary staff cannot publish": a content becomes visible to learners only by the
\* hand of a super administrator, whoever is granted, demoted or revoked meanwhile.
OrdinaryStaffCannotPublish ==
  [][\A i \in DOMAIN versions' \ DOMAIN versions :
       versions'[i].content # NoContent => IsSuper(versions'[i].by)]_vars

\* "Saving editable content must not unpublish the immutable live version": only an archive
\* or a newer version takes a task out of the catalogue.
LiveStaysLive ==
  [][Visible /\ ~ Visible' => profile'.status = "archived" \/ versions' # versions]_vars
=============================================================================
