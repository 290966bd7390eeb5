------------------------ MODULE TaskPublication_proofs ------------------------
(***************************************************************************)
(* Theorems about TaskPublication, for any members, levels of authority,   *)
(* number of revisions and versions.                                       *)
(***************************************************************************)
EXTENDS TaskPublication, SequenceTheorems, TLAPS

\* A task without a profile has no content to show to learners.
NothingSaved == profile.revision = 0 => profile.content = NoContent

\* The inductive invariant.
IInv == TypeOK /\ NothingSaved /\ PendingIsFrozen

-----------------------------------------------------------------------------
(* Types. *)

\* What AddVersion appends is well typed.
LEMMA VersionTyped ==
  ASSUME TypeOK, NEW m \in Members, NEW content \in Contents \cup {NoContent}, AddVersion(m, content)
  PROVE  /\ versions' = Append(versions, [by |-> m, content |-> content])
         /\ versions' \in Seq([by : Members, content : Contents \cup {NoContent}])
  BY DEF AddVersion, TypeOK

\* Every command of the creator keeps the types.
LEMMA CreatorTyped ==
  ASSUME TypeOK,
         \/ \E level \in Levels, camp \in Camps : SaveTask(level, camp)
         \/ \E archived \in BOOLEAN, camp \in Camps : ArchiveTask(archived, camp)
         \/ SubmitPublication
         \/ PublishTask
         \/ PublishTaskVersion
  PROVE  TypeOK'
<1> USE BoundAssumption, MemberAssumption DEF TypeOK, people
<1>1. ASSUME NEW level \in Levels, NEW camp \in Camps, SaveTask(level, camp) PROVE TypeOK'
  <2>1. profile.revision + 1 \in 1..MaxRevision
    BY <1>1 DEF SaveTask
  <2>2. [saved |-> profile.revision + 1, level |-> level, camp |-> camp] \in Contents
    BY <2>1 DEF Contents
  <2> QED BY <1>1, <2>1, <2>2 DEF SaveTask, LiveStatus
<1>2. ASSUME NEW archived \in BOOLEAN, NEW camp \in Camps, ArchiveTask(archived, camp) PROVE TypeOK'
  <2>0. profile.revision < MaxRevision
    BY <1>2, Zenon DEF ArchiveTask
  <2>1. profile.revision + 1 \in 0..MaxRevision /\ 1 \in 1..MaxRevision
    BY <2>0
  <2>2. (IF archived THEN "archived" ELSE LiveStatus) \in {"draft", "published", "archived"}
    BY Zenon DEF LiveStatus
  <2>3. [saved |-> 1, level |-> 1, camp |-> camp] \in Contents
    BY <2>1 DEF Contents, Levels
  <2>4. PICK status \in {"draft", "published", "archived"}, content \in Contents \cup {NoContent} :
          profile' = [revision |-> profile.revision + 1, status |-> status, content |-> content]
    BY <1>2, <2>2, <2>3, Zenon DEF ArchiveTask
  <2>5. profile' \in [revision : 0..MaxRevision, status : {"draft", "published", "archived"},
                      content : Contents \cup {NoContent}]
    BY <2>1, <2>4
  <2> QED BY <1>2, <2>5 DEF ArchiveTask
<1>3. ASSUME SubmitPublication PROVE TypeOK'
  <2>1. profile.revision \in 1..MaxRevision /\ profile.content \in Contents
    BY <1>3 DEF SubmitPublication, NoContent, Contents
  <2> QED BY <1>3, <2>1 DEF SubmitPublication
<1>4. ASSUME PublishTask PROVE TypeOK'
  BY <1>4, VersionTyped DEF PublishTask
<1>5. ASSUME PublishTaskVersion PROVE TypeOK'
  BY <1>5, VersionTyped DEF PublishTaskVersion
<1> QED BY <1>1, <1>2, <1>3, <1>4, <1>5

\* A change of one member's access and roles keeps the types.
AccessRow == [role : {"none", "admin", "super_admin"}, level : Levels, revoked : BOOLEAN]

\* Whoever's rights change, everything stays well typed.
LEMMA PeopleTyped ==
  ASSUME TypeOK, NEW target \in Members, NEW row \in AccessRow,
         access' = [access EXCEPT ![target] = row],
         \/ UNCHANGED roles
         \/ \E new \in SUBSET {"OPERATOR", "REVIEWER"} : roles' = [roles EXCEPT ![target] = new]
         \/ roles' = [roles EXCEPT ![target] = @ \cup {"REVIEWER"}],
         UNCHANGED <<profile, requests, versions, submitted, claimed>>
  PROVE  TypeOK'
<1>1. access' \in [Members -> AccessRow]
  BY DEF TypeOK, AccessRow
<1>2. PICK new \in SUBSET {"OPERATOR", "REVIEWER"} : roles' = [roles EXCEPT ![target] = new]
  <2>1. roles \in [Members -> SUBSET {"OPERATOR", "REVIEWER"}]
    BY DEF TypeOK
  <2>2. roles[target] \in SUBSET {"OPERATOR", "REVIEWER"}
    BY <2>1
  <2>3. CASE UNCHANGED roles
    <3>1. roles' = [roles EXCEPT ![target] = roles[target]]
      BY <2>1, <2>3
    <3> QED BY <2>2, <3>1
  <2>4. CASE roles' = [roles EXCEPT ![target] = @ \cup {"REVIEWER"}]
    <3>1. roles[target] \cup {"REVIEWER"} \in SUBSET {"OPERATOR", "REVIEWER"}
      BY <2>2
    <3> QED BY <2>4, <3>1
  <2> QED BY <2>3, <2>4
<1>3. roles' \in [Members -> SUBSET {"OPERATOR", "REVIEWER"}]
  BY <1>2 DEF TypeOK
<1> QED BY <1>1, <1>3 DEF TypeOK, AccessRow

\* Every other command keeps the types.
LEMMA OthersTyped ==
  ASSUME TypeOK,
         \/ \E m \in Members, i \in DOMAIN requests, decision \in {"approved", "rejected"} :
              DecidePublication(m, i, decision)
         \/ SubmitContentDraft
         \/ \E m \in Members : PublishContentDraft(m)
         \/ Claim
         \/ \E m, target \in Members :
              \/ \E role \in {"admin", "super_admin"}, level \in Levels :
                   GrantAdministrator(m, target, role, level)
              \/ \E level \in Levels : DemoteAdministrator(m, target, level) \/ Certify(m, target, level)
              \/ RevokeAdministrator(m, target)
  PROVE  TypeOK'
<1> USE DEF TypeOK, people
<1>1. ASSUME NEW m \in Members, NEW i \in DOMAIN requests, NEW decision \in {"approved", "rejected"},
             DecidePublication(m, i, decision)
      PROVE  TypeOK'
  <2>1. requests' \in Seq([revision : 1..MaxRevision, content : Contents,
                           status : {"pending", "approved", "rejected"}])
    <3>1. i \in 1..Len(requests)
      OBVIOUS
    <3>2. [requests[i] EXCEPT !.status = decision] \in
             [revision : 1..MaxRevision, content : Contents,
              status : {"pending", "approved", "rejected"}]
      <4> DEFINE R == [revision : 1..MaxRevision, content : Contents,
                       status : {"pending", "approved", "rejected"}]
      <4>1. requests[i] \in R
        BY <3>1, requests \in Seq(R), ElementOfSeq
      <4>2. decision \in {"pending", "approved", "rejected"}
        OBVIOUS
      <4> QED BY <4>1, <4>2
    <3>3. requests' = [requests EXCEPT ![i] = [requests[i] EXCEPT !.status = decision]]
      BY <1>1 DEF DecidePublication
    <3> QED BY <3>1, <3>2, <3>3, ExceptSeq
  <2>2. CASE decision = "approved"
    BY <1>1, <2>1, <2>2, VersionTyped DEF DecidePublication
  <2>3. CASE decision # "approved"
    BY <1>1, <2>1, <2>3 DEF DecidePublication
  <2> QED BY <2>2, <2>3
<1>2. ASSUME SubmitContentDraft PROVE TypeOK'
  BY <1>2 DEF SubmitContentDraft
<1>3. ASSUME NEW m \in Members, PublishContentDraft(m) PROVE TypeOK'
  BY <1>3, VersionTyped DEF PublishContentDraft
<1>4. ASSUME Claim PROVE TypeOK'
  BY <1>4 DEF Claim
<1>5. ASSUME NEW m \in Members, NEW target \in Members, NEW role \in {"admin", "super_admin"},
             NEW level \in Levels, GrantAdministrator(m, target, role, level)
      PROVE  TypeOK'
  <2>1. [role |-> role, revoked |-> FALSE, level |-> IF role = "super_admin" THEN 2 ELSE level]
          \in AccessRow
    BY DEF AccessRow, Levels
  <2> QED BY <1>5, <2>1, PeopleTyped DEF GrantAdministrator
<1>6. ASSUME NEW m \in Members, NEW target \in Members, NEW level \in Levels,
             DemoteAdministrator(m, target, level)
      PROVE  TypeOK'
  <2>1. access' = [access EXCEPT ![target] = [access[target] EXCEPT !.role = "admin", !.level = level]]
    BY <1>6 DEF DemoteAdministrator
  <2>2. [access[target] EXCEPT !.role = "admin", !.level = level] \in AccessRow
    BY DEF AccessRow
  <2> QED BY <1>6, <2>1, <2>2, PeopleTyped DEF DemoteAdministrator
<1>7. ASSUME NEW m \in Members, NEW target \in Members, NEW level \in Levels, Certify(m, target, level)
      PROVE  TypeOK'
  <2>1. access' = [access EXCEPT ![target] = [access[target] EXCEPT !.role = "admin", !.level = level]]
    BY <1>7 DEF Certify
  <2>2. [access[target] EXCEPT !.role = "admin", !.level = level] \in AccessRow
    BY DEF AccessRow
  <2> QED BY <1>7, <2>1, <2>2, PeopleTyped DEF Certify
<1>8. ASSUME NEW m \in Members, NEW target \in Members, RevokeAdministrator(m, target) PROVE TypeOK'
  <2>1. PICK role \in {"none", "admin", "super_admin"} :
          access' = [access EXCEPT ![target] = [access[target] EXCEPT !.revoked = TRUE, !.role = role]]
    BY <1>8 DEF RevokeAdministrator
  <2>2. [access[target] EXCEPT !.revoked = TRUE, !.role = role] \in AccessRow
    BY <2>1 DEF AccessRow
  <2> QED BY <1>8, <2>1, <2>2, PeopleTyped DEF RevokeAdministrator
<1> HIDE DEF TypeOK
<1> QED BY <1>1, <1>2, <1>3, <1>4, <1>5, <1>6, <1>7, <1>8

-----------------------------------------------------------------------------
(* The inductive invariant. *)

\* The invariant holds of a task that was never saved.
LEMMA InitHolds == Init => IInv
<1> SUFFICES ASSUME Init PROVE IInv
  OBVIOUS
<1>1. TypeOK
  <2>1. profile \in [revision : 0..MaxRevision, status : {"draft", "published", "archived"},
                     content : Contents \cup {NoContent}]
    BY BoundAssumption DEF Init, NoProfile
  <2>2. access \in [Members -> AccessRow]
    BY DEF Init, AccessRow, Levels
  <2>3. /\ roles \in [Members -> SUBSET {"OPERATOR", "REVIEWER"}]
        /\ submitted \in BOOLEAN /\ claimed \in BOOLEAN
    BY DEF Init
  <2>4. /\ requests \in Seq([revision : 1..MaxRevision, content : Contents,
                             status : {"pending", "approved", "rejected"}])
        /\ versions \in Seq([by : Members, content : Contents \cup {NoContent}])
    BY EmptySeq DEF Init
  <2> QED BY <2>1, <2>2, <2>3, <2>4, Zenon DEF TypeOK, AccessRow
<1>2. NothingSaved /\ PendingIsFrozen
  BY DEF Init, NothingSaved, PendingIsFrozen, Pending, NoProfile
<1> QED BY <1>1, <1>2 DEF IInv

\* A command that needs Editable finds and leaves nothing pending.
LEMMA NothingPending ==
  ASSUME Editable, UNCHANGED requests
  PROVE  PendingIsFrozen'
  BY DEF Editable, PendingIsFrozen, Pending

\* A step that leaves requests and the profile alone keeps the rest of the invariant.
LEMMA Aside ==
  ASSUME NothingSaved, PendingIsFrozen, UNCHANGED <<profile, requests>>
  PROVE  NothingSaved' /\ PendingIsFrozen'
  BY DEF NothingSaved, PendingIsFrozen, Pending

\* A submission waits with the content that is saved now.
LEMMA SubmitFrozen == ASSUME IInv, SubmitPublication PROVE NothingSaved' /\ PendingIsFrozen'
<1> DEFINE new == [revision |-> profile.revision, content |-> profile.content, status |-> "pending"]
<1>1. /\ requests' = Append(requests, new)
      /\ UNCHANGED profile
      /\ profile.status # "archived"
      /\ Pending = {}
  BY DEF SubmitPublication, Editable
<1>2. requests \in Seq([revision : 1..MaxRevision, content : Contents,
                        status : {"pending", "approved", "rejected"}])
  BY DEF IInv, TypeOK
<1>3. /\ DOMAIN requests' = 1..(Len(requests) + 1)
      /\ DOMAIN requests = 1..Len(requests)
      /\ requests'[Len(requests) + 1] = new
      /\ \A i \in 1..Len(requests) : requests'[i] = requests[i]
  BY <1>1, <1>2
<1>4. Pending' = {Len(requests) + 1}
  BY <1>1, <1>2, <1>3 DEF Pending
<1> QED BY <1>1, <1>3, <1>4 DEF PendingIsFrozen, NothingSaved, IInv

\* A decision leaves nothing that waits.
LEMMA DecideFrozen ==
  ASSUME IInv, NEW m \in Members, NEW i \in DOMAIN requests, NEW decision \in {"approved", "rejected"},
         DecidePublication(m, i, decision)
  PROVE  NothingSaved' /\ PendingIsFrozen'
<1>1. i \in Pending
  BY DEF DecidePublication, Pending
<1>2. Pending = {i}
  BY <1>1 DEF IInv, PendingIsFrozen
<1>3. Pending' = {}
  BY <1>2 DEF Pending, DecidePublication, IInv, TypeOK
<1>4. NothingSaved'
  BY DEF IInv, NothingSaved, DecidePublication, TypeOK
<1> QED BY <1>3, <1>4 DEF PendingIsFrozen

\* Each step keeps the invariant.
LEMMA NextHolds == IInv /\ [Next]_vars => IInv'
<1> SUFFICES ASSUME IInv, [Next]_vars PROVE IInv'
  OBVIOUS
<1> USE DEF IInv
<1>1. ASSUME NEW level \in Levels, NEW camp \in Camps, SaveTask(level, camp)
      PROVE  NothingSaved' /\ PendingIsFrozen'
  BY <1>1, NothingPending DEF SaveTask, NothingSaved, TypeOK
<1>2. ASSUME NEW archived \in BOOLEAN, NEW camp \in Camps, ArchiveTask(archived, camp)
      PROVE  NothingSaved' /\ PendingIsFrozen'
  <2>1. /\ profile'.revision = profile.revision + 1
        /\ profile.revision \in Nat
    BY <1>2 DEF ArchiveTask, TypeOK
  <2> QED BY <1>2, <2>1, NothingPending DEF ArchiveTask, NothingSaved
<1>3. ASSUME PublishTask PROVE NothingSaved' /\ PendingIsFrozen'
  BY <1>3, NothingPending DEF PublishTask, NothingSaved, TypeOK
<1>4. ASSUME UNCHANGED <<profile, requests>> PROVE NothingSaved' /\ PendingIsFrozen'
  BY <1>4, Aside
<1>5. TypeOK'
  <2>1. CASE Next
    BY <2>1, CreatorTyped, OthersTyped DEF Next
  <2>2. CASE UNCHANGED vars
    BY <2>2 DEF vars, people, TypeOK
  <2> QED BY <2>1, <2>2
<1>6. NothingSaved' /\ PendingIsFrozen'
  <2>1. CASE PublishTaskVersion \/ SubmitContentDraft \/ Claim
    BY <2>1, <1>4 DEF PublishTaskVersion, SubmitContentDraft, Claim
  <2>2. CASE \E m \in Members : PublishContentDraft(m)
    BY <2>2, <1>4 DEF PublishContentDraft
  <2>3. CASE \E m, target \in Members :
               \/ \E role \in {"admin", "super_admin"}, level \in Levels :
                    GrantAdministrator(m, target, role, level)
               \/ \E level \in Levels : DemoteAdministrator(m, target, level) \/ Certify(m, target, level)
               \/ RevokeAdministrator(m, target)
    BY <2>3, <1>4 DEF GrantAdministrator, DemoteAdministrator, Certify, RevokeAdministrator
  <2>4. CASE UNCHANGED vars
    BY <2>4, <1>4 DEF vars
  <2> QED BY <1>1, <1>2, <1>3, <2>1, <2>2, <2>3, <2>4, SubmitFrozen, DecideFrozen DEF Next
<1> QED BY <1>5, <1>6

\* It holds of every reachable state.
LEMMA Inductive == Spec => []IInv
BY InitHolds, NextHolds, PTL DEF Spec

-----------------------------------------------------------------------------
(* The theorems. *)

\* Access, roles, profiles, requests and versions are well typed, for any members.
THEOREM TypeCorrect == Spec => []TypeOK
BY Inductive, PTL DEF IInv

\* What waits for an approval does not change under the approver's eyes.
THEOREM PendingStaysFrozen == Spec => []PendingIsFrozen
BY Inductive, PTL DEF IInv

\* What AddVersion appends is the only new version.
LEMMA OneNewVersion ==
  ASSUME TypeOK, NEW m \in Members, NEW content \in Contents \cup {NoContent}, AddVersion(m, content),
         content # NoContent => IsSuper(m)
  PROVE  \A i \in DOMAIN versions' \ DOMAIN versions :
           versions'[i].content # NoContent => IsSuper(versions'[i].by)
<1>1. versions' = Append(versions, [by |-> m, content |-> content])
  BY VersionTyped
<1>2. versions \in Seq([by : Members, content : Contents \cup {NoContent}])
  BY DEF TypeOK
<1>3. /\ DOMAIN versions' \ DOMAIN versions = {Len(versions) + 1}
      /\ versions'[Len(versions) + 1] = [by |-> m, content |-> content]
  BY <1>1, <1>2
<1> QED BY <1>3

\* Nobody but a super administrator makes a content visible to learners.
THEOREM OnlySupersPublish == Spec => OrdinaryStaffCannotPublish
<1> DEFINE A == \A i \in DOMAIN versions' \ DOMAIN versions :
                  versions'[i].content # NoContent => IsSuper(versions'[i].by)
<1>1. ASSUME IInv, [Next]_vars PROVE [A]_vars
  <2> USE <1>1 DEF IInv
  <2>1. profile.content \in Contents \cup {NoContent}
    BY DEF TypeOK
  <2>2. ASSUME PublishTask PROVE A
    BY <2>1, <2>2, OneNewVersion, MemberAssumption DEF PublishTask, Authority
  <2>3. ASSUME PublishTaskVersion PROVE A
    <3>1. profile.content # NoContent => IsSuper(Creator)
      <4>1. profile.revision = 0 \/ profile.revision > 0
        BY DEF TypeOK
      <4> QED BY <2>3, <4>1 DEF PublishTaskVersion, Authority, NothingSaved
    <3> QED BY <2>1, <2>3, <3>1, OneNewVersion, MemberAssumption DEF PublishTaskVersion
  <2>4. ASSUME NEW m \in Members, NEW i \in DOMAIN requests,
               NEW decision \in {"approved", "rejected"}, DecidePublication(m, i, decision)
        PROVE  A
    <3>1. CASE decision = "approved"
      BY <2>1, <2>4, <3>1, OneNewVersion DEF DecidePublication
    <3>2. CASE decision # "approved"
      BY <2>4, <3>2 DEF DecidePublication
    <3> QED BY <3>1, <3>2
  <2>5. ASSUME NEW m \in Members, PublishContentDraft(m) PROVE A
    BY <2>5, OneNewVersion DEF PublishContentDraft
  <2>6. ASSUME UNCHANGED versions PROVE A
    BY <2>6
  <2> HIDE DEF A
  <2>7. ASSUME NEW level \in Levels, NEW camp \in Camps, SaveTask(level, camp) PROVE A
    BY <2>6, <2>7 DEF SaveTask
  <2>8. ASSUME NEW archived \in BOOLEAN, NEW camp \in Camps, ArchiveTask(archived, camp) PROVE A
    BY <2>6, <2>8, Zenon DEF ArchiveTask
  <2>9. ASSUME SubmitPublication \/ SubmitContentDraft \/ Claim PROVE A
    BY <2>6, <2>9 DEF SubmitPublication, SubmitContentDraft, Claim
  <2>10. ASSUME NEW m \in Members, NEW target \in Members,
                \/ \E role \in {"admin", "super_admin"}, level \in Levels :
                     GrantAdministrator(m, target, role, level)
                \/ \E level \in Levels : DemoteAdministrator(m, target, level) \/ Certify(m, target, level)
                \/ RevokeAdministrator(m, target)
         PROVE  A
    BY <2>6, <2>10 DEF GrantAdministrator, DemoteAdministrator, Certify, RevokeAdministrator
  <2> QED BY <2>2, <2>3, <2>4, <2>5, <2>7, <2>8, <2>9, <2>10, Zenon DEF Next
<1> QED BY <1>1, Inductive, PTL DEF Spec, OrdinaryStaffCannotPublish, A

\* Saving, submitting and approving never take a live task out of the catalogue.
THEOREM LiveTasksStay == Spec => LiveStaysLive
<1> DEFINE A == Visible /\ ~ Visible' => profile'.status = "archived" \/ versions' # versions
<1>1. ASSUME IInv, [Next]_vars PROVE [A]_vars
  <2> USE <1>1 DEF IInv
  <2>1. ASSUME UNCHANGED versions, profile'.status = profile.status PROVE A
    BY <2>1 DEF Visible
  <2>2. ASSUME UNCHANGED versions, profile'.status = LiveStatus PROVE A
    BY <2>2 DEF Visible, LiveStatus
  <2>3. ASSUME UNCHANGED versions, profile'.status = "archived" PROVE A
    BY <2>3
  <2>4. ASSUME NEW m \in Members, NEW content \in Contents \cup {NoContent}, AddVersion(m, content)
        PROVE  A
    BY <2>4 DEF AddVersion, TypeOK
  <2>5. profile.content \in Contents \cup {NoContent} /\ NoContent \in Contents \cup {NoContent}
    BY DEF TypeOK
  <2> HIDE DEF A
  <2>6. ASSUME NEW level \in Levels, NEW camp \in Camps, SaveTask(level, camp) PROVE A
    <3>1. UNCHANGED versions /\ profile'.status = IF profile.status = "archived" THEN "archived" ELSE LiveStatus
      BY <2>6 DEF SaveTask
    <3> QED BY <3>1, <2>2, <2>3
  <2>7. ASSUME NEW archived \in BOOLEAN, NEW camp \in Camps, ArchiveTask(archived, camp) PROVE A
    <3>1. UNCHANGED versions /\ profile'.status = IF archived THEN "archived" ELSE LiveStatus
      <4>1. PICK status, content :
              /\ status = IF archived THEN "archived" ELSE LiveStatus
              /\ profile' = [revision |-> profile.revision + 1, status |-> status,
                             content |-> content]
        BY <2>7, Zenon DEF ArchiveTask
      <4>2. profile'.status = status
        BY <4>1
      <4> QED BY <2>7, <4>1, <4>2, Zenon DEF ArchiveTask
    <3> QED BY <3>1, <2>2, <2>3
  <2>8. ASSUME PublishTask \/ PublishTaskVersion PROVE A
    BY <2>4, <2>5, <2>8, MemberAssumption DEF PublishTask, PublishTaskVersion
  <2>9. ASSUME NEW m \in Members, NEW i \in DOMAIN requests,
               NEW decision \in {"approved", "rejected"}, DecidePublication(m, i, decision)
        PROVE  A
    <3>1. CASE decision = "approved"
      BY <2>4, <2>5, <2>9, <3>1 DEF DecidePublication
    <3>2. CASE decision # "approved"
      BY <2>1, <2>9, <3>2 DEF DecidePublication
    <3> QED BY <3>1, <3>2
  <2>10. ASSUME NEW m \in Members, PublishContentDraft(m) PROVE A
    BY <2>4, <2>5, <2>10 DEF PublishContentDraft
  <2>11. ASSUME SubmitPublication \/ SubmitContentDraft \/ Claim PROVE A
    BY <2>1, <2>11 DEF SubmitPublication, SubmitContentDraft, Claim
  <2>12. ASSUME NEW m \in Members, NEW target \in Members,
                \/ \E role \in {"admin", "super_admin"}, level \in Levels :
                     GrantAdministrator(m, target, role, level)
                \/ \E level \in Levels : DemoteAdministrator(m, target, level) \/ Certify(m, target, level)
                \/ RevokeAdministrator(m, target)
         PROVE  A
    BY <2>1, <2>12 DEF GrantAdministrator, DemoteAdministrator, Certify, RevokeAdministrator
  <2> QED BY <2>6, <2>7, <2>8, <2>9, <2>10, <2>11, <2>12, Zenon DEF Next
<1> QED BY <1>1, Inductive, PTL DEF Spec, LiveStaysLive, A
===============================================================================
