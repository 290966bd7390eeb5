--------------------------- MODULE SchemaUpgrade ---------------------------
(***************************************************************************)
(* The script that moves a running installation to a new schema and a new  *)
(* application, one phase a call: prepare; backup-migrate, which proves an *)
(* encrypted backup and migrates under the old application; switch, which  *)
(* can go back; backfill, which cannot, for the old application does not   *)
(* understand the coaching reviews it creates; and rollback-pre-backfill.  *)
(* A lock admits one call at a time, but a call may fail or be killed      *)
(* after any step, and the next one finds what it left.  Meanwhile the     *)
(* application serves, and what the script had Docker run goes on when a   *)
(* command times out or the script is killed: only the client ends.        *)
(*                                                                         *)
(* A call that is refused changes nothing and is not a step.  The phases   *)
(* inspect and backup-diagnose only read.                                  *)
(***************************************************************************)
EXTENDS Naturals, FiniteSets

CONSTANTS
  MaxRows,    \* bound: rows that the application adds
  MaxKills,   \* bound: calls that are killed
  Strays      \* containers of backfills whose calls are gone; bound: how many at a time

ASSUME UpgradeBounds == MaxRows \in Nat /\ MaxKills \in Nat
ASSUME StrayAssumption == {"upgrade", "apply"} \cap Strays = {}

VARIABLES
  prepared,   \* the new release's directory: "NO", "PARTIAL", or "YES" when its hashes are written
  backup,     \* the files in the backup's directory
  sound,      \* which of the dump and its encryption can be restored
  current,    \* the release the symbolic link names
  temporary,  \* whether the link's successor is there, not yet renamed
  marks,      \* switch-attempt.json and backfill-complete.json
  schema,     \* the migration the database is at
  rows,       \* rows of the business tables
  waiting,    \* latest treasure versions without a Review
  coaching,   \* LEARNING_COACHING reviews
  api,        \* the application that serves
  container,  \* what Docker runs: the "upgrade", the "apply" of the present call, and strays
  step,       \* where the call is
  noted,      \* the facts it read before it changed any
  plan,       \* the candidates it counted
  made,       \* the reviews its backfill created
  verdict,    \* how the last call ended
  kills,
  overlooked  \* history only: whether a rollback went ahead while a backfill was under way

release == <<prepared, marks>>
files == <<backup, sound>>
pointers == <<current, temporary>>
database == <<schema, rows, waiting, coaching>>
notes == <<noted, plan, made>>
upgradeVars == <<release, files, pointers, database, api, container, step, notes, verdict,
                 kills, overlooked>>

BackupFiles == {"exchange", "dump", "before", "restore.env", "restored", "enc", "verify",
                "after", "receipt"}
Steps == {"idle", "prepare", "dump", "restore", "compare", "encrypt", "verify", "migrate", "check",
          "up", "point", "replace", "public", "undo", "upBase", "pointBase", "replaceBase",
          "plan", "apply", "facts"}

UpgradeTypeOK ==
  /\ prepared \in {"NO", "PARTIAL", "YES"}
  /\ marks \subseteq {"attempt", "complete"}
  /\ backup \subseteq BackupFiles
  /\ sound \subseteq {"dump", "enc"}
  /\ current \in {"BASE", "NEW"} /\ temporary \in BOOLEAN
  /\ schema \in {"OLD", "NEW"}
  /\ {rows, waiting, coaching, noted, plan, made} \subseteq Nat
  /\ api \in {"OLD", "NEW", "DOWN"}
  /\ container \subseteq {"upgrade", "apply"} \cup Strays
  /\ step \in Steps
  /\ verdict \in {"NONE", "PASS", "OLD_HEALTHY", "STOP", "KILLED"}
  /\ kills \in 0..MaxKills
  /\ overlooked \in BOOLEAN

UpgradeInit ==
  /\ prepared = "NO" /\ marks = {}
  /\ backup = {} /\ sound = {}
  /\ current = "BASE" /\ temporary = FALSE
  /\ schema = "OLD" /\ rows = 0 /\ waiting \in {0, 1} /\ coaching = 0
  /\ api = "OLD" /\ container = {}
  /\ step = "idle" /\ noted = 0 /\ plan = 0 /\ made = 0
  /\ verdict = "NONE" /\ kills = 0 /\ overlooked = FALSE

Begin(next) == step = "idle" /\ step' = next /\ verdict' = "NONE"
Continue(from, to) == step = from /\ step' = to /\ UNCHANGED verdict
End(how) == step' = "idle" /\ verdict' = how

-----------------------------------------------------------------------------
(* prepare and backup-migrate, under the old application. *)

VerifyBase == current = "BASE" /\ api = "OLD"

Prepare ==
  /\ Begin("prepare")
  /\ VerifyBase
  /\ prepared = "NO"
  /\ prepared' = "PARTIAL"
  /\ UNCHANGED <<marks, files, pointers, database, api, container, notes, kills, overlooked>>

Prepared ==
  /\ step = "prepare"
  /\ prepared' = "YES"
  /\ End("PASS")
  /\ UNCHANGED <<marks, files, pointers, database, api, container, notes, kills, overlooked>>

\* Mutant: whatever an earlier attempt left makes room for the next.
RecoverWhatever == TRUE

\* recover_incomplete_backup removes only what a migration cannot have followed.
RecoverIncompleteBackup == backup \subseteq {"before", "restored", "dump"}

BackupMigrate ==
  /\ Begin("dump")
  /\ VerifyBase
  /\ prepared = "YES"
  /\ RecoverIncompleteBackup
  /\ backup' = {"exchange"}
  /\ sound' = {}
  /\ UNCHANGED <<release, pointers, database, api, container, notes, kills, overlooked>>

\* The dump and the facts are of one snapshot.
SnapshotDump ==
  /\ step = "dump"
  /\ backup' = {"dump", "before"}
  /\ noted' = rows
  /\ sound' \in {{}, {"dump"}}
  /\ IF schema = "OLD" THEN step' = "restore" /\ UNCHANGED verdict ELSE End("STOP")
  /\ UNCHANGED <<release, pointers, database, api, container, plan, made, kills, overlooked>>

Restore ==
  /\ Continue("restore", "compare")
  /\ backup' = backup \cup {"restore.env"}
  /\ UNCHANGED <<release, sound, pointers, database, api, container, notes, kills, overlooked>>

CleanedUp(names) == names \ {"exchange", "restore.env", "dump", "verify"}

CompareRestored ==
  /\ step = "compare"
  /\ IF "dump" \in sound
       THEN /\ Continue("compare", "encrypt")
            /\ backup' = (backup \ {"restore.env"}) \cup {"restored"}
       ELSE /\ End("STOP")
            /\ backup' = CleanedUp(backup) \cup {"restored"}
  /\ UNCHANGED <<release, sound, pointers, database, api, container, notes, kills, overlooked>>

Encrypt ==
  /\ Continue("encrypt", "verify")
  /\ backup' = backup \cup {"enc"}
  /\ sound' \in {sound, sound \cup {"enc"}}
  /\ UNCHANGED <<release, pointers, database, api, container, notes, kills, overlooked>>

\* What decrypts to the dump is followed by the migration, in a container.
VerifyDecrypted ==
  /\ step = "verify"
  /\ IF "enc" \in sound
       THEN /\ Continue("verify", "migrate")
            /\ backup' = backup \cup {"verify"}
            /\ container' = container \cup {"upgrade"}
       ELSE /\ End("STOP")
            /\ backup' = CleanedUp(backup)
            /\ UNCHANGED container
  /\ UNCHANGED <<release, sound, pointers, database, api, notes, kills, overlooked>>

Migrated ==
  /\ "upgrade" \in container
  /\ schema' = "NEW"
  /\ container' = container \ {"upgrade"}
  /\ UNCHANGED <<release, files, pointers, rows, waiting, coaching, api, step, notes, verdict, kills,
                 overlooked>>

MigrationSeen ==
  /\ Continue("migrate", "check")
  /\ "upgrade" \notin container
  /\ UNCHANGED <<release, files, pointers, database, api, container, notes, kills, overlooked>>

\* No row may have come or gone since the snapshot; then the old application is
\* tried on the new schema and the receipt written.
CheckFacts ==
  /\ step = "check"
  /\ IF rows = noted /\ coaching = 0
       THEN End("PASS") /\ backup' = CleanedUp(backup) \cup {"after", "receipt"}
       ELSE End("STOP") /\ backup' = CleanedUp(backup) \cup {"after"}
  /\ UNCHANGED <<release, sound, pointers, database, api, container, notes, kills, overlooked>>

-----------------------------------------------------------------------------
(* switch and rollback-pre-backfill. *)

\* Mutant: a rollback relies on the mark that the backfill leaves when it is done.
NotRecorded == schema = "NEW"

\* coaching_fact_count; on the old schema its query fails.
NoCoachingFacts == schema = "NEW" /\ coaching = 0

Switch ==
  /\ Begin("up")
  /\ prepared = "YES"
  /\ "receipt" \in backup
  /\ VerifyBase
  /\ NoCoachingFacts
  /\ "attempt" \notin marks
  /\ marks' = marks \cup {"attempt"}
  /\ UNCHANGED <<prepared, files, pointers, database, api, container, notes, kills, overlooked>>

UpNew ==
  /\ Continue("up", "point")
  /\ api' = "NEW"
  /\ UNCHANGED <<release, files, pointers, database, container, notes, kills, overlooked>>

Symlink(from, to) ==
  /\ Continue(from, to)
  /\ temporary = FALSE
  /\ temporary' = TRUE
  /\ UNCHANGED <<release, files, current, database, api, container, notes, kills, overlooked>>

PointNew == Symlink("point", "replace")

ReplaceNew ==
  /\ Continue("replace", "public")
  /\ current' = "NEW"
  /\ temporary' = FALSE
  /\ UNCHANGED <<release, files, database, api, container, notes, kills, overlooked>>

SwitchPasses ==
  /\ step = "public"
  /\ End("PASS")
  /\ UNCHANGED <<release, files, pointers, database, api, container, notes, kills, overlooked>>

\* A switch that fails goes back; an up that fails leaves either application, or none.
SwitchFails ==
  /\ step \in {"up", "point", "replace", "public"}
  /\ step' = "undo"
  /\ api' \in IF step = "up" THEN {api, "NEW", "DOWN"} ELSE {api}
  /\ UNCHANGED <<release, files, pointers, database, container, notes, verdict, kills, overlooked>>

RollbackPreBackfill ==
  /\ step \in {"idle", "undo"}
  /\ prepared = "YES"
  /\ "complete" \notin marks
  /\ NoCoachingFacts
  /\ step' = "upBase"
  /\ verdict' = "NONE"
  /\ overlooked' = (overlooked \/ container \cap Strays # {})
  /\ UNCHANGED <<release, files, pointers, database, api, container, notes, kills>>

UpBase ==
  /\ Continue("upBase", "pointBase")
  /\ api' = "OLD"
  /\ UNCHANGED <<release, files, pointers, database, container, notes, kills, overlooked>>

\* Mutant: a rollback brings the application back and not the link.
PointerIsFine == TRUE

PointsToBase == current = "BASE"

NothingToPoint ==
  /\ step = "pointBase"
  /\ PointsToBase
  /\ End("OLD_HEALTHY")
  /\ UNCHANGED <<release, files, pointers, database, api, container, notes, kills, overlooked>>

PointBase == ~ PointsToBase /\ Symlink("pointBase", "replaceBase")

ReplaceBase ==
  /\ step = "replaceBase"
  /\ End("OLD_HEALTHY")
  /\ current' = "BASE"
  /\ temporary' = FALSE
  /\ UNCHANGED <<release, files, database, api, container, notes, kills, overlooked>>

-----------------------------------------------------------------------------
(* backfill. *)

Backfill ==
  /\ Begin("plan")
  /\ prepared = "YES"
  /\ current = "NEW" /\ api = "NEW"
  /\ "complete" \notin marks
  /\ noted' = rows
  /\ UNCHANGED <<release, files, pointers, database, api, container, plan, made, kills, overlooked>>

Plan ==
  /\ Continue("plan", "apply")
  /\ plan' = waiting
  /\ made' = 0
  /\ container' = container \cup {"apply"}
  /\ UNCHANGED <<release, files, pointers, database, api, noted, kills, overlooked>>

\* coaching_backfill apply: one transaction, for every candidate it finds.  The script
\* hears of its own; of two at once the later finds none, or fails on the first one's.
Applied(c) ==
  /\ c \in container \ {"upgrade"}
  /\ coaching' = coaching + waiting
  /\ made' = IF c = "apply" THEN waiting ELSE made
  /\ waiting' = 0
  /\ container' = container \ {c}
  /\ UNCHANGED <<release, files, pointers, schema, rows, api, step, noted, plan, verdict, kills,
                 overlooked>>

ApplySeen ==
  /\ "apply" \notin container
  /\ made = plan
  /\ Continue("apply", "facts")
  /\ UNCHANGED <<release, files, pointers, database, api, container, notes, kills, overlooked>>

CompareFacts ==
  /\ step = "facts"
  /\ rows = noted
  /\ End("PASS")
  /\ marks' = marks \cup {"complete"}
  /\ UNCHANGED <<prepared, files, pointers, database, api, container, notes, kills, overlooked>>

-----------------------------------------------------------------------------
(* What goes wrong, and what goes on meanwhile. *)

\* What the finally clauses of backup-migrate leave; when the dump itself fails, that is
\* before the clause that removes it.
Leftovers ==
  CASE step = "dump" -> SUBSET {"dump", "before"}
    [] step \in {"restore", "compare", "encrypt", "verify", "migrate", "check"} -> {CleanedUp(backup)}
    [] OTHER -> {backup}

\* The call is gone, and what it started goes on.
Abandoned ==
  \/ "apply" \notin container /\ UNCHANGED container
  \/ /\ "apply" \in container
     /\ \E s \in Strays \ container : container' = (container \ {"apply"}) \cup {s}

\* A command fails or times out.
Fails ==
  /\ step \notin {"idle", "up", "point", "replace", "public"}
  /\ End("STOP")
  /\ api' \in IF step = "upBase" THEN {api, "OLD", "DOWN"} ELSE {api}
  /\ backup' \in Leftovers
  /\ Abandoned
  /\ UNCHANGED <<release, sound, pointers, database, notes, kills, overlooked>>

\* The script is killed: no clause of it runs.
Killed ==
  /\ step # "idle"
  /\ kills < MaxKills
  /\ kills' = kills + 1
  /\ End("KILLED")
  /\ Abandoned
  /\ UNCHANGED <<release, files, pointers, database, api, notes, overlooked>>

\* A container fails; its transaction leaves nothing, and a script that waits for it stops.
ContainerFails(c) ==
  /\ c \in container
  /\ container' = container \ {c}
  /\ IF <<step, c>> \in {<<"migrate", "upgrade">>, <<"apply", "apply">>}
       THEN End("STOP") /\ backup' \in Leftovers
       ELSE UNCHANGED <<step, verdict, backup>>
  /\ UNCHANGED <<release, sound, pointers, database, api, notes, kills, overlooked>>

\* The application writes; only the old one takes a treasure without a Review.
Write ==
  /\ api # "DOWN"
  /\ rows < MaxRows
  /\ rows' = rows + 1
  /\ waiting' \in IF api = "OLD" THEN {waiting, waiting + 1} ELSE {waiting}
  /\ UNCHANGED <<release, files, pointers, schema, coaching, api, container, step, notes, verdict,
                 kills, overlooked>>

UpgradeNext ==
  \/ Prepare \/ Prepared
  \/ BackupMigrate \/ SnapshotDump \/ Restore \/ CompareRestored \/ Encrypt \/ VerifyDecrypted
  \/ Migrated \/ MigrationSeen \/ CheckFacts
  \/ Switch \/ UpNew \/ PointNew \/ ReplaceNew \/ SwitchPasses \/ SwitchFails
  \/ RollbackPreBackfill \/ UpBase \/ NothingToPoint \/ PointBase \/ ReplaceBase
  \/ Backfill \/ Plan \/ ApplySeen \/ CompareFacts
  \/ \E c \in container : Applied(c) \/ ContainerFails(c)
  \/ Fails \/ Killed \/ Write

UpgradeSpec == UpgradeInit /\ [][UpgradeNext]_upgradeVars

-----------------------------------------------------------------------------
(* Properties. *)

\* A database is migrated only once an encrypted backup of it was restored and compared,
\* decrypted and compared; no later call removes that backup, and the new application
\* runs only on a schema with the receipt.
MigratedHasBackup ==
  /\ UpgradeTypeOK
  /\ schema = "NEW" => "enc" \in backup /\ sound = {"dump", "enc"}
  /\ api = "NEW" => schema = "NEW" /\ "receipt" \in backup

\* The old application, which does not understand them, never serves once coaching
\* reviews exist: the backfill is the boundary behind which nothing goes back.
OldNeverMeetsCoaching == coaching > 0 => api # "OLD" /\ current = "NEW"

\* However the phases are called, fail and are killed, the backfill is that boundary, up to
\* the rollback, if ever, that counts no coaching facts while the container of a backfill
\* whose call is gone has yet to commit them.
BackfillIsTheEdge == overlooked \/ OldNeverMeetsCoaching

\* However the calls before it ended, a call that reports success leaves the application
\* and the link of one release, the old one if that is what it says; and a backfill on
\* record left no treasure without a Review.
SuccessIsReal ==
  /\ verdict \in {"PASS", "OLD_HEALTHY"} => api # "DOWN" /\ (api = "NEW" <=> current = "NEW")
  /\ verdict = "OLD_HEALTHY" => api = "OLD"
  /\ "complete" \in marks => waiting = 0
=============================================================================
