------------------------ MODULE SchemaUpgrade_proofs ------------------------
(***************************************************************************)
(* The properties of SchemaUpgrade, for any number of writes and of killed *)
(* calls, with containers that go on when their call is gone.              *)
(***************************************************************************)
EXTENDS SchemaUpgrade, TLAPS

Backing == {"dump", "restore", "compare", "encrypt", "verify", "migrate", "check"}
Switching == {"up", "point", "replace", "public", "undo"}
RollingBack == {"upBase", "pointBase", "replaceBase"}
Backfilling == {"plan", "apply", "facts"}

\* What a database that is migrated, or being migrated, rests on.
Saved == "enc" \in backup /\ sound = {"dump", "enc"}

\* How far each step of backup-migrate has come.
BackupKept ==
  /\ schema = "NEW" \/ "upgrade" \in container => Saved
  /\ step = "dump" => backup = {"exchange"}
  /\ step \in {"encrypt", "verify"} => "dump" \in sound
  /\ step = "verify" => "enc" \in backup
  /\ step = "migrate" => "upgrade" \in container \/ schema = "NEW"
  /\ step = "check" => schema = "NEW"

\* The new application waits for the receipt.
ReceiptFirst ==
  /\ "receipt" \in backup => schema = "NEW"
  /\ api = "NEW" \/ step \in Switching => "receipt" \in backup

BackupInv == UpgradeTypeOK /\ BackupKept /\ ReceiptFirst

\* What goes back has counted no coaching facts while no backfill was under way, and the
\* container of a backfill was started under the new application, which still serves.
Boundary ==
  /\ OldNeverMeetsCoaching
  /\ step \in Switching \cup RollingBack => coaching = 0 /\ container \cap Strays = {}
  /\ "apply" \in container => step = "apply"
  /\ container \cap Strays # {} \/ step \in Backfilling => api = "NEW" /\ current = "NEW"

BoundaryInv == UpgradeTypeOK /\ (overlooked \/ Boundary)

\* Which application serves where, and what a backfill has left by then.
Consistent ==
  /\ SuccessIsReal
  /\ step # "idle" => verdict = "NONE"
  /\ step \in Backing \cup {"prepare"} => api = "OLD" /\ current = "BASE"
  /\ step \in {"point", "replace", "public"} => api = "NEW"
  /\ step = "public" => current = "NEW"
  /\ step \in {"pointBase", "replaceBase"} => api = "OLD"
  /\ step \in Backfilling => api = "NEW" /\ current = "NEW"
  /\ step = "apply" => "apply" \in container \/ waiting = 0
  /\ step = "facts" => waiting = 0
  /\ "complete" \in marks => api = "NEW" /\ step \notin Switching \cup RollingBack

SuccessInv == UpgradeTypeOK /\ Consistent

-----------------------------------------------------------------------------
(* Types. *)

\* An abandoned call leaves a migration where it is, and its backfill among the strays.
LEMMA AbandonedGoesOn ==
  ASSUME UpgradeTypeOK, Abandoned
  PROVE  /\ container' \subseteq {"upgrade", "apply"} \cup Strays
         /\ "upgrade" \in container' <=> "upgrade" \in container
         /\ "apply" \notin container'
         /\ container' \cap Strays # {} <=> container \cap Strays # {} \/ "apply" \in container
<1>1. container \subseteq {"upgrade", "apply"} \cup Strays
  BY DEF UpgradeTypeOK
<1>2. CASE "apply" \notin container /\ UNCHANGED container
  BY <1>1, <1>2
<1>3. ASSUME "apply" \in container, NEW s \in Strays \ container,
             container' = (container \ {"apply"}) \cup {s}
      PROVE  /\ container' \subseteq {"upgrade", "apply"} \cup Strays
             /\ "upgrade" \in container' <=> "upgrade" \in container
             /\ "apply" \notin container'
             /\ s \in container' \cap Strays
  BY <1>1, <1>3, StrayAssumption
<1> QED BY <1>2, <1>3 DEF Abandoned

\* Each step of the script, the containers and the users keeps the types.
LEMMA TypeStep ==
  ASSUME UpgradeTypeOK, [UpgradeNext]_upgradeVars
  PROVE  UpgradeTypeOK'
<1> USE DEF UpgradeTypeOK, BackupFiles, Steps, release, files, pointers, database, notes
<1>1. CASE UNCHANGED upgradeVars
  BY <1>1 DEF upgradeVars
<1>2. CASE Prepare
  BY <1>2 DEF Prepare, Begin, VerifyBase
<1>3. CASE Prepared
  BY <1>3 DEF Prepared, End
<1>4. CASE BackupMigrate
  BY <1>4 DEF BackupMigrate, Begin, VerifyBase, RecoverIncompleteBackup
<1>5. CASE SnapshotDump
  BY <1>5 DEF SnapshotDump, End
<1>6. CASE Restore
  BY <1>6 DEF Restore, Continue
<1>7. CASE CompareRestored
  <2>1. CASE "dump" \in sound
    <3>1. backup' \subseteq BackupFiles
      BY <1>7, <2>1 DEF CompareRestored
    <3>2. UNCHANGED <<release, sound, pointers, database, api, container, notes, kills, overlooked>>
      BY <1>7 DEF CompareRestored
    <3>3. step' = "encrypt" /\ verdict' = verdict
      BY <1>7, <2>1 DEF CompareRestored, Continue
    <3> QED
      BY <3>1, <3>2, <3>3
  <2>2. CASE "dump" \notin sound
    BY <1>7, <2>2 DEF CompareRestored, End, CleanedUp
  <2>3. QED
    BY <2>1, <2>2
<1>8. CASE Encrypt
  BY <1>8 DEF Encrypt, Continue
<1>9. CASE VerifyDecrypted
  <2>1. CASE "enc" \in sound
    BY <1>9, <2>1 DEF VerifyDecrypted, Continue
  <2>2. CASE "enc" \notin sound
    BY <1>9, <2>2 DEF VerifyDecrypted, End, CleanedUp
  <2>3. QED
    BY <2>1, <2>2
<1>10. CASE Migrated
  BY <1>10 DEF Migrated
<1>11. CASE MigrationSeen
  BY <1>11 DEF MigrationSeen, Continue
<1>12. CASE CheckFacts
  BY <1>12 DEF CheckFacts, End, CleanedUp
<1>13. CASE Switch
  BY <1>13 DEF Switch, Begin, VerifyBase, NoCoachingFacts
<1>14. CASE UpNew
  BY <1>14 DEF UpNew, Continue
<1>15. CASE PointNew
  BY <1>15 DEF PointNew, Symlink, Continue
<1>16. CASE ReplaceNew
  BY <1>16 DEF ReplaceNew, Continue
<1>17. CASE SwitchPasses
  BY <1>17 DEF SwitchPasses, End
<1>18. CASE SwitchFails
  BY <1>18 DEF SwitchFails
<1>19. CASE RollbackPreBackfill
  BY <1>19 DEF RollbackPreBackfill, NoCoachingFacts
<1>20. CASE UpBase
  BY <1>20 DEF UpBase, Continue
<1>21. CASE NothingToPoint
  BY <1>21 DEF NothingToPoint, End, PointsToBase
<1>22. CASE PointBase
  BY <1>22 DEF PointBase, PointsToBase, Symlink, Continue
<1>23. CASE ReplaceBase
  BY <1>23 DEF ReplaceBase, End
<1>24. CASE Backfill
  BY <1>24 DEF Backfill, Begin
<1>25. CASE Plan
  BY <1>25 DEF Plan, Continue
<1>26. ASSUME NEW c \in container, Applied(c) PROVE UpgradeTypeOK'
  BY <1>26 DEF Applied
<1>27. CASE ApplySeen
  BY <1>27 DEF ApplySeen, Continue
<1>28. CASE CompareFacts
  BY <1>28 DEF CompareFacts, End
<1>29. CASE Fails
  BY <1>29, AbandonedGoesOn DEF Fails, End, Leftovers, CleanedUp
<1>30. CASE Killed
  BY <1>30, UpgradeBounds, AbandonedGoesOn DEF Killed, End
<1>31. ASSUME NEW c \in container, ContainerFails(c) PROVE UpgradeTypeOK'
  BY <1>31 DEF ContainerFails, End, Leftovers, CleanedUp
<1>32. CASE Write
  BY <1>32 DEF Write
<1>33. QED
  BY <1>1, <1>2, <1>3, <1>4, <1>5, <1>6, <1>7, <1>8, <1>9, <1>10, <1>11, <1>12, <1>13, <1>14, <1>15, <1>16, <1>17, <1>18, <1>19, <1>20, <1>21, <1>22, <1>23, <1>24, <1>25, <1>26, <1>27, <1>28, <1>29, <1>30, <1>31, <1>32 DEF UpgradeNext

-----------------------------------------------------------------------------
(* The backup. *)

\* Each step leaves what the present step of backup-migrate rests on.
LEMMA BackupKeptStep ==
  ASSUME BackupInv, [UpgradeNext]_upgradeVars
  PROVE  BackupKept'
<1> USE DEF BackupInv, UpgradeTypeOK, BackupKept, ReceiptFirst, Saved, Switching, BackupFiles, release, files, pointers, database, notes
<1>1. CASE UNCHANGED upgradeVars
  BY <1>1 DEF upgradeVars
<1>2. CASE Prepare
  BY <1>2 DEF Prepare, Begin, VerifyBase
<1>3. CASE Prepared
  BY <1>3 DEF Prepared, End
<1>4. CASE BackupMigrate
  BY <1>4 DEF BackupMigrate, Begin, VerifyBase, RecoverIncompleteBackup
<1>5. CASE SnapshotDump
  BY <1>5 DEF SnapshotDump, End
<1>6. CASE Restore
  BY <1>6 DEF Restore, Continue
<1>7. CASE CompareRestored
  BY <1>7 DEF CompareRestored, Continue, End, CleanedUp
<1>8. CASE Encrypt
  BY <1>8 DEF Encrypt, Continue
<1>9. CASE VerifyDecrypted
  BY <1>9 DEF VerifyDecrypted, Continue, End, CleanedUp
<1>10. CASE Migrated
  BY <1>10 DEF Migrated
<1>11. CASE MigrationSeen
  BY <1>11 DEF MigrationSeen, Continue
<1>12. CASE CheckFacts
  BY <1>12 DEF CheckFacts, End, CleanedUp
<1>13. CASE Switch
  BY <1>13 DEF Switch, Begin, VerifyBase, NoCoachingFacts
<1>14. CASE UpNew
  BY <1>14 DEF UpNew, Continue
<1>15. CASE PointNew
  BY <1>15 DEF PointNew, Symlink, Continue
<1>16. CASE ReplaceNew
  BY <1>16 DEF ReplaceNew, Continue
<1>17. CASE SwitchPasses
  BY <1>17 DEF SwitchPasses, End
<1>18. CASE SwitchFails
  BY <1>18 DEF SwitchFails
<1>19. CASE RollbackPreBackfill
  BY <1>19 DEF RollbackPreBackfill, NoCoachingFacts
<1>20. CASE UpBase
  BY <1>20 DEF UpBase, Continue
<1>21. CASE NothingToPoint
  BY <1>21 DEF NothingToPoint, End, PointsToBase
<1>22. CASE PointBase
  BY <1>22 DEF PointBase, PointsToBase, Symlink, Continue
<1>23. CASE ReplaceBase
  BY <1>23 DEF ReplaceBase, End
<1>24. CASE Backfill
  BY <1>24 DEF Backfill, Begin
<1>25. CASE Plan
  BY <1>25 DEF Plan, Continue
<1>26. ASSUME NEW c \in container, Applied(c) PROVE BackupKept'
  BY <1>26 DEF Applied
<1>27. CASE ApplySeen
  BY <1>27 DEF ApplySeen, Continue
<1>28. CASE CompareFacts
  BY <1>28 DEF CompareFacts, End
<1>29. CASE Fails
  BY <1>29, AbandonedGoesOn DEF Fails, End, Leftovers, CleanedUp
<1>30. CASE Killed
  BY <1>30, AbandonedGoesOn DEF Killed, End
<1>31. ASSUME NEW c \in container, ContainerFails(c) PROVE BackupKept'
  BY <1>31 DEF ContainerFails, End, Leftovers, CleanedUp
<1>32. CASE Write
  BY <1>32 DEF Write
<1>33. QED
  BY <1>1, <1>2, <1>3, <1>4, <1>5, <1>6, <1>7, <1>8, <1>9, <1>10, <1>11, <1>12, <1>13, <1>14, <1>15, <1>16, <1>17, <1>18, <1>19, <1>20, <1>21, <1>22, <1>23, <1>24, <1>25, <1>26, <1>27, <1>28, <1>29, <1>30, <1>31, <1>32 DEF UpgradeNext

\* Each step leaves the receipt before the new application.
LEMMA ReceiptStep ==
  ASSUME BackupInv, [UpgradeNext]_upgradeVars
  PROVE  ReceiptFirst'
<1> USE DEF BackupInv, UpgradeTypeOK, BackupKept, ReceiptFirst, Saved, Switching, BackupFiles, release, files, pointers, database, notes
<1>1. CASE UNCHANGED upgradeVars
  BY <1>1 DEF upgradeVars
<1>2. CASE Prepare
  BY <1>2 DEF Prepare, Begin, VerifyBase
<1>3. CASE Prepared
  BY <1>3 DEF Prepared, End
<1>4. CASE BackupMigrate
  BY <1>4 DEF BackupMigrate, Begin, VerifyBase, RecoverIncompleteBackup
<1>5. CASE SnapshotDump
  BY <1>5 DEF SnapshotDump, End
<1>6. CASE Restore
  BY <1>6 DEF Restore, Continue
<1>7. CASE CompareRestored
  BY <1>7 DEF CompareRestored, Continue, End, CleanedUp
<1>8. CASE Encrypt
  BY <1>8 DEF Encrypt, Continue
<1>9. CASE VerifyDecrypted
  BY <1>9 DEF VerifyDecrypted, Continue, End, CleanedUp
<1>10. CASE Migrated
  BY <1>10 DEF Migrated
<1>11. CASE MigrationSeen
  BY <1>11 DEF MigrationSeen, Continue
<1>12. CASE CheckFacts
  BY <1>12 DEF CheckFacts, End, CleanedUp
<1>13. CASE Switch
  BY <1>13 DEF Switch, Begin, VerifyBase, NoCoachingFacts
<1>14. CASE UpNew
  BY <1>14 DEF UpNew, Continue
<1>15. CASE PointNew
  BY <1>15 DEF PointNew, Symlink, Continue
<1>16. CASE ReplaceNew
  BY <1>16 DEF ReplaceNew, Continue
<1>17. CASE SwitchPasses
  BY <1>17 DEF SwitchPasses, End
<1>18. CASE SwitchFails
  BY <1>18 DEF SwitchFails
<1>19. CASE RollbackPreBackfill
  BY <1>19 DEF RollbackPreBackfill, NoCoachingFacts
<1>20. CASE UpBase
  BY <1>20 DEF UpBase, Continue
<1>21. CASE NothingToPoint
  BY <1>21 DEF NothingToPoint, End, PointsToBase
<1>22. CASE PointBase
  BY <1>22 DEF PointBase, PointsToBase, Symlink, Continue
<1>23. CASE ReplaceBase
  BY <1>23 DEF ReplaceBase, End
<1>24. CASE Backfill
  BY <1>24 DEF Backfill, Begin
<1>25. CASE Plan
  BY <1>25 DEF Plan, Continue
<1>26. ASSUME NEW c \in container, Applied(c) PROVE ReceiptFirst'
  BY <1>26 DEF Applied
<1>27. CASE ApplySeen
  BY <1>27 DEF ApplySeen, Continue
<1>28. CASE CompareFacts
  BY <1>28 DEF CompareFacts, End
<1>29. CASE Fails
  BY <1>29, AbandonedGoesOn DEF Fails, End, Leftovers, CleanedUp
<1>30. CASE Killed
  BY <1>30, AbandonedGoesOn DEF Killed, End
<1>31. ASSUME NEW c \in container, ContainerFails(c) PROVE ReceiptFirst'
  BY <1>31 DEF ContainerFails, End, Leftovers, CleanedUp
<1>32. CASE Write
  BY <1>32 DEF Write
<1>33. QED
  BY <1>1, <1>2, <1>3, <1>4, <1>5, <1>6, <1>7, <1>8, <1>9, <1>10, <1>11, <1>12, <1>13, <1>14, <1>15, <1>16, <1>17, <1>18, <1>19, <1>20, <1>21, <1>22, <1>23, <1>24, <1>25, <1>26, <1>27, <1>28, <1>29, <1>30, <1>31, <1>32 DEF UpgradeNext

-----------------------------------------------------------------------------
(* The boundary. *)

\* No step takes the old application behind the backfill.
LEMMA BoundaryStep ==
  ASSUME UpgradeTypeOK, Boundary, [UpgradeNext]_upgradeVars
  PROVE  overlooked' \/ Boundary'
<1> USE DEF UpgradeTypeOK, Boundary, OldNeverMeetsCoaching, Switching, RollingBack, Backfilling, release, files, pointers, database, notes
<1>1. CASE UNCHANGED upgradeVars
  BY <1>1 DEF upgradeVars
<1>2. CASE Prepare
  BY <1>2 DEF Prepare, Begin, VerifyBase
<1>3. CASE Prepared
  BY <1>3 DEF Prepared, End
<1>4. CASE BackupMigrate
  BY <1>4 DEF BackupMigrate, Begin, VerifyBase, RecoverIncompleteBackup
<1>5. CASE SnapshotDump
  BY <1>5 DEF SnapshotDump, End
<1>6. CASE Restore
  BY <1>6 DEF Restore, Continue
<1>7. CASE CompareRestored
  BY <1>7 DEF CompareRestored, Continue, End, CleanedUp
<1>8. CASE Encrypt
  BY <1>8 DEF Encrypt, Continue
<1>9. CASE VerifyDecrypted
  <2>1. "upgrade" \notin Strays
    BY StrayAssumption
  <2>2. container' \cap Strays = container \cap Strays
    BY <1>9, <2>1, Zenon DEF VerifyDecrypted
  <2>3. "apply" \in container' => "apply" \in container
    BY <1>9 DEF VerifyDecrypted
  <2> QED BY <1>9, <2>2, <2>3 DEF VerifyDecrypted, Continue, End
<1>10. CASE Migrated
  BY <1>10 DEF Migrated
<1>11. CASE MigrationSeen
  BY <1>11 DEF MigrationSeen, Continue
<1>12. CASE CheckFacts
  BY <1>12 DEF CheckFacts, End, CleanedUp
<1>13. CASE Switch
  BY <1>13 DEF Switch, Begin, VerifyBase, NoCoachingFacts
<1>14. CASE UpNew
  BY <1>14 DEF UpNew, Continue
<1>15. CASE PointNew
  BY <1>15 DEF PointNew, Symlink, Continue
<1>16. CASE ReplaceNew
  BY <1>16 DEF ReplaceNew, Continue
<1>17. CASE SwitchPasses
  BY <1>17 DEF SwitchPasses, End
<1>18. CASE SwitchFails
  BY <1>18 DEF SwitchFails
<1>19. CASE RollbackPreBackfill
  BY <1>19 DEF RollbackPreBackfill, NoCoachingFacts
<1>20. CASE UpBase
  BY <1>20 DEF UpBase, Continue
<1>21. CASE NothingToPoint
  BY <1>21 DEF NothingToPoint, End, PointsToBase
<1>22. CASE PointBase
  BY <1>22 DEF PointBase, PointsToBase, Symlink, Continue
<1>23. CASE ReplaceBase
  BY <1>23 DEF ReplaceBase, End
<1>24. CASE Backfill
  BY <1>24 DEF Backfill, Begin
<1>25. CASE Plan
  BY <1>25 DEF Plan, Continue
<1>26. ASSUME NEW c \in container, Applied(c) PROVE overlooked' \/ Boundary'
  BY <1>26 DEF Applied
<1>27. CASE ApplySeen
  BY <1>27 DEF ApplySeen, Continue
<1>28. CASE CompareFacts
  BY <1>28 DEF CompareFacts, End
<1>29. CASE Fails
  BY <1>29, AbandonedGoesOn DEF Fails, End, Leftovers, CleanedUp
<1>30. CASE Killed
  BY <1>30, AbandonedGoesOn DEF Killed, End
<1>31. ASSUME NEW c \in container, ContainerFails(c) PROVE overlooked' \/ Boundary'
  BY <1>31 DEF ContainerFails, End, Leftovers, CleanedUp
<1>32. CASE Write
  BY <1>32 DEF Write
<1>33. QED
  BY <1>1, <1>2, <1>3, <1>4, <1>5, <1>6, <1>7, <1>8, <1>9, <1>10, <1>11, <1>12, <1>13, <1>14, <1>15, <1>16, <1>17, <1>18, <1>19, <1>20, <1>21, <1>22, <1>23, <1>24, <1>25, <1>26, <1>27, <1>28, <1>29, <1>30, <1>31, <1>32 DEF UpgradeNext

\* What was overlooked stays so.
LEMMA OverlookedStays == overlooked /\ [UpgradeNext]_upgradeVars => overlooked'
<1> SUFFICES ASSUME overlooked, [UpgradeNext]_upgradeVars PROVE overlooked'
  OBVIOUS
<1>1. CASE RollbackPreBackfill
  BY <1>1 DEF RollbackPreBackfill
<1>2. CASE overlooked' = overlooked
  BY <1>2
<1> QED
  BY <1>1, <1>2
     DEF UpgradeNext, upgradeVars, Prepare, Prepared, BackupMigrate, SnapshotDump, Restore,
         CompareRestored, Encrypt, VerifyDecrypted, Migrated, MigrationSeen, CheckFacts, Switch,
         UpNew, Symlink, PointNew, ReplaceNew, SwitchPasses, SwitchFails, UpBase,
         NothingToPoint, PointBase, ReplaceBase, Backfill, Plan, Applied, ApplySeen,
         CompareFacts, Fails, Killed, ContainerFails, Write

-----------------------------------------------------------------------------
(* Success. *)

\* Each step keeps application and link in agreement, or is between the two.
LEMMA ConsistentStep ==
  ASSUME SuccessInv, [UpgradeNext]_upgradeVars
  PROVE  Consistent'
<1> USE DEF SuccessInv, UpgradeTypeOK, Consistent, SuccessIsReal, Backing, Switching, RollingBack, Backfilling, release, files, pointers, database, notes
<1>1. CASE UNCHANGED upgradeVars
  BY <1>1 DEF upgradeVars
<1>2. CASE Prepare
  BY <1>2 DEF Prepare, Begin, VerifyBase
<1>3. CASE Prepared
  BY <1>3 DEF Prepared, End
<1>4. CASE BackupMigrate
  BY <1>4 DEF BackupMigrate, Begin, VerifyBase, RecoverIncompleteBackup
<1>5. CASE SnapshotDump
  BY <1>5 DEF SnapshotDump, End
<1>6. CASE Restore
  BY <1>6 DEF Restore, Continue
<1>7. CASE CompareRestored
  BY <1>7 DEF CompareRestored, Continue, End, CleanedUp
<1>8. CASE Encrypt
  BY <1>8 DEF Encrypt, Continue
<1>9. CASE VerifyDecrypted
  BY <1>9 DEF VerifyDecrypted, Continue, End, CleanedUp
<1>10. CASE Migrated
  BY <1>10 DEF Migrated
<1>11. CASE MigrationSeen
  BY <1>11 DEF MigrationSeen, Continue
<1>12. CASE CheckFacts
  BY <1>12 DEF CheckFacts, End, CleanedUp
<1>13. CASE Switch
  BY <1>13 DEF Switch, Begin, VerifyBase, NoCoachingFacts
<1>14. CASE UpNew
  BY <1>14 DEF UpNew, Continue
<1>15. CASE PointNew
  BY <1>15 DEF PointNew, Symlink, Continue
<1>16. CASE ReplaceNew
  BY <1>16 DEF ReplaceNew, Continue
<1>17. CASE SwitchPasses
  BY <1>17 DEF SwitchPasses, End
<1>18. CASE SwitchFails
  BY <1>18 DEF SwitchFails
<1>19. CASE RollbackPreBackfill
  BY <1>19 DEF RollbackPreBackfill, NoCoachingFacts
<1>20. CASE UpBase
  BY <1>20 DEF UpBase, Continue
<1>21. CASE NothingToPoint
  BY <1>21 DEF NothingToPoint, End, PointsToBase
<1>22. CASE PointBase
  BY <1>22 DEF PointBase, PointsToBase, Symlink, Continue
<1>23. CASE ReplaceBase
  BY <1>23 DEF ReplaceBase, End
<1>24. CASE Backfill
  BY <1>24 DEF Backfill, Begin
<1>25. CASE Plan
  BY <1>25 DEF Plan, Continue
<1>26. ASSUME NEW c \in container, Applied(c) PROVE Consistent'
  BY <1>26 DEF Applied
<1>27. CASE ApplySeen
  BY <1>27 DEF ApplySeen, Continue
<1>28. CASE CompareFacts
  BY <1>28 DEF CompareFacts, End
<1>29. CASE Fails
  BY <1>29, AbandonedGoesOn DEF Fails, End, Leftovers, CleanedUp
<1>30. CASE Killed
  BY <1>30, AbandonedGoesOn DEF Killed, End
<1>31. ASSUME NEW c \in container, ContainerFails(c) PROVE Consistent'
  BY <1>31 DEF ContainerFails, End, Leftovers, CleanedUp
<1>32. CASE Write
  BY <1>32 DEF Write
<1>33. QED
  BY <1>1, <1>2, <1>3, <1>4, <1>5, <1>6, <1>7, <1>8, <1>9, <1>10, <1>11, <1>12, <1>13, <1>14, <1>15, <1>16, <1>17, <1>18, <1>19, <1>20, <1>21, <1>22, <1>23, <1>24, <1>25, <1>26, <1>27, <1>28, <1>29, <1>30, <1>31, <1>32 DEF UpgradeNext

-----------------------------------------------------------------------------
(* Theorems. *)

\* The upgrade begins well typed.
LEMMA InitTypes == UpgradeInit => UpgradeTypeOK
<1> SUFFICES ASSUME UpgradeInit PROVE UpgradeTypeOK
  OBVIOUS
<1>1. {rows, waiting, coaching, noted, plan, made} \subseteq Nat
  BY DEF UpgradeInit
<1>2. backup \subseteq BackupFiles /\ sound \subseteq {"dump", "enc"} /\ marks \subseteq {"attempt", "complete"}
  BY DEF UpgradeInit
<1>3. step \in Steps /\ container \subseteq {"upgrade", "apply"} \cup Strays /\ api \in {"OLD", "NEW", "DOWN"}
  BY DEF UpgradeInit, Steps
<1>4. kills \in 0..MaxKills
  BY UpgradeBounds DEF UpgradeInit
<1>5. QED
  BY <1>1, <1>2, <1>3, <1>4 DEF UpgradeInit, UpgradeTypeOK

\* However many writes and killed calls there are, every state is well typed.
THEOREM TypeCorrect == UpgradeSpec => []UpgradeTypeOK
  BY InitTypes, TypeStep, PTL DEF UpgradeSpec

\* A database is migrated only behind a proven backup that nothing removes, and the new
\* application serves only with the receipt, whatever containers outlive the script.
THEOREM BackupFirst == UpgradeSpec => []MigratedHasBackup
<1>1. UpgradeInit => BackupInv
  BY InitTypes DEF UpgradeInit, BackupInv, BackupKept, ReceiptFirst, Saved, Switching
<1>2. BackupInv /\ [UpgradeNext]_upgradeVars => BackupInv'
  BY TypeStep, BackupKeptStep, ReceiptStep DEF BackupInv
<1>3. BackupInv => MigratedHasBackup
  BY DEF BackupInv, BackupKept, ReceiptFirst, Saved, MigratedHasBackup, UpgradeTypeOK
<1>4. QED
  BY <1>1, <1>2, <1>3, PTL DEF UpgradeSpec

\* The old application never serves once coaching reviews exist, whatever is killed, fails
\* or outlives its call, unless a rollback overlooked a backfill that was under way.
THEOREM BackfillIsTheBoundary == UpgradeSpec => []BackfillIsTheEdge
<1>1. UpgradeInit => BoundaryInv
  BY InitTypes DEF UpgradeInit, BoundaryInv, Boundary, OldNeverMeetsCoaching, Switching, RollingBack,
                   Backfilling
<1>2. BoundaryInv /\ [UpgradeNext]_upgradeVars => BoundaryInv'
  BY TypeStep, BoundaryStep, OverlookedStays DEF BoundaryInv
<1>3. BoundaryInv => BackfillIsTheEdge
  BY DEF BoundaryInv, Boundary, BackfillIsTheEdge
<1>4. QED
  BY <1>1, <1>2, <1>3, PTL DEF UpgradeSpec

\* A reported success is one, even with a backfill of an earlier call under way: one release
\* serves and is linked, and a backfill on record left nothing behind.
THEOREM ReportedSuccess == UpgradeSpec => []SuccessIsReal
<1>1. UpgradeInit => SuccessInv
  BY InitTypes DEF UpgradeInit, SuccessInv, Consistent, SuccessIsReal, Backing, Switching,
                   RollingBack, Backfilling
<1>2. SuccessInv /\ [UpgradeNext]_upgradeVars => SuccessInv'
  BY TypeStep, ConsistentStep DEF SuccessInv
<1>3. SuccessInv => SuccessIsReal
  BY DEF SuccessInv, Consistent
<1>4. QED
  BY <1>1, <1>2, <1>3, PTL DEF UpgradeSpec
=============================================================================
