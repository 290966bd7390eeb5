CONSTANTS
  t1 = t1
  t2 = t2
  t3 = t3
  reviewer = reviewer
  admin = admin
  Tabs = {t1, t2, t3}
  Owner <- MCTabOwner
  SuperAdmins = {admin}
  MaxTokens = 3
  root = root
  author = author
  Members <- MCMembers
  Root = root
  Creator = author
  MaxRevision = 3
  MaxVersions = 2
  l1 = l1
  l2 = l2
  m1 = m1
  m2 = m2
  q1 = q1
  q2 = q2
  Learners = {l1, l2}
  NoviceTasks = {"task"}
  Medals = {m1, m2}
  Purchases = {q1, q2}
  Worth = {1, 2}
  MaxSaves = 2
  Unlimited = unlimited
  MaxRows = 3
  MaxKills = 3
  Strays = {"stray"}
SPECIFICATION MCSpec
CONSTRAINTS SmallShop
INVARIANTS
  OneVerdict
  PendingIsFrozen
  WalletAndStockBalance
  FirstCompletionIsCredited
  MigratedHasBackup
  BackfillIsTheEdge
  SuccessIsReal
PROPERTIES
  VerdictIsFenced
  ForceReleasesWhatWasSeen
  OrdinaryStaffCannotPublish
  LiveStaysLive
