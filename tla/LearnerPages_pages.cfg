CONSTANTS
  Kinds = {"video", "link", "share"}
  Videos = {v1, v2}
  Urls = {u1}
  NoSource = NoSource
  Tabs = {a, b}
  Requests = {r1, r2}
  MaxRevision = 4
  Files = {a, b}
  Backends <- MCBackends
  MaxVersions = 2
  MaxFaults = 2
  Pages = {a, b}
  Browsers = {a, b}
  Browser <- MCBrowser
  MaxTexts = 2
  MaxEdition = 3
  MaxMishaps = 1
  CheckRequests = {a, b}
  MaxClicks = 3
  MaxRevisions = 2
  MaxCrashes = 1
SPECIFICATION MCSpec
SYMMETRY MCSymmetry
INVARIANTS
  PublicWasVetted
  ProgressIsOfThisVideo
  EvidenceWasScanned
  RowKnowsItsComment
  NothingTypedIsLost
  RoundsDoNotMix
PROPERTIES
  CoverIsCurrent
  BoundForEver
CHECK_DEADLOCK FALSE
