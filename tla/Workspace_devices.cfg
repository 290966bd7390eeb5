CONSTANTS
  Pages = {p1, p2}
  Browsers = {p1, p2}
  Browser <- MCBrowser
  MaxTexts = 1
  MaxEdition = 1
  MaxMishaps = 0
SPECIFICATION WorkspaceSpec
CONSTRAINT OneDeviceAtATime
INVARIANT DraftIsNewest
CHECK_DEADLOCK FALSE
