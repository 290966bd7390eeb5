CONSTANTS
  Pages = {p1}
  Browsers = {p1}
  Browser <- MCBrowser
  MaxTexts = 1
  MaxEdition = 1
  MaxMishaps = 1
SPECIFICATION PatientSpec
PROPERTY StuckIsTakenOver
CHECK_DEADLOCK FALSE
