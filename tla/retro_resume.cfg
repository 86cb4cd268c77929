CONSTANTS
  CodePlace = 1
  InstalledPacks = {"6.13.1"}
  MaxFailures = 2
SPECIFICATION DownloadSpec
INVARIANTS
  FinishedIsWhole
