SPECIFICATION RunSpec
CONSTANTS
  Tools = {find_customer, create_case}
  Unregistered = {other}
  Complete = {create_case}
  Arguments = {good, bad}
  BadArguments = {bad}
  MaxSteps = 4
  Texts <- MCTexts
  Profiles <- MCProfiles
  OldProfiles <- MCOldProfiles
  Releases <- MCReleases
  MaxPages = 2
  MaxChars = 3
INVARIANTS ParkIffStaged NoThirdRepeat ClosingKeepsOutcome PolicyIsSafe
           SnapshotIsTrue WorkIsBounded QueuedJobsStayReadable
CHECK_DEADLOCK FALSE
