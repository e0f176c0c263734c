CONSTANTS
  Commits = {1, 2}
  Expect = 2
  AllowDirty = FALSE
  Placed = {TRUE, FALSE}
  Crashes = TRUE
  Edits = TRUE
  Tries = 1
  Missing = Missing
  Half = Half
  MaxRuns = 2
SPECIFICATION Spec
PROPERTY DeployedIsServed
PROPERTY DeployedIsMeant
PROPERTY RollbackIsHonest
CHECK_DEADLOCK FALSE
