SPECIFICATION FairSpec
CONSTANTS
  Assets = {"a", "b", "z"}
  Compressed = {"z"}
  Content <- Releases
  Packages = {1, 3}
  MaxConcurrent = 2
  Recheck = FALSE
INVARIANTS InstalledComplete CountsUnits ResumeIsSafe
PROPERTIES NoDowngrade Answered
