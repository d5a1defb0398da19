SPECIFICATION Spec
CONSTANTS
  Assets = {"a", "b", "z"}
  Compressed = {"z"}
  Content <- Releases
  Packages = {1, 3}
  MaxConcurrent = 2
  Recheck = TRUE
INVARIANTS CorrectlyDownloaded
