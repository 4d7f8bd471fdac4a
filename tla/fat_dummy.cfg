CONSTANTS
  MaxCluster = 5
  LastOnDisk = 4
  NEntries = 1
  Names = {"A"}
  Contents = {"x"}
  ImageWords = {0, 512}
  CrashAt <- AnyStep
  AllowDummy = TRUE
  AsEntries <- TypedBytes
SPECIFICATION Spec
INVARIANT ChainsEnd
CHECK_DEADLOCK FALSE
