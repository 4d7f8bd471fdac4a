CONSTANTS
  MaxCluster = 4
  LastOnDisk = 4
  NEntries = 2
  Names = {"A", "B"}
  Contents = {"x"}
  ImageWords = {0}
  CrashAt <- AnyStep
  AllowDummy = FALSE
  AsEntries <- TypedBytes
SPECIFICATION Spec
INVARIANT UniqueOwner
