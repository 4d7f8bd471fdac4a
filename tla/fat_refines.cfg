CONSTANTS
  MaxCluster = 4
  LastOnDisk = 3
  NEntries = 2
  Names = {"A", "B"}
  Contents = {"x", "y"}
  ImageWords = {0, 512}
  CrashAt <- BetweenAndRm
  AllowDummy = FALSE
  AsEntries <- TypedBytes
SPECIFICATION FairSpec
PROPERTIES CommandEnds ImplementsStore
CHECK_DEADLOCK FALSE
