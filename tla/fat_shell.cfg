CONSTANTS
  MaxCluster = 4
  LastOnDisk = 4
  NEntries = 2
  Names = {"A", "B"}
  Contents = {"x"}
  ImageWords = {0, 65535}
  CrashAt <- BetweenAndRm
  AllowDummy = FALSE
  AsEntries <- TypedBytes
SPECIFICATION Spec
INVARIANTS TypeOK UniqueOwner EntriesSound DirectoriesSound
PROPERTIES SavedTextStays LosesOnlyBelowRemoved
