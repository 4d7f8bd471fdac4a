SPECIFICATION HwSpec
CHECK_DEADLOCK FALSE
CONSTANTS
  TssPlaces <- TssAddresses
  StubPlaces <- Images
  MainStacks <- Stacks
  IntStacks <- IntStackTops
  Period = 12
  Burst = 2
  Wrap = 3
  SectorWords = 2
  RegBase = 2
  TopBase = 2
  Image <- ImageSectors
  Asked <- AskedSectors
  Contents <- Written
  Zeros <- ZeroSector
  Junk = 3
  PowerCuts = TRUE
  None = None
  Keys <- KeysStruck
  Packets <- PacketsSent
  BiosConfigs <- Configs
  MaxKeys = 2
  MaxMoves = 2
  Width = 4
  Height = 3
  Size = 2
  Line = 1
  Outline <- OutlinePixels
  Inside <- InsidePixel
  Byte = 4
  StartAt <- Center
  Movements <- MovesMade
  Inks <- Ink
  MaxDraws = 2
INVARIANTS HardwareTypes AcknowledgedAndCounted PointerSound TablesSound
PROPERTIES LostOnlyInCommands EveryLineServed CallsEnd SectorsWhole StreamsWhole MovesLeaveNoTrace StubReached
