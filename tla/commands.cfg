SPECIFICATION ShellSpec
CHECK_DEADLOCK FALSE
CONSTANTS
  Hours = 12
  Minutes = 3
  Seconds = 11
  SecondsInCall = 4
  PortAtBoot <- Bytes
  None = None
  HexDigits = 2
  Chars <- SomeDigits
  MaxLen = 3
  NBus = 2
  NSlot = 32
  Machines <- FourMachines
  LeftByFirmware <- States
INVARIANTS ShownRight ConversionsRight SpeakerSound NetworkSound TransmitterReady
PROPERTY MathRight
