CONSTANTS
  QueueDepth = 3
  MaxCommands = 5
  PortCount = 3
  Lbas = {l1, l2}
  NoPort = NoPort
  NoLba = NoLba
  Disks <- MCDiskSet
  Ratios = {1, 2}
  Rooms = {0, 2, 9}
  MAX_EBR_CHAIN = 3
  BootSectors <- MCBoots
  Starts = {0, 63}
  Pieces <- MCPieces
  MaxPieces = 2
  Wanted <- MCWanted
  Word = 1048576
  EntriesPerSector = 3
  PieceChars = 2
  MAX_LFN_ENTRIES = 3
  FAT_NAME_MAX = 6
  MaxCalls = 2
  MCParts = {"ahci"}
SPECIFICATION DisksSpec
PROPERTIES
  ReadAfterErrorReturns
CHECK_DEADLOCK FALSE
