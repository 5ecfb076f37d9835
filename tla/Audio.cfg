CONSTANTS
  Registered <- MCRegistered
  Lbas <- MCLbas
  Counts <- MCCounts
  BufferSize = 12
  NoData = NoData
  Modulus = 128
  FileSizes = {11, 43, 44, 46, 70, 81, 127}
  ChunkSizes = {0, 1, 7, 16, 26, 119, 120, 126, 127}
  Formats <- MCFormats
  MaxChunks = 4
  PlayPages = 4
  StartFill = 2
  PageFrames = 2
  Songs <- MCSongs
  MaxHw = 9
  Silence = Silence
  Garbled = Garbled
  long = long
  short = short
  MCParts = {"read", "wav", "player"}
SPECIFICATION AudioSpec
INVARIANTS
  ReadIsExact
  NothingElse
  StateSound
  DataInFile
PROPERTIES
  PlayedRight
  CallsReturn
