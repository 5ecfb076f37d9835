CONSTANTS
  Clusters <- MCClusters
  Eoc = 0
  Fat <- MCFat
  Chain <- MCChain
  ChainLast <- MCChainLast
  Files <- FatFiles
  Dirs <- FatDirs
  SectorsPerCluster = 2
  SectorBytes = 2
  EntriesPerSector = 4
  MaxChunk = 1
  MaxLength = 5
  NoSector = NoSector
  FsDirs <- MCFsDirs
  FsFiles <- MCFsFiles
  NameLength <- MCNameLength
  Beginning <- MCBeginning
  Inputs <- MCInputs
  MAX_COMPONENTS = 5
  FS_PATH_MAX = 16
  MAX_VOLUMES = 2
  VOLUMES_PER_PAGE = 2
  MaxParts = 3
  Volumes = 2
  Contents <- MCContents
  Unreliable <- MCUnreliable
  Visible = 3
  Texts <- MCTexts
  Lower <- MCLower
  Typed = {"a"}
  Rows = 3
  Cols = 5
  VIEW_MAX_BYTES = 12
  VIEW_MAX_LINES = 6
  SEARCH_MAX = 3
  CHUNK = 8
  HEX = 2
  MCParts = {"fat"}
SPECIFICATION FilesSpec
INVARIANTS
  ShortListingIsError
