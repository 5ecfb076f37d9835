SPECIFICATION BootSpec
CONSTANTS
  MCParts = {"pmm", "loader", "codec", "verbs", "search", "xhci"}
  MemoryMaps <- MCMemoryMaps
  BitsPerPage = 4
  Reserved = 2
  Limit4G = 6
  MaxExitAttempts = 3
  RING_SEGMENTS = 2
  Slack = 2
  MaxChanges = 4
  Codecs <- MCCodecs
  MAX_DACS = 2
  MAX_PINS = 2
  DEPTH = 3
  CorbEntries = 2
  RirbEntries = 4
  Speeds = {"prompt", "slow"}
  MaxVerbs = 5
  MaxUnsolicited = 2
  Buses = 2
  Devices = 2
  Functions = 2
  Spaces <- MCSpaces
  Kinds = {"xhci", "ahci"}
  MAX_FOUND = 3
  StartMaps <- MCStartMaps
  Low4G = 22
  Machines <- MCMachines
  MAX_CONTROLLERS = 2
  MAX_SCRATCHPADS = 2
  BOUNCE_PAGES = 3
  TRIES = 5
  MaxHeld = 2
INVARIANTS
  HandedOutIsSafe
  PagesAccounted
  KernelOwnsMachine
  CodecRight
  ControllersRight
CHECK_DEADLOCK FALSE
