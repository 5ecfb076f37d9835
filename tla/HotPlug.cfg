SPECIFICATION FairSpec
CONSTANTS
  flash = flash
  reader = reader
  None = None
  Drives = {flash, reader}
  Slots <- MCSlots
  Readers = {reader}
  Cards = {c1}
  MaxPorts = 2
  UsbMaxDevices = 2
  MaxLuns = 2
  MaxBlocks = 2
  MaxNew = 2
  MaxEvents = 3
INVARIANTS
  BindingSound
  ReadsTheRightDrive
  ScanAgrees
PROPERTIES
  NoIndexReuse
  ScanReturns
