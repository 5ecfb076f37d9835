CONSTANTS
  EvtSize = 3
  Sessions <- MCSessions
  ReadyTries = 2
  MaxOps = 2
  Ports = {1, 2}
  USB_MAX_DEVICES = 2
  MaxSlots = 4
  Gadgets <- MCGadgets
  MaxFaults = 2
  MaxCalls = 3
  MCParts = {"enumerate"}
SPECIFICATION UsbSpec
INVARIANTS
  DriveIsFound
CHECK_DEADLOCK FALSE
