CONSTANTS
  EvtSize = 3
  Sessions <- MCSessions
  ReadyTries = 2
  MaxOps = 2
  Ports = {1, 2}
  USB_MAX_DEVICES = 2
  MaxSlots = 4
  Gadgets <- MCGadgets
  MaxFaults = 2
  MaxCalls = 3
  MCParts = {"xhci", "bot", "enumerate"}
SPECIFICATION UsbSpec
INVARIANTS
  StateSound
  AnswersAreOwn
  CleanCallSucceeds
  DriveIsReal
PROPERTIES
  CallsReturn
CHECK_DEADLOCK FALSE
