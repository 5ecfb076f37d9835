-------------------------------- MODULE MCUsb --------------------------------
(***************************************************************************)
(* The transfers of xhci.c, how it brings devices up with them, and the    *)
(* protocol of usbmsc.c on top of them.  Bot and Enumerate take what the   *)
(* transfers return as they like, so no two share state, and a behaviour   *)
(* is one of one part: `part` says which.                                  *)
(***************************************************************************)
EXTENDS Xhci

CONSTANTS
  MCParts,                                          (* the parts to look at *)
  ReadyTries, MaxOps,                               (* those of Bot         *)
  Ports, USB_MAX_DEVICES, MaxSlots, Gadgets, MaxFaults, MaxCalls  (* those of Enumerate *)

Session(size, transfers, commands, tds, clears) ==
  [ringSize |-> size, transfersTimeOut |-> transfers, commandsTimeOut |-> commands,
   maxTds |-> tds, maxCommands |-> clears]

(* A controller that is never slow; transfers that are given up; commands  *)
(* that are given up too, on a ring that is not overrun.                   *)
MCSessions ==
  {Session(4, FALSE, FALSE, 4, 4), Session(4, TRUE, FALSE, 3, 3), Session(8, TRUE, TRUE, 2, 0)}

Interface(alt, class) == [type |-> "interface", alt |-> alt, class |-> class]
Endpoint(dir, addr, bulk) ==
  [type |-> "endpoint", dir |-> dir, addr |-> addr, mps |-> 64, bulk |-> bulk]
Companion(burst) == [type |-> "companion", burst |-> burst]

Gadget(speed, mps0, short, config) ==
  [speed |-> speed, mps0 |-> mps0, hub |-> FALSE, short |-> short, config |-> config]

(* A USB 3 drive with a second setting; a drive behind interfaces that are *)
(* not it, two of them with one bulk endpoint each; a hub that answers     *)
(* short.                                                                  *)
MCGadgets ==
  { Gadget("super", 512, FALSE,
      <<Interface(0, "mass"), Endpoint("in", "in1", TRUE), Companion(3),
        Endpoint("out", "out2", TRUE), Companion(4),
        Interface(1, "mass"), Endpoint("in", "in3", TRUE), Endpoint("out", "out4", TRUE)>>),
    Gadget("full", 64, FALSE,
      <<Interface(0, "other"), Endpoint("in", "in5", TRUE),
        Interface(0, "mass"), Endpoint("in", "in1", TRUE),
        Interface(0, "mass"), Endpoint("out", "out2", TRUE), Endpoint("in", "in3", FALSE),
        Interface(0, "mass"), Endpoint("out", "out4", TRUE), Endpoint("in", "in4", TRUE)>>),
    Gadget("high", 64, TRUE, <<Interface(0, "hub"), Endpoint("in", "in1", FALSE)>>) }

VARIABLES
  part,
  \* Bot
  op, ops, cmd, Attempt, step, Tag, Data, Got, St, botRet, out, halted, clean,
  \* Enumerate
  Devices, D, enumPc, Scratch, Dcbaa, NewMps, calls, faults, enumSlots, late, gadget, enabled,
  named, configured, enumLast, enumClean, fresh, gaveUp

B == INSTANCE Bot WITH ret <- botRet
E == INSTANCE Enumerate
     WITH pc <- enumPc, slots <- enumSlots, last <- enumLast, clean <- enumClean

ASSUME ProtocolConstants == B!BotConstants
ASSUME DeviceConstants == E!EnumerateConstants

bot == <<op, ops, cmd, Attempt, step, Tag, Data, Got, St, botRet, out, halted, clean>>
enumerate == <<Devices, D, enumPc, Scratch, Dcbaa, NewMps, calls, faults, enumSlots, late, gadget,
               enabled, named, configured, enumLast, enumClean, fresh, gaveUp>>
all == <<part, vars, bot, enumerate>>

(* The other parts have nothing plugged in.                                *)
EnumerateOff ==
  /\ Devices = 0 /\ D = 0 /\ enumPc = 0 /\ Scratch = 0 /\ Dcbaa = 0 /\ NewMps = 0
  /\ calls = 0 /\ faults = 0 /\ enumSlots = 0 /\ late = 0 /\ gadget = 0 /\ enabled = 0
  /\ named = 0 /\ configured = 0 /\ enumLast = 0 /\ enumClean = 0 /\ fresh = 0 /\ gaveUp = 0

UsbInit ==
  /\ part \in MCParts /\ Init /\ B!Init
  /\ part # "xhci" => session = CHOOSE some \in Sessions : TRUE
  /\ IF part = "enumerate" THEN E!Init ELSE EnumerateOff

XhciOnly == part = "xhci" /\ UNCHANGED <<part, bot, enumerate>>
BotOnly == part = "bot" /\ UNCHANGED <<part, vars, enumerate>>
EnumerateOnly == part = "enumerate" /\ UNCHANGED <<part, vars, bot>>

UsbNext ==
  \/ XhciOnly /\ Next
  \/ BotOnly /\ B!Next
  \/ EnumerateOnly /\ E!Next

(* Each part with its own fairness (see Fairness in its module).           *)
UsbSpec ==
  /\ UsbInit /\ [][UsbNext]_all
  /\ WF_all(XhciOnly /\ Waiting) /\ WF_all(XhciOnly /\ Transfer) /\ WF_all(XhciOnly /\ ExecuteCommand)
  /\ WF_all(BotOnly /\ B!Work)

------------------------------------------------------------------------------
(* The drivers' variables keep their types; the controller runs no TRB but *)
(* those of the transfer at hand, the cycle bit tells new events from old  *)
(* ones (see Xhci), and drive and driver are back in step when a status is *)
(* returned (see Bot).                                                     *)
StateSound ==
  /\ TypeOK /\ OnlyCurrentRuns /\ CycleTellsNew
  /\ B!TypeOK /\ B!BackInStep
  /\ part = "enumerate" => E!TypeOK

(* A transfer that reports success is the one that was asked for, and a    *)
(* read that does has the bytes of its own command (see Xhci and Bot).     *)
AnswersAreOwn == OkIsOwn /\ B!ReadIsOwn

(* A call during which nothing goes wrong succeeds (Bot).                  *)
CleanCallSucceeds == B!CleanCallSucceeds

(* Every transfer, and every call of the protocol above, returns (see Xhci *)
(* and Bot).                                                               *)
CallsReturn == TransferReturns /\ B!CallReturns

(* What is registered as a drive is one, with the endpoints of one and the *)
(* same interface; a device fresh from the plug is found; the controller   *)
(* uses no memory but what its driver holds for it (see Enumerate).        *)
DriveIsReal ==
  part = "enumerate" =>
    E!DriveIsReal /\ E!PacketSizeKnown /\ E!FreshDriveIsFound /\ E!MemoryIsHeld

(* Whenever nothing goes wrong a drive is found (see Enumerate).           *)
DriveIsFound == part = "enumerate" => E!DriveIsFound
==============================================================================
