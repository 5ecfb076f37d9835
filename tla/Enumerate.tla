------------------------------ MODULE Enumerate ------------------------------
(***************************************************************************)
(* How xhci.c brings up a device that was plugged in (EnumeratePort): one  *)
(* action per command or control transfer, each of which may fail, be      *)
(* answered short or be given up; and XhciRelease, which takes a device    *)
(* down, after a failure or when it is gone.                               *)
(*                                                                         *)
(* A command that was given up is still in the command ring, and the       *)
(* controller carries it out when it comes to it.  The memory a device     *)
(* owns is known by its use: its contexts "out" and "in", the ring of its  *)
(* control endpoint "ep0", those of its bulk endpoints by their addresses. *)
(***************************************************************************)
EXTENDS Naturals, Sequences, FiniteSetsExt

CONSTANTS
  Ports,
  USB_MAX_DEVICES,
  MaxSlots,            (* the controller's slots                           *)
  Gadgets,             (* the devices that may be plugged in               *)
  MaxFaults,           (* bound: what goes wrong                           *)
  MaxCalls             (* bound: devices brought up and taken down         *)

EnumerateConstants ==
  /\ USB_MAX_DEVICES \in Nat \ {0} /\ MaxSlots \in Nat \ {0}
  /\ MaxFaults \in Nat /\ MaxCalls \in Nat
  /\ \A g \in Gadgets :
       /\ g.speed \in {"low", "full", "high", "super"}
       /\ g.mps0 \in {8, 16, 32, 64, 512}
       /\ g.hub \in BOOLEAN /\ g.short \in BOOLEAN
       /\ \A k \in DOMAIN g.config : g.config[k].type \in {"interface", "endpoint", "companion"}

VARIABLES
  Devices,             (* the driver's table                               *)
  D,                   (* the entry being brought up or taken down         *)
  pc,                  (* the step of EnumeratePort that is next           *)
  Scratch,             (* what the last control transfer left there        *)
  Dcbaa,               (* whose context each slot has                      *)
  NewMps,              (* the packet size the device asked for             *)
  calls, faults,
  \* the controller and the devices
  slots,               (* what it knows of each slot                       *)
  late,                (* commands given up that it has still to execute   *)
  gadget,              (* what is plugged into each port                   *)
  enabled,             (* the ports that are enabled                       *)
  named,               (* the ports whose device has been given an address *)
  configured,          (* the ports whose device is configured             *)
  \* history
  last,                (* the port of this EnumeratePort                   *)
  clean,               (* nothing went wrong in it                         *)
  fresh,               (* its device had no address when it began          *)
  gaveUp               (* some command was given up                        *)

driver == <<Devices, D, pc, Scratch, Dcbaa, NewMps, calls>>
devices == <<gadget, enabled, configured>>
history == <<last, fresh>>
vars == <<driver, faults, slots, late, devices, named, history, clean, gaveUp>>

Table == 1..USB_MAX_DEVICES

(* The contexts, and the ring of the control endpoint.                     *)
Contexts == {"out", "in", "ep0"}

NoEndpoint == [addr |-> "none", mps |-> 0, burst |-> 0]
Unused == [Used |-> FALSE, Port |-> 0, Slot |-> 0, Speed |-> "full", owns |-> {}, Ep0Mps |-> 0,
           HubSeen |-> FALSE, IsMass |-> FALSE, BulkIn |-> NoEndpoint, BulkOut |-> NoEndpoint]

(* What the controller knows of a slot once it is enabled: whose contexts  *)
(* it uses, the packet size of the control endpoint and the bulk endpoints.*)
DisabledSlot == [enabled |-> FALSE, device |-> 0, ep0 |-> 0, bulk |-> {}]

(* What a control transfer leaves in the buffer.                           *)
Nothing == [kind |-> "nothing"]

(* A USB 3 port enables itself when a device is plugged in.                *)
Trains(p) == gadget[p].speed = "super"

Init ==
  /\ Devices = [i \in Table |-> Unused]
  /\ D = 0 /\ pc = "idle" /\ Scratch = Nothing
  /\ Dcbaa = [s \in 1..MaxSlots |-> 0]
  /\ NewMps = 0 /\ calls = 0 /\ faults = 0
  /\ slots = [s \in 1..MaxSlots |-> DisabledSlot]
  /\ late = <<>>
  /\ gadget \in [Ports -> Gadgets]
  /\ enabled = {p \in Ports : Trains(p)}
  /\ named = {} /\ configured = {}
  /\ last = 0 /\ clean = TRUE /\ fresh = TRUE /\ gaveUp = FALSE

Here == Devices[D]
There == gadget[Here.Port]

------------------------------------------------------------------------------
(* ParseConfig: the descriptors in turn.  A device has its bulk endpoints  *)
(* from the first interface that is mass storage and has one each way.     *)

Unparsed ==
  [IsMass |-> FALSE, HubSeen |-> FALSE, InMass |-> FALSE, HaveIn |-> FALSE, HaveOut |-> FALSE,
   LastEp |-> "none", BulkIn |-> NoEndpoint, BulkOut |-> NoEndpoint]

IsStorage(d) == d.alt = 0 /\ d.class = "mass"

(* Mutant of ParseInterface: what an interface before it had still counts. *)
ParseInterfaceKeeps(s, d) ==
  [s EXCEPT !.InMass = ~s.IsMass /\ IsStorage(d), !.LastEp = "none",
            !.HubSeen = s.HubSeen \/ d.class = "hub"]

ParseInterface(s, d) ==
  LET first == ~s.IsMass /\ IsStorage(d)
  IN  [s EXCEPT !.InMass = first, !.LastEp = "none",
                !.HubSeen = s.HubSeen \/ d.class = "hub",
                !.HaveIn = s.HaveIn /\ ~first, !.HaveOut = s.HaveOut /\ ~first]

ParseEndpoint(s, d) ==
  LET ep == [addr |-> d.addr, mps |-> d.mps, burst |-> 0]
      t  == IF d.dir = "in" THEN [s EXCEPT !.BulkIn = ep, !.HaveIn = TRUE, !.LastEp = "in"]
                            ELSE [s EXCEPT !.BulkOut = ep, !.HaveOut = TRUE, !.LastEp = "out"]
  IN  IF ~s.InMass THEN s
      ELSE IF ~d.bulk THEN [s EXCEPT !.LastEp = "none"]
      ELSE [t EXCEPT !.IsMass = s.IsMass \/ (t.HaveIn /\ t.HaveOut)]

ParseCompanion(s, d) ==
  CASE s.InMass /\ s.LastEp = "in"  -> [s EXCEPT !.BulkIn.burst = d.burst]
    [] s.InMass /\ s.LastEp = "out" -> [s EXCEPT !.BulkOut.burst = d.burst]
    [] OTHER -> s

ParseNext(s, d) ==
  CASE d.type = "interface" -> ParseInterface(s, d)
    [] d.type = "endpoint"  -> ParseEndpoint(s, d)
    [] d.type = "companion" -> ParseCompanion(s, d)

ParseConfig(config) ==
  LET after[n \in 0..Len(config)] == IF n = 0 THEN Unparsed ELSE ParseNext(after[n - 1], config[n])
  IN  after[Len(config)]

------------------------------------------------------------------------------
(* Commands.  The controller executes one, and what it finds is its own    *)
(* state of the slot at that time.                                         *)

FreeSlots == {s \in 1..MaxSlots : ~slots[s].enabled}

(* The controller takes one of its free slots; any would do.               *)
FreeSlot == IF FreeSlots = {} THEN 0 ELSE Min(FreeSlots)

(* A device that has an address does not answer at the one it is given     *)
(* its address at.                                                         *)
Possible(c) ==
  CASE c.kind = "enable"  -> FreeSlots # {}
    [] c.kind = "address" -> c.port \notin named
    [] OTHER -> TRUE

Execute(c) ==
  /\ slots' = [slots EXCEPT ![c.slot] =
       CASE c.kind = "enable"    -> [DisabledSlot EXCEPT !.enabled = TRUE]
         [] c.kind = "address"   -> [@ EXCEPT !.device = c.device, !.ep0 = c.mps]
         [] c.kind = "evaluate"  -> [@ EXCEPT !.ep0 = c.mps]
         [] c.kind = "configure" -> [@ EXCEPT !.bulk = c.bulk]
         [] c.kind = "disable"   -> DisabledSlot]
  /\ named' = IF c.kind = "address" THEN named \cup {c.port} ELSE named

Cmd(kind, slot) == [kind |-> kind, slot |-> slot, device |-> D, port |-> Here.Port, mps |-> 0, bulk |-> {}]

Fault == faults < MaxFaults /\ faults' = faults + 1

(* Command with code 1, with another code, and without an answer in time.  *)
(* The controller answers in order.                                        *)
Succeeds(c) == late = <<>> /\ Possible(c) /\ Execute(c) /\ UNCHANGED <<faults, late, clean, gaveUp>>

Refused(c) ==
  /\ late = <<>>
  /\ IF Possible(c) THEN Fault /\ clean' = FALSE ELSE UNCHANGED <<faults, clean>>
  /\ UNCHANGED <<slots, named, late, gaveUp>>

GivenUp(c) ==
  /\ Fault /\ clean' = FALSE /\ gaveUp' = TRUE
  /\ late' = Append(late, c)
  /\ UNCHANGED <<slots, named>>

(* The controller comes to a command that was given up.                    *)
Late ==
  /\ late # <<>>
  /\ LET c == Head(late)
     IN  IF Possible(c) THEN Execute(IF c.kind = "enable" THEN [c EXCEPT !.slot = FreeSlot] ELSE c)
         ELSE UNCHANGED <<slots, named>>
  /\ late' = Tail(late)
  /\ clean' = FALSE
  /\ UNCHANGED <<driver, faults, devices, history, gaveUp>>

------------------------------------------------------------------------------
(* XhciRelease: the slot is disabled, or the driver gives up waiting for   *)
(* that; either way everything the device owned is freed.                  *)

XhciRelease ==
  /\ pc = "release"
  /\ LET c == Cmd("disable", Here.Slot) IN Succeeds(c) \/ GivenUp(c)
  /\ Devices' = [Devices EXCEPT ![D] = Unused]
  /\ Dcbaa' = [Dcbaa EXCEPT ![Here.Slot] = 0]
  /\ pc' = "idle"
  /\ UNCHANGED <<D, Scratch, NewMps, calls, devices, history>>

(* XhciRescan takes down a device that is gone; another has come.          *)
Unplugged ==
  /\ pc = "idle" /\ calls < MaxCalls
  /\ \E i \in Table, g \in Gadgets :
       LET p == Devices[i].Port
       IN  /\ Devices[i].Used
           /\ D' = i /\ pc' = "release"
           /\ gadget' = [gadget EXCEPT ![p] = g]
           /\ enabled' = IF g.speed = "super" THEN enabled \cup {p} ELSE enabled \ {p}
           /\ named' = named \ {p} /\ configured' = configured \ {p}
  /\ calls' = calls + 1 /\ last' = 0
  /\ UNCHANGED <<Devices, Scratch, Dcbaa, NewMps, faults, slots, late, clean, fresh, gaveUp>>

------------------------------------------------------------------------------
(* EnumeratePort.                                                          *)

(* goto Fail                                                               *)
Fails == pc' = "release"

FindFreeDevice == CHOOSE i \in Table : ~Devices[i].Used /\ \A j \in 1..(i - 1) : Devices[j].Used

(* A USB 3 port that is enabled already is not reset.                      *)
ResetPort(p) ==
  IF Trains(p) /\ p \in enabled THEN UNCHANGED <<enabled, named, configured>>
  ELSE enabled' = enabled \cup {p} /\ named' = named \ {p} /\ configured' = configured \ {p}

(* A port that does not enable is left alone until the next scan.          *)
PortBroughtUp ==
  /\ pc = "idle" /\ calls < MaxCalls
  /\ \E i \in Table : ~Devices[i].Used
  /\ \E p \in Ports :
       /\ \A i \in Table : Devices[i].Used => Devices[i].Port # p
       /\ ResetPort(p)
       /\ D' = FindFreeDevice
       /\ Devices' = [Devices EXCEPT ![FindFreeDevice] =
                        [Unused EXCEPT !.Used = TRUE, !.Port = p, !.Speed = gadget[p].speed]]
       /\ last' = p /\ fresh' = (p \notin named)
  /\ pc' = "enable" /\ calls' = calls + 1 /\ clean' = TRUE
  /\ UNCHANGED <<Scratch, Dcbaa, NewMps, faults, slots, late, gadget, gaveUp>>

EnableSlot ==
  /\ pc = "enable"
  /\ \/ /\ Succeeds(Cmd("enable", FreeSlot))
        /\ Devices' = [Devices EXCEPT ![D].Slot = FreeSlot] /\ pc' = "memory"
     \/ /\ Refused(Cmd("enable", FreeSlot)) \/ GivenUp(Cmd("enable", FreeSlot))
        /\ Devices' = [Devices EXCEPT ![D].Used = FALSE] /\ pc' = "idle"
  /\ UNCHANGED <<D, Scratch, Dcbaa, NewMps, calls, devices, history>>

FirstMps(speed) == CASE speed \in {"low", "full"} -> 8 [] speed = "high" -> 64 [] speed = "super" -> 512

(* The contexts and the control endpoint's ring; each page may be refused. *)
Memory ==
  /\ pc = "memory"
  /\ \E had \in {Contexts, {"out", "in"}, {"in"}, {"out"}, {}} :
       IF had = Contexts
         THEN /\ Devices' = [Devices EXCEPT ![D].owns = had, ![D].Ep0Mps = FirstMps(Here.Speed)]
              /\ Dcbaa' = [Dcbaa EXCEPT ![Here.Slot] = D]
              /\ pc' = "address" /\ UNCHANGED <<faults, clean>>
         ELSE /\ Devices' = [Devices EXCEPT ![D].owns = had]
              /\ Fails /\ Fault /\ clean' = FALSE /\ UNCHANGED Dcbaa
  /\ UNCHANGED <<D, Scratch, NewMps, calls, slots, named, late, devices, history, gaveUp>>

(* A step that is one command: on with it, or to Fail.                     *)
CommandStep(c, then) ==
  /\ \/ Succeeds(c) /\ then
     \/ (Refused(c) \/ GivenUp(c)) /\ Fails /\ UNCHANGED Devices
  /\ UNCHANGED <<D, Scratch, Dcbaa, NewMps, calls, devices, history>>

AddressDevice ==
  /\ pc = "address"
  /\ CommandStep([Cmd("address", Here.Slot) EXCEPT !.mps = Here.Ep0Mps],
                 pc' = "descriptor8" /\ UNCHANGED Devices)

(* XhciControl for a read: Length bytes are copied from the buffer, however*)
(* few of them came; what did not come is what was there before.  `then`   *)
(* finds them in Scratch'.                                                 *)
Reads(answer, step, then) ==
  /\ pc = step
  /\ \/ Scratch' = answer /\ then /\ UNCHANGED <<faults, clean>>
     \/ There.short /\ Fault /\ clean' = FALSE /\ UNCHANGED Scratch /\ then
     \/ Fault /\ clean' = FALSE /\ Fails /\ UNCHANGED <<Devices, Scratch, NewMps>>
  /\ UNCHANGED <<D, Dcbaa, calls, slots, named, late, devices, history, gaveUp>>

DeviceDescriptor == [kind |-> "device", mps |-> There.mps0, hub |-> There.hub]
ConfigDescriptor == [kind |-> "config", config |-> There.config]

(* The byte where a device descriptor has its packet size.                 *)
PacketSizes(data) == IF data.kind = "device" THEN {data.mps} ELSE {0, 9, 64}

(* A super speed device's is fixed.                                        *)
Differs(mps) == mps # FirstMps(Here.Speed) /\ mps >= 8 /\ Here.Speed # "super"

GetDescriptor8 ==
  Reads(DeviceDescriptor, "descriptor8",
    \E mps \in PacketSizes(Scratch') :
      /\ NewMps' = mps
      /\ pc' = IF Differs(mps) THEN "evaluate" ELSE "descriptor18"
      /\ UNCHANGED Devices)

EvaluateContext ==
  /\ pc = "evaluate"
  /\ CommandStep([Cmd("evaluate", Here.Slot) EXCEPT !.mps = NewMps],
                 pc' = "descriptor18" /\ Devices' = [Devices EXCEPT ![D].Ep0Mps = NewMps])

GetDescriptor18 ==
  Reads(DeviceDescriptor, "descriptor18",
    /\ \E hub \in (IF Scratch'.kind = "device" THEN {Scratch'.hub} ELSE BOOLEAN) :
         Devices' = [Devices EXCEPT ![D].HubSeen = hub]
    /\ pc' = "config9" /\ UNCHANGED NewMps)

(* A total length that makes no sense is a failure.                        *)
GetConfig9 == Reads(ConfigDescriptor, "config9", pc' = "config" /\ UNCHANGED <<Devices, NewMps>>)

Parsed(data) == ParseConfig(IF data.kind = "config" THEN data.config ELSE <<>>)

(* The whole configuration, and what is made of it.                        *)
GetConfig ==
  Reads(ConfigDescriptor, "config",
    LET s == Parsed(Scratch')
        hub == Here.HubSeen \/ s.HubSeen
    IN  /\ Devices' = [Devices EXCEPT ![D].HubSeen = hub, ![D].IsMass = s.IsMass /\ ~hub,
                                      ![D].BulkIn = s.BulkIn, ![D].BulkOut = s.BulkOut]
        /\ pc' = (IF s.IsMass /\ ~hub THEN "rings" ELSE "idle") /\ UNCHANGED NewMps)

(* ConfigureEndpoints: the rings, and the command.                         *)
BulkRings ==
  /\ pc = "rings"
  /\ \E had \in {{Here.BulkIn.addr, Here.BulkOut.addr}, {Here.BulkIn.addr}, {}} :
       /\ Devices' = [Devices EXCEPT ![D].owns = @ \cup had]
       /\ IF had = {Here.BulkIn.addr, Here.BulkOut.addr}
            THEN pc' = "configure" /\ UNCHANGED <<faults, clean>>
            ELSE Fails /\ Fault /\ clean' = FALSE
  /\ UNCHANGED <<D, Scratch, Dcbaa, NewMps, calls, slots, named, late, devices, history, gaveUp>>

ConfigureEndpoints ==
  /\ pc = "configure"
  /\ CommandStep([Cmd("configure", Here.Slot) EXCEPT !.bulk = {Here.BulkIn, Here.BulkOut}],
                 pc' = "set" /\ UNCHANGED Devices)

(* A request without data; the device may have taken one that failed.      *)
SetConfiguration ==
  /\ pc = "set"
  /\ \/ configured' = configured \cup {Here.Port} /\ pc' = "idle" /\ UNCHANGED <<faults, clean>>
     \/ /\ Fault /\ clean' = FALSE /\ Fails
        /\ configured' \in {configured, configured \cup {Here.Port}}
  /\ UNCHANGED <<Devices, D, Scratch, Dcbaa, NewMps, calls, slots, named, late, gadget, enabled, history, gaveUp>>

EnumeratePort ==
  \/ PortBroughtUp \/ EnableSlot \/ Memory \/ AddressDevice
  \/ GetDescriptor8 \/ EvaluateContext \/ GetDescriptor18 \/ GetConfig9 \/ GetConfig
  \/ BulkRings \/ ConfigureEndpoints \/ SetConfiguration

Next == EnumeratePort \/ XhciRelease \/ Unplugged \/ Late

Spec == Init /\ [][Next]_vars

------------------------------------------------------------------------------

TypeOK ==
  /\ \A i \in Table :
       /\ Devices[i].Slot \in 0..MaxSlots
       /\ Devices[i].Port \in Ports \cup {0}
  /\ D \in 0..USB_MAX_DEVICES
  /\ Dcbaa \in [1..MaxSlots -> 0..USB_MAX_DEVICES]
  /\ configured \subseteq Ports
  /\ calls \in 0..MaxCalls /\ faults \in 0..MaxFaults

Ready(i) == Devices[i].Used /\ (pc = "idle" \/ i # D)

(* The endpoints of the first storage interface with one each way, said of *)
(* the descriptors at once: an interface's own are those before the next.  *)
Interfaces(c) == {k \in DOMAIN c : c[k].type = "interface"}
Own(c, k) == {e \in DOMAIN c : e > k /\ c[e].type = "endpoint" /\ c[e].bulk
                               /\ \A j \in Interfaces(c) : ~(k < j /\ j < e)}
Storage(c) ==
  {k \in Interfaces(c) : IsStorage(c[k]) /\ \A dir \in {"in", "out"} : \E e \in Own(c, k) : c[e].dir = dir}

Companion(c, e) == IF e + 1 \in DOMAIN c /\ c[e + 1].type = "companion" THEN c[e + 1].burst ELSE 0

Offers(c, ep, dir) ==
  \E k \in Storage(c) :
    /\ \A j \in Storage(c) : k <= j
    /\ \E e \in Own(c, k) :
         c[e].dir = dir /\ ep = [addr |-> c[e].addr, mps |-> c[e].mps, burst |-> Companion(c, e)]

(* A drive that is offered to the storage driver is what its device is:    *)
(* one with a storage interface, both endpoints of that same interface,    *)
(* known to the controller with the device's packet sizes, and configured. *)
DriveIsReal ==
  \A i \in Table : Ready(i) /\ Devices[i].IsMass /\ ~gadget[Devices[i].Port].short =>
    LET g == gadget[Devices[i].Port]
    IN  /\ ~g.hub
        /\ Offers(g.config, Devices[i].BulkIn, "in") /\ Offers(g.config, Devices[i].BulkOut, "out")
        /\ slots[Devices[i].Slot].bulk = {Devices[i].BulkIn, Devices[i].BulkOut}
        /\ slots[Devices[i].Slot].ep0 = g.mps0
        /\ Devices[i].Port \in configured

IsDrive(g) ==
  ~g.hub /\ Storage(g.config) # {} /\ \A k \in Interfaces(g.config) : g.config[k].class # "hub"

(* A drive is found by every scan in which nothing goes wrong, also after  *)
(* one in which something did.                                             *)
DriveIsFound ==
  pc = "idle" /\ last # 0 /\ clean /\ IsDrive(gadget[last]) =>
    \E i \in Table : Devices[i].Used /\ Devices[i].Port = last /\ Devices[i].IsMass

(* The code lives up to that for a device that has been reset since it was *)
(* last given an address.                                                  *)
FreshDriveIsFound == fresh => DriveIsFound

(* No control transfer longer than eight bytes is asked of a device whose  *)
(* packet size the controller has wrong.                                   *)
PacketSizeKnown ==
  pc \in {"descriptor18", "config9", "config", "set"} /\ ~There.short =>
    slots[Here.Slot].ep0 = There.mps0

(* The controller is only ever left with contexts and rings that a device  *)
(* of the table owns, in the slot it has there, and no slot stays enabled  *)
(* that no device has.  It may be different after a command was given up:  *)
(* XhciRelease frees the memory of a slot it did not see disabled.         *)
MemoryIsHeld ==
  ~gaveUp => \A s \in (1..MaxSlots) \ FreeSlots :
      \E i \in Table :
        /\ Devices[i].Used /\ Devices[i].Slot = s
        /\ slots[s].device # 0 =>
             /\ slots[s].device = i /\ Dcbaa[s] = i
             /\ Contexts \cup {ep.addr : ep \in slots[s].bulk} \subseteq Devices[i].owns
==============================================================================
