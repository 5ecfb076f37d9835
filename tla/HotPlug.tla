------------------------------- MODULE HotPlug -------------------------------
(***************************************************************************)
(* USB storage coming and going while the machine runs: the "usb" command  *)
(* (CmdUsb) scans the root ports (XhciRescan, EnumeratePort, XhciRelease), *)
(* binds each drive's logical units to the LUN table and the block device  *)
(* registry (UsbScan, AttachDevice, ProbeLun, DetachDevice, BlockRemove),  *)
(* and mounts what it finds (FsMountDevice).  The user plugs and unplugs   *)
(* between any two steps of a scan.                                        *)
(*                                                                         *)
(* The kernel has one thread, so the scan is one process; its loops over   *)
(* tables and ports take one action per element, because each iteration    *)
(* reads the hardware anew.                                                *)
(***************************************************************************)
EXTENDS Naturals, Integers, FiniteSets, Sequences

CONSTANTS
  Drives,        (* USB devices a user owns                                *)
  Slots,         (* Slots[d]: logical units of d; 0: not mass storage      *)
  Readers,       (* card readers: their cards come and go                  *)
  Cards,         (* cards a reader's slot may hold                         *)
  MaxPorts,      (* root ports                                             *)
  UsbMaxDevices, (* USB_MAX_DEVICES, 32                                    *)
  MaxLuns,       (* MAX_LUNS, 64                                           *)
  MaxBlocks,     (* MAX_BLOCK_DEVICES, 64, less the disks found at boot    *)
  MaxNew,        (* new drives CmdUsb takes from one scan, 32              *)
  MaxEvents,     (* bound: actions of the user                             *)
  None

Ports == 1..MaxPorts
Devs == 0..(UsbMaxDevices - 1)
LunSlots == 0..(MaxLuns - 1)
Blocks == 0..(MaxBlocks - 1)

ASSUME HotPlugConstants ==
  /\ Slots \in [Drives -> Nat]
  /\ Readers \subseteq Drives /\ Cards # {}
  /\ MaxPorts \in Nat /\ UsbMaxDevices \in Nat \ {0} /\ MaxLuns \in Nat \ {0}
  /\ MaxBlocks \in Nat /\ MaxNew \in Nat /\ MaxEvents \in Nat
  /\ None \notin Drives \cup Cards \cup Int

VARIABLES
  \* the ports and what is in them
  plugged,       (* the drive in each port                                 *)
  csc,           (* PORTSC_CSC: the connection changed since it was cleared *)
  addressed,     (* the device table entry the drive in a port answers to  *)
  card,          (* the card in each slot of each drive                    *)
  events,
  \* xhci.c
  dev,           (* Devices[]                                              *)
  \* usbmsc.c
  lun,           (* Luns[]                                                 *)
  \* blockdev.c
  blk,           (* Devices[] of the block layer                           *)
  DeviceCount,
  \* part.c, fs.c
  scanned,       (* block devices PartScanDevice has seen                  *)
  mounted,       (* those whose volume is mounted                          *)
  \* the running scan
  pc, pos, pass, gone, unit, last, found, new,
  quiet          (* no user action and no failed transfer in this scan     *)

ports == <<plugged, csc, addressed, card, events>>
tables == <<dev, lun, blk, DeviceCount, scanned, mounted>>
scan == <<pc, pos, pass, gone, unit, last, found, new>>
vars == <<ports, tables, scan, quiet>>

NoDev == [used |-> FALSE, gone |-> FALSE, attached |-> FALSE, port |-> 0, drive |-> None]
NoLun == [used |-> FALSE, alive |-> FALSE, dev |-> 0, unit |-> 0, block |-> -1]
NoBlock == [online |-> FALSE, context |-> 0, drive |-> None, unit |-> 0]

Units(d) == 0..(Slots[d] - 1)

Mass(d) == Slots[d] > 0

InitialCards ==
  [d \in Drives |-> [u \in Units(d) |->
     IF d \in Readers /\ u # 0 THEN None ELSE CHOOSE c \in Cards : TRUE]]

Init ==
  /\ plugged \in [Ports -> Drives \cup {None}]
  /\ \A p, q \in Ports : plugged[p] = plugged[q] /\ p # q => plugged[p] = None
  /\ csc = [p \in Ports |-> plugged[p] # None]
  /\ addressed = [p \in Ports |-> None]
  /\ card = InitialCards
  /\ events = 0
  /\ dev = [i \in Devs |-> NoDev]
  /\ lun = [k \in LunSlots |-> NoLun]
  /\ blk = [b \in Blocks |-> NoBlock]
  /\ DeviceCount = 0
  /\ scanned = {} /\ mounted = {}
  /\ pc = "idle" /\ pos = 0 /\ pass = 1 /\ gone = FALSE
  /\ unit = 0 /\ last = 0 /\ found = 0 /\ new = <<>>
  /\ quiet = FALSE

------------------------------------------------------------------------------
(* The user. *)

UserActs == events < MaxEvents /\ events' = events + 1 /\ quiet' = FALSE

Plug(p, d) ==
  /\ UserActs
  /\ plugged[p] = None
  /\ \A q \in Ports : plugged[q] # d
  /\ plugged' = [plugged EXCEPT ![p] = d]
  /\ csc' = [csc EXCEPT ![p] = TRUE]
  /\ UNCHANGED <<addressed, card, tables, scan>>

(* An unplugged drive loses its address: plugged back in, it answers to    *)
(* nothing until it is enumerated again.                                   *)
Unplug(p) ==
  /\ UserActs
  /\ plugged[p] # None
  /\ plugged' = [plugged EXCEPT ![p] = None]
  /\ csc' = [csc EXCEPT ![p] = TRUE]
  /\ addressed' = [addressed EXCEPT ![p] = None]
  /\ UNCHANGED <<card, tables, scan>>

InsertCard(d, u, c) ==
  /\ UserActs
  /\ card[d][u] = None
  /\ \A e \in Readers : \A v \in Units(e) : card[e][v] # c
  /\ card' = [card EXCEPT ![d][u] = c]
  /\ UNCHANGED <<plugged, csc, addressed, tables, scan>>

RemoveCard(d, u) ==
  /\ UserActs
  /\ card[d][u] # None
  /\ card' = [card EXCEPT ![d][u] = None]
  /\ UNCHANGED <<plugged, csc, addressed, tables, scan>>

User ==
  \/ \E p \in Ports : Unplug(p) \/ \E d \in Drives : Plug(p, d)
  \/ \E d \in Readers : \E u \in Units(d) :
       RemoveCard(d, u) \/ \E c \in Cards : InsertCard(d, u, c)

------------------------------------------------------------------------------
(* The scan.  Goto ends one loop and starts another. *)

Goto(label, index) == pc' = label /\ pos' = index

Step == pc' = pc /\ pos' = pos + 1

(* The drive behind table entry i still holds the address it was given. *)
Answers(i) == addressed[dev[i].port] = i

(* CmdUsb calls UsbScan, which calls XhciRescan. *)
StartScan ==
  /\ pc = "idle"
  /\ Goto("mark", 0)
  /\ pass' = 1 /\ gone' = FALSE /\ new' = <<>> /\ found' = 0
  /\ quiet' = TRUE
  /\ UNCHANGED <<unit, last, ports, tables>>

(* XhciRescan, first loop: a device is gone when its port is empty or      *)
(* reports a change since the device was enumerated.                       *)
MarkGone ==
  /\ pc = "mark" /\ pos \in Devs
  /\ LET p == dev[pos].port
     IN  dev' = IF dev[pos].used /\ ~dev[pos].gone /\ (plugged[p] = None \/ csc[p])
                  THEN [dev EXCEPT ![pos].gone = TRUE] ELSE dev
  /\ Step
  /\ UNCHANGED <<pass, gone, unit, last, found, new, quiet, ports, lun, blk, DeviceCount, scanned, mounted>>

MarkDone ==
  /\ pc = "mark" /\ pos \notin Devs
  /\ Goto("enum", 1)
  /\ UNCHANGED <<pass, gone, unit, last, found, new, quiet, ports, tables>>

Known(p) == \E i \in Devs : dev[i].used /\ dev[i].port = p

FreeDev(i) == ~dev[i].used /\ \A j \in Devs : ~dev[j].used => i <= j

(* EnumeratePort takes the first free table entry, resets the port and     *)
(* addresses the drive.                                                    *)
EnumerateOk(p, i) ==
  /\ FreeDev(i)
  /\ dev' = [dev EXCEPT ![i] = [used |-> TRUE, gone |-> FALSE, attached |-> FALSE,
                                port |-> p, drive |-> plugged[p]]]
  /\ csc' = [csc EXCEPT ![p] = FALSE]
  /\ addressed' = [addressed EXCEPT ![p] = i]
  /\ UNCHANGED quiet

(* Every failure of EnumeratePort leaves the entry free again; the reset   *)
(* and XhciRelease clear the port's change bits, a timed-out reset does not. *)
EnumerateFails(p) ==
  /\ \/ UNCHANGED csc
     \/ (\E i \in Devs : FreeDev(i)) /\ csc' = [csc EXCEPT ![p] = FALSE]
  /\ quiet' = FALSE
  /\ UNCHANGED <<dev, addressed>>

(* XhciRescan, second loop. *)
EnumPort ==
  /\ pc = "enum" /\ pos \in Ports
  /\ IF plugged[pos] # None /\ ~Known(pos)
       THEN EnumerateFails(pos) \/ \E i \in Devs : EnumerateOk(pos, i)
       ELSE UNCHANGED <<dev, csc, addressed, quiet>>
  /\ Step
  /\ UNCHANGED <<pass, gone, unit, last, found, new, plugged, card, events, lun, blk, DeviceCount, scanned, mounted>>

EnumDone ==
  /\ pc = "enum" /\ pos \notin Ports
  /\ IF pass = 1 THEN Goto("detach", 0) ELSE Goto("attach", 0)
  /\ UNCHANGED <<pass, gone, unit, last, found, new, quiet, ports, tables>>

UnitsOf(i) == {k \in LunSlots : lun[k].used /\ lun[k].dev = i}

(* The block devices of the drive go offline. *)
BlockRemove(i) ==
  blk' = [b \in Blocks |->
    IF \E k \in UnitsOf(i) : lun[k].alive /\ lun[k].block = b
      THEN [blk[b] EXCEPT !.online = FALSE] ELSE blk[b]]

(* The table entry and the drive's address are given up; the port's change *)
(* bits are cleared.                                                       *)
XhciRelease(i) ==
  /\ dev' = [dev EXCEPT ![i].used = FALSE]
  /\ csc' = [csc EXCEPT ![dev[i].port] = FALSE]
  /\ addressed' = [p \in Ports |-> IF addressed[p] = i THEN None ELSE addressed[p]]

(* Mutant: the block devices of a removed drive stay online. *)
DetachKeepsOnline(i) ==
  /\ lun' = [k \in LunSlots |->
       IF k \in UnitsOf(i) THEN [lun[k] EXCEPT !.alive = FALSE, !.used = FALSE] ELSE lun[k]]
  /\ XhciRelease(i)
  /\ UNCHANGED blk

DetachDevice(i) ==
  /\ BlockRemove(i)
  /\ lun' = [k \in LunSlots |->
       IF k \in UnitsOf(i) THEN [lun[k] EXCEPT !.alive = FALSE, !.used = FALSE] ELSE lun[k]]
  /\ XhciRelease(i)

(* UsbScan, first loop. *)
DetachGone ==
  /\ pc = "detach" /\ pos \in Devs
  /\ IF dev[pos].used /\ dev[pos].gone
       THEN DetachDevice(pos) /\ gone' = TRUE
       ELSE UNCHANGED <<blk, lun, dev, csc, addressed, gone>>
  /\ Step
  /\ UNCHANGED <<pass, unit, last, found, new, quiet, plugged, card, events, DeviceCount, scanned, mounted>>

(* Mutant: no second look at the ports. *)
DetachDoneNoRescan ==
  /\ pc = "detach" /\ pos \notin Devs
  /\ Goto("attach", 0) /\ UNCHANGED pass
  /\ UNCHANGED <<gone, unit, last, found, new, quiet, ports, tables>>

(* Mutant: rescan for as long as something went away. *)
DetachDoneLoop ==
  /\ pc = "detach" /\ pos \notin Devs
  /\ IF gone THEN Goto("mark", 0) /\ pass' = 1 ELSE Goto("attach", 0) /\ UNCHANGED pass
  /\ UNCHANGED <<gone, unit, last, found, new, quiet, ports, tables>>

(* A port whose device left is only looked at by a second XhciRescan. *)
DetachDone ==
  /\ pc = "detach" /\ pos \notin Devs
  /\ IF gone THEN Goto("mark", 0) /\ pass' = 2 ELSE Goto("attach", 0) /\ UNCHANGED pass
  /\ UNCHANGED <<gone, unit, last, found, new, quiet, ports, tables>>

(* UsbScan, second loop: AttachDevice asks for the number of units; a      *)
(* drive that does not answer is taken to have one.                        *)
AttachDevice ==
  /\ pc = "attach" /\ pos \in Devs
  /\ IF dev[pos].used /\ Mass(dev[pos].drive) /\ ~dev[pos].attached
       THEN /\ \/ Answers(pos) /\ last' = Slots[dev[pos].drive] - 1 /\ UNCHANGED quiet
               \/ last' = 0 /\ quiet' = FALSE
            /\ unit' = 0 /\ found' = 0
            /\ Goto("probe", pos)
       ELSE Step /\ UNCHANGED <<last, unit, found, quiet>>
  /\ UNCHANGED <<pass, gone, new, ports, tables>>

FreeLun(k) == ~lun[k].used /\ \A j \in LunSlots : ~lun[j].used => k <= j

Room == DeviceCount < MaxBlocks /\ \E k \in LunSlots : FreeLun(k)

(* The unit answers INQUIRY, TEST UNIT READY and READ CAPACITY. *)
Ready(i, u) ==
  Answers(i) /\ u \in Units(dev[i].drive) /\ card[dev[i].drive][u] # None

(* Mutant: an offline entry is taken again. *)
BlockRegisterReuses(k, i, u) ==
  /\ DeviceCount < MaxBlocks
  /\ LET offline == {b \in Blocks : b < DeviceCount /\ ~blk[b].online}
         b == IF offline = {} THEN DeviceCount ELSE CHOOSE c \in offline : TRUE
     IN  /\ blk' = [blk EXCEPT ![b] =
                      [online |-> TRUE, context |-> k, drive |-> dev[i].drive, unit |-> u]]
         /\ lun' = [lun EXCEPT ![k] =
                      [used |-> TRUE, alive |-> TRUE, dev |-> i, unit |-> u, block |-> b]]
         /\ new' = IF Len(new) < MaxNew THEN Append(new, b) ELSE new
         /\ DeviceCount' = IF offline = {} THEN DeviceCount + 1 ELSE DeviceCount

(* Mutant: every unit is registered with the drive's first LUN entry. *)
BlockRegisterFirstContext(k, i, u) ==
  /\ DeviceCount < MaxBlocks
  /\ blk' = [blk EXCEPT ![DeviceCount] =
               [online |-> TRUE, context |-> 0, drive |-> dev[i].drive, unit |-> u]]
  /\ lun' = [lun EXCEPT ![k] =
               [used |-> TRUE, alive |-> TRUE, dev |-> i, unit |-> u, block |-> DeviceCount]]
  /\ new' = IF Len(new) < MaxNew THEN Append(new, DeviceCount) ELSE new
  /\ DeviceCount' = DeviceCount + 1

(* BlockRegisterNext takes the next entry; an offline one is not reused. *)
BlockRegister(k, i, u) ==
  /\ DeviceCount < MaxBlocks
  /\ blk' = [blk EXCEPT ![DeviceCount] =
               [online |-> TRUE, context |-> k, drive |-> dev[i].drive, unit |-> u]]
  /\ lun' = [lun EXCEPT ![k] =
               [used |-> TRUE, alive |-> TRUE, dev |-> i, unit |-> u, block |-> DeviceCount]]
  /\ new' = IF Len(new) < MaxNew THEN Append(new, DeviceCount) ELSE new
  /\ DeviceCount' = DeviceCount + 1

(* ProbeLun: any failure gives the LUN entry back with Alive clear. *)
ProbeLun(i, u) ==
  \/ /\ Ready(i, u)
     /\ \E k \in LunSlots : FreeLun(k) /\ BlockRegister(k, i, u)
     /\ found' = found + 1
     /\ UNCHANGED quiet
  \/ /\ quiet' = (quiet /\ ~(Ready(i, u) /\ Room))
     /\ lun' = [k \in LunSlots |->
          IF FreeLun(k)
            THEN [used |-> FALSE, alive |-> FALSE, dev |-> i, unit |-> u, block |-> -1]
            ELSE lun[k]]
     /\ UNCHANGED <<blk, DeviceCount, new, found>>

(* The units of one drive in turn; the drive is attached once one works. *)
ProbeUnit ==
  /\ pc = "probe"
  /\ ProbeLun(pos, unit)
  /\ IF unit < last
       THEN unit' = unit + 1 /\ UNCHANGED <<pc, pos, dev>>
       ELSE /\ Goto("attach", pos + 1)
            /\ UNCHANGED unit
            /\ dev' = IF found' > 0 THEN [dev EXCEPT ![pos].attached = TRUE] ELSE dev
  /\ UNCHANGED <<pass, gone, last, ports, scanned, mounted>>

AttachDone ==
  /\ pc = "attach" /\ pos \notin Devs
  /\ Goto("mount", 1)
  /\ UNCHANGED <<pass, gone, unit, last, found, new, quiet, ports, tables>>

(* The drive and unit a read of block device b reaches, <<>> for an error: *)
(* BlockRead wants it online, MscRead wants the LUN alive, and the drive   *)
(* must still hold the address of the table entry the LUN points to.       *)
Delivers(b) ==
  LET L == lun[blk[b].context]
      p == dev[L.dev].port
  IN  IF blk[b].online /\ L.alive /\ addressed[p] = L.dev
         /\ L.unit \in Units(plugged[p]) /\ card[plugged[p]][L.unit] # None
        THEN <<plugged[p], L.unit>> ELSE <<>>

(* FsMountDevice for each new drive.  PartScanDevice looks at a device     *)
(* once: the device counts as scanned before its first sector is read.     *)
MountNew ==
  /\ pc = "mount" /\ pos \in DOMAIN new
  /\ LET b == new[pos]
     IN  IF b \in scanned
           THEN UNCHANGED <<scanned, mounted, quiet>>
           ELSE /\ scanned' = scanned \cup {b}
                /\ \/ Delivers(b) # <<>> /\ mounted' = mounted \cup {b} /\ UNCHANGED quiet
                   \/ mounted' = mounted /\ quiet' = FALSE
  /\ Step
  /\ UNCHANGED <<pass, gone, unit, last, found, new, ports, dev, lun, blk, DeviceCount>>

MountDone ==
  /\ pc = "mount" /\ pos \notin DOMAIN new
  /\ Goto("idle", 0)
  /\ UNCHANGED <<pass, gone, unit, last, found, new, quiet, ports, tables>>

Scan ==
  \/ MarkGone \/ MarkDone \/ EnumPort \/ EnumDone \/ DetachGone \/ DetachDone
  \/ AttachDevice \/ ProbeUnit \/ AttachDone \/ MountNew \/ MountDone

Next == User \/ StartScan \/ Scan

Spec == Init /\ [][Next]_vars

(* The kernel thread keeps running: a scan that is under way goes on.      *)
FairSpec == Spec /\ WF_vars(Scan)

------------------------------------------------------------------------------

PortTypes ==
  /\ plugged \in [Ports -> Drives \cup {None}]
  /\ csc \in [Ports -> BOOLEAN]
  /\ addressed \in [Ports -> Devs \cup {None}]
  /\ events \in Nat

DevTypes ==
  dev \in [Devs -> [used : BOOLEAN, gone : BOOLEAN, attached : BOOLEAN,
                    port : Ports \cup {0}, drive : Drives \cup {None}]]

BindingTypes ==
  /\ lun \in [LunSlots -> [used : BOOLEAN, alive : BOOLEAN, dev : Devs, unit : Nat,
                           block : Blocks \cup {-1}]]
  /\ blk \in [Blocks -> [online : BOOLEAN, context : LunSlots, drive : Drives \cup {None},
                         unit : Nat]]
  /\ DeviceCount \in 0..MaxBlocks

ScanTypes ==
  /\ pc \in {"idle", "mark", "enum", "detach", "attach", "probe", "mount"}
  /\ pos \in Nat /\ unit \in Nat /\ last \in Nat /\ found \in Nat
  /\ pass \in {1, 2} /\ gone \in BOOLEAN /\ quiet \in BOOLEAN
  /\ new \in Seq(Blocks)

MountTypes == scanned \subseteq Blocks /\ mounted \subseteq scanned

TypeOK == PortTypes /\ DevTypes /\ BindingTypes /\ ScanTypes /\ MountTypes

(* A block device that is online has a LUN entry of its own: the entry its *)
(* Context points to is in use, alive and points back, and belongs to a    *)
(* device table entry in use that was enumerated for the same drive.       *)
BindingSound ==
  \A b \in Blocks : blk[b].online =>
    LET L == lun[blk[b].context]
    IN  /\ b < DeviceCount
        /\ L.used /\ L.alive /\ L.block = b /\ L.unit = blk[b].unit
        /\ dev[L.dev].used /\ dev[L.dev].drive = blk[b].drive

(* A read of a block device never returns another drive's data, although   *)
(* the LUN entry and the device table entry it goes through are reused for *)
(* drives plugged in later.                                                *)
ReadsTheRightDrive ==
  \A b \in Blocks : Delivers(b) \in {<<>>, <<blk[b].drive, blk[b].unit>>}

(* No port has two entries of the device table, which would let one drive  *)
(* be attached twice.                                                      *)
OneDevicePerPort ==
  \A i, j \in Devs : dev[i].used /\ dev[j].used /\ dev[i].port = dev[j].port => i = j

IndexKept ==
  \A b \in Blocks : b < DeviceCount =>
    /\ blk'[b].context = blk[b].context
    /\ blk'[b].drive = blk[b].drive
    /\ blk'[b].online => blk[b].online

(* The index of a removed block device never names another drive: the      *)
(* partition table and the volumes keep such indices for the whole session. *)
NoIndexReuse == [][IndexKept]_vars

(* A scan that nothing disturbed just ended. *)
QuietScanEnded == pc = "idle" /\ quiet

(* After an undisturbed scan no drive that left is still online. *)
GoneIsOffline ==
  QuietScanEnded =>
    \A b \in Blocks : blk[b].online => dev[lun[blk[b].context].dev].gone = FALSE /\ Answers(lun[blk[b].context].dev)

(* After an undisturbed scan every drive with a fixed medium that is       *)
(* plugged in can be read, while the tables have room.  A card reader is   *)
(* excepted: a card inserted into a reader already attached is not probed. *)
(* Of a drive with several units one at least can be read: once one was    *)
(* found in an earlier scan, the others are not probed again.              *)
PluggedIsServed ==
  QuietScanEnded /\ Room =>
    \A p \in Ports : plugged[p] \notin Readers \cup {None} /\ Mass(plugged[p]) =>
      \E u \in Units(plugged[p]), b \in Blocks : Delivers(b) = <<plugged[p], u>>

(* Between scans every block device ever registered has been handed to     *)
(* FsMountDevice: none falls between UsbScan's result and the mount loop,  *)
(* unless one scan finds more of them than CmdUsb has room for.            *)
EveryDriveOffered ==
  pc = "idle" /\ DeviceCount <= MaxNew => \A b \in Blocks : b < DeviceCount => b \in scanned

(* What an undisturbed scan leaves behind agrees with the ports.           *)
ScanAgrees == GoneIsOffline /\ PluggedIsServed /\ EveryDriveOffered

(* The usb command returns, however the user plugs and unplugs meanwhile. *)
ScanReturns == pc = "mark" ~> pc = "idle"
==============================================================================
