---------------------------- MODULE HotPlugProofs ----------------------------
(***************************************************************************)
(* The binding of block devices to drives, for any number of ports, drives *)
(* and table entries: a block device that is online reads from the drive   *)
(* it was registered for or from none, whatever the user does to the ports *)
(* while a scan runs; and a scan that nothing disturbed leaves behind what *)
(* is in the ports.                                                        *)
(***************************************************************************)
EXTENDS HotPlug, TLAPS

(* A drive answers only to the entry that was enumerated in its port. *)
AddressInv ==
  \A p \in Ports : addressed[p] # None =>
    /\ dev[addressed[p]].used
    /\ dev[addressed[p]].port = p
    /\ dev[addressed[p]].drive = plugged[p]

DeviceInv ==
  /\ \A i \in Devs : dev[i].used => dev[i].port \in Ports /\ dev[i].drive \in Drives
  /\ OneDevicePerPort
  /\ pc = "probe" => pos \in Devs /\ dev[pos].used

(* LUN entries and block devices point at each other. *)
LunInv ==
  /\ \A k \in LunSlots : lun[k].used => dev[lun[k].dev].used
  /\ \A k \in LunSlots : lun[k].alive =>
       /\ lun[k].used /\ blk[lun[k].block].context = k
       /\ lun[k].block \in Blocks /\ lun[k].block < DeviceCount

IInv == TypeOK /\ AddressInv /\ DeviceInv /\ LunInv /\ BindingSound

------------------------------------------------------------------------------

LEMMA Constants ==
  /\ \A d \in Drives : Slots[d] \in Nat
  /\ MaxBlocks \in Nat /\ None \notin Drives /\ None \notin Int
  /\ \A i \in Devs : i # None /\ i \in Nat
  /\ \A p \in Ports : p \in Nat
  /\ \A b \in Blocks : b \in Nat /\ b < MaxBlocks
  /\ \A n \in Nat : n < MaxBlocks => n \in Blocks
BY HotPlugConstants DEF Devs, Ports, Blocks

LEMMA InitTypes == Init => TypeOK
<1> SUFFICES ASSUME Init PROVE TypeOK
  OBVIOUS
<1>1. 0 \in Devs /\ 0 \in LunSlots
  BY HotPlugConstants DEF Devs, LunSlots
<1>2. PortTypes /\ MountTypes
  BY DEF Init, PortTypes, MountTypes
<1>3. DevTypes
  BY DEF Init, NoDev, DevTypes
<1>4. BindingTypes
  <2>1. lun \in [LunSlots -> [used : BOOLEAN, alive : BOOLEAN, dev : Devs, unit : Nat,
                              block : Blocks \cup {-1}]]
    BY <1>1 DEF Init, NoLun
  <2>2. blk \in [Blocks -> [online : BOOLEAN, context : LunSlots, drive : Drives \cup {None},
                            unit : Nat]]
    BY <1>1 DEF Init, NoBlock
  <2> QED BY <2>1, <2>2, HotPlugConstants DEF Init, BindingTypes
<1>5. ScanTypes
  <2>1. new \in Seq(Blocks)
    BY DEF Init
  <2> QED BY <2>1 DEF Init, ScanTypes
<1> QED BY <1>2, <1>3, <1>4, <1>5 DEF TypeOK

(* At boot no table refers to another. *)
THEOREM InitInv == Init => IInv
<1> SUFFICES ASSUME Init PROVE IInv
  OBVIOUS
<1>1. AddressInv /\ DeviceInv /\ LunInv /\ BindingSound
  BY DEF Init, AddressInv, DeviceInv, OneDevicePerPort, LunInv, BindingSound, NoDev, NoLun, NoBlock
<1> QED BY <1>1, InitTypes DEF IInv

(* Steps that touch neither the drives' addresses nor the tables the       *)
(* binding is made of.                                                     *)
LEMMA Frame ==
  ASSUME IInv, PortTypes', ScanTypes', MountTypes',
         UNCHANGED <<plugged, addressed, dev, lun, blk, DeviceCount>>,
         pc' = "probe" => pos' \in Devs /\ dev[pos'].used
  PROVE  IInv'
<1>1. AddressInv' /\ LunInv' /\ BindingSound'
  BY DEF IInv, AddressInv, LunInv, BindingSound
<1>2. DeviceInv'
  BY DEF IInv, DeviceInv, OneDevicePerPort
<1>3. TypeOK'
  BY DEF IInv, TypeOK, DevTypes, BindingTypes
<1> QED BY <1>1, <1>2, <1>3 DEF IInv

(* What the user's actions leave alone. *)
LEMMA UserFrame ==
  ASSUME IInv, UserActs, UNCHANGED tables, UNCHANGED scan
  PROVE  /\ DevTypes' /\ BindingTypes' /\ ScanTypes' /\ MountTypes'
         /\ events' \in Nat
         /\ DeviceInv' /\ LunInv' /\ BindingSound'
<1>0. TypeOK /\ DeviceInv /\ LunInv /\ BindingSound
  BY DEF IInv
<1>1. DevTypes' /\ BindingTypes' /\ MountTypes'
  BY <1>0 DEF TypeOK, DevTypes, BindingTypes, MountTypes, tables
<1>2. ScanTypes'
  <2>1. ScanTypes /\ UNCHANGED <<pc, pos, pass, gone, unit, last, found, new>> /\ quiet' = FALSE
    BY <1>0 DEF TypeOK, scan, UserActs
  <2> QED BY <2>1 DEF ScanTypes
<1>4. events' \in Nat
  BY <1>0 DEF TypeOK, PortTypes, UserActs
<1>3. DeviceInv' /\ LunInv' /\ BindingSound'
  BY <1>0 DEF DeviceInv, OneDevicePerPort, LunInv, BindingSound, tables, scan
<1> QED BY <1>1, <1>2, <1>3, <1>4

LEMMA UserStep ==
  ASSUME IInv, User
  PROVE  IInv'
<1>0. PortTypes /\ AddressInv /\ DeviceInv
  BY DEF IInv, TypeOK
<1>1. ASSUME NEW p \in Ports, NEW d \in Drives, Plug(p, d) PROVE IInv'
  <2>1. UserActs /\ UNCHANGED tables /\ UNCHANGED scan
    BY <1>1 DEF Plug, tables, scan
  <2>2. PortTypes'
    BY <1>0, <1>1, <2>1, UserFrame DEF PortTypes, Plug
  <2>3. addressed[p] = None
    BY <1>0, <1>1, Constants DEF AddressInv, DeviceInv, Plug, PortTypes
  <2>4. AddressInv'
    <3>1. UNCHANGED <<addressed, dev>> /\ \A q \in Ports : q # p => plugged'[q] = plugged[q]
      BY <1>0, <1>1, <2>1 DEF Plug, tables, PortTypes
    <3> QED BY <1>0, <2>3, <3>1 DEF AddressInv
  <2> QED BY <2>1, <2>2, <2>4, UserFrame DEF IInv, TypeOK
<1>2. ASSUME NEW p \in Ports, Unplug(p) PROVE IInv'
  <2>1. UserActs /\ UNCHANGED tables /\ UNCHANGED scan
    BY <1>2 DEF Unplug, tables, scan
  <2>2. PortTypes'
    BY <1>0, <1>2, <2>1, UserFrame DEF PortTypes, Unplug
  <2>3. AddressInv'
    BY <1>0, <1>2, <2>1 DEF AddressInv, Unplug, tables, PortTypes
  <2> QED BY <2>1, <2>2, <2>3, UserFrame DEF IInv, TypeOK
<1>3. ASSUME NEW d \in Drives, NEW u \in Units(d),
             RemoveCard(d, u) \/ \E c \in Cards : InsertCard(d, u, c)
      PROVE IInv'
  <2>1. UserActs /\ UNCHANGED <<plugged, csc, addressed>> /\ UNCHANGED tables /\ UNCHANGED scan
    BY <1>3 DEF RemoveCard, InsertCard, tables, scan
  <2>2. PortTypes' /\ ScanTypes' /\ MountTypes'
    BY <1>0, <2>1, UserFrame DEF PortTypes
  <2>3. AddressInv'
    BY <1>0, <2>1 DEF AddressInv, tables
  <2> QED BY <2>1, <2>2, <2>3, UserFrame DEF IInv, TypeOK
<1> QED BY <1>1, <1>2, <1>3, HotPlugConstants DEF User

(* The steps between the loops, and those that only move on. *)
LEMMA ControlStep ==
  ASSUME IInv,
         StartScan \/ MarkDone \/ EnumDone \/ DetachDone \/ AttachDone \/ MountDone
  PROVE  IInv'
<1>0. TypeOK
  BY DEF IInv
<1>1. UNCHANGED <<plugged, csc, addressed, events, dev, lun, blk, DeviceCount, scanned, mounted>>
  BY DEF StartScan, MarkDone, EnumDone, DetachDone, AttachDone, MountDone, tables, ports
<1>2. pc' \in {"idle", "mark", "enum", "detach", "attach", "mount"} /\ pos' \in Nat
  BY DEF StartScan, MarkDone, EnumDone, DetachDone, AttachDone, MountDone, Goto
<1>3. /\ UNCHANGED <<unit, last>>
      /\ pass' \in {1, 2} /\ gone' \in BOOLEAN /\ quiet' \in BOOLEAN
      /\ found' \in Nat /\ new' \in Seq(Blocks)
  <2>0. ScanTypes /\ <<>> \in Seq(Blocks)
    BY <1>0 DEF TypeOK
  <2>1. CASE StartScan
    BY <2>0, <2>1 DEF ScanTypes, StartScan
  <2>2. CASE DetachDone
    BY <2>0, <2>2 DEF ScanTypes, DetachDone
  <2>3. CASE MarkDone \/ EnumDone \/ AttachDone \/ MountDone
    BY <2>0, <2>3 DEF ScanTypes, MarkDone, EnumDone, AttachDone, MountDone
  <2> QED BY <2>1, <2>2, <2>3
<1>4. ScanTypes'
  BY <1>0, <1>2, <1>3 DEF TypeOK, ScanTypes
<1>5. PortTypes' /\ MountTypes'
  BY <1>0, <1>1 DEF TypeOK, PortTypes, MountTypes
<1> QED BY <1>1, <1>2, <1>4, <1>5, Frame

LEMMA MountStep ==
  ASSUME IInv, MountNew
  PROVE  IInv'
<1>0. PortTypes /\ ScanTypes /\ MountTypes
  BY DEF IInv, TypeOK
<1>1. /\ UNCHANGED <<plugged, csc, addressed, events, dev, lun, blk, DeviceCount>>
      /\ UNCHANGED <<pc, pass, gone, unit, last, found, new>>
      /\ pc # "probe" /\ pos' = pos + 1
  BY DEF MountNew, ports, Step
<1>2. new[pos] \in Blocks
  BY <1>0 DEF MountNew, ScanTypes
<1>3. MountTypes' /\ quiet' \in BOOLEAN
  BY <1>0, <1>2 DEF MountNew, MountTypes, ScanTypes
<1>4. PortTypes' /\ ScanTypes'
  BY <1>0, <1>1, <1>3 DEF PortTypes, ScanTypes
<1> QED BY <1>1, <1>3, <1>4, Frame

LEMMA MarkStep ==
  ASSUME IInv, MarkGone
  PROVE  IInv'
<1>0. TypeOK /\ AddressInv /\ DeviceInv /\ LunInv /\ BindingSound
  BY DEF IInv
<1>1. /\ UNCHANGED <<plugged, csc, addressed, events, lun, blk, DeviceCount, scanned, mounted>>
      /\ UNCHANGED <<pc, pass, gone, unit, last, found, new, quiet>>
      /\ pc # "probe" /\ pos' = pos + 1
  BY DEF MarkGone, Step, ports
<1>2. /\ DevTypes'
      /\ \A i \in Devs : /\ dev'[i].used = dev[i].used
                         /\ dev'[i].port = dev[i].port /\ dev'[i].drive = dev[i].drive
  BY <1>0 DEF MarkGone, TypeOK, DevTypes
<1>3. TypeOK'
  BY <1>0, <1>1, <1>2 DEF TypeOK, PortTypes, BindingTypes, ScanTypes, MountTypes
<1>4. AddressInv'
  BY <1>0, <1>1, <1>2 DEF AddressInv, TypeOK, PortTypes
<1>5. DeviceInv'
  BY <1>0, <1>1, <1>2 DEF DeviceInv, OneDevicePerPort
<1>6. LunInv' /\ BindingSound'
  <2>1. /\ \A k \in LunSlots : lun[k].dev \in Devs
        /\ \A b \in Blocks : lun[blk[b].context].dev \in Devs
    BY <1>0 DEF TypeOK, BindingTypes
  <2>2. LunInv'
    BY <1>0, <1>1, <1>2, <2>1 DEF LunInv
  <2>3. BindingSound'
    BY <1>0, <1>1, <1>2, <2>1 DEF BindingSound
  <2> QED BY <2>2, <2>3
<1> QED BY <1>3, <1>4, <1>5, <1>6 DEF IInv

(* EnumeratePort writes an entry no drive, LUN or port refers to. *)
LEMMA EnumerateStep ==
  ASSUME IInv, NEW p \in Ports, NEW i \in Devs, EnumerateOk(p, i),
         plugged[p] # None, ~Known(p), pc' # "probe",
         UNCHANGED <<plugged, lun, blk, DeviceCount>>
  PROVE  /\ DevTypes' /\ csc' \in [Ports -> BOOLEAN] /\ addressed' \in [Ports -> Devs \cup {None}]
         /\ AddressInv' /\ DeviceInv' /\ LunInv' /\ BindingSound'
<1>0. TypeOK /\ AddressInv /\ DeviceInv /\ LunInv /\ BindingSound
  BY DEF IInv
<1>1. ~dev[i].used /\ plugged[p] \in Drives
  BY <1>0 DEF EnumerateOk, FreeDev, TypeOK, PortTypes
<1>2. /\ dev'[i] = [used |-> TRUE, gone |-> FALSE, attached |-> FALSE,
                    port |-> p, drive |-> plugged[p]]
      /\ \A j \in Devs : j # i => dev'[j] = dev[j]
      /\ addressed'[p] = i
      /\ \A q \in Ports : q # p => addressed'[q] = addressed[q]
  BY <1>0 DEF EnumerateOk, TypeOK, PortTypes, DevTypes
<1>3. DevTypes'
  BY <1>0, <1>1 DEF EnumerateOk, TypeOK, DevTypes
<1>4. csc' \in [Ports -> BOOLEAN] /\ addressed' \in [Ports -> Devs \cup {None}]
  BY <1>0 DEF EnumerateOk, TypeOK, PortTypes
<1>5. AddressInv'
  <2> SUFFICES ASSUME NEW q \in Ports, addressed'[q] # None
               PROVE  /\ dev'[addressed'[q]].used
                      /\ dev'[addressed'[q]].port = q
                      /\ dev'[addressed'[q]].drive = plugged[q]
    BY DEF AddressInv
  <2>1. CASE q = p
    BY <2>1, <1>2
  <2>2. CASE q # p
    <3>1. addressed[q] \in Devs /\ addressed[q] # i
      BY <2>2, <1>0, <1>1, <1>2 DEF AddressInv, TypeOK, PortTypes
    <3> QED BY <2>2, <3>1, <1>0, <1>2 DEF AddressInv
  <2> QED BY <2>1, <2>2
<1>6. DeviceInv'
  <2>1. \A j \in Devs : dev'[j].used => dev'[j].port \in Ports /\ dev'[j].drive \in Drives
    BY <1>0, <1>1, <1>2 DEF DeviceInv
  <2>2. \A j \in Devs : dev[j].used => dev[j].port # p
    BY DEF Known
  <2>3. OneDevicePerPort'
    BY <1>0, <1>2, <2>2 DEF DeviceInv, OneDevicePerPort
  <2> QED BY <2>1, <2>3 DEF DeviceInv
<1>7. LunInv' /\ BindingSound'
  <2>1. \A k \in LunSlots : lun[k].used => dev'[lun[k].dev] = dev[lun[k].dev]
    BY <1>0, <1>1, <1>2 DEF LunInv, TypeOK, BindingTypes
  <2>2. LunInv'
    BY <1>0, <2>1 DEF LunInv
  <2>3. \A b \in Blocks : blk[b].context \in LunSlots
    BY <1>0 DEF TypeOK, BindingTypes
  <2>4. BindingSound'
    BY <1>0, <2>1, <2>3 DEF BindingSound
  <2> QED BY <2>2, <2>4
<1> QED BY <1>3, <1>4, <1>5, <1>6, <1>7

LEMMA EnumStep ==
  ASSUME IInv, EnumPort
  PROVE  IInv'
<1>0. TypeOK
  BY DEF IInv
<1>1. /\ UNCHANGED <<plugged, events, lun, blk, DeviceCount, scanned, mounted>>
      /\ UNCHANGED <<pc, pass, gone, unit, last, found, new>>
      /\ pc = "enum" /\ pos \in Ports /\ pos' = pos + 1
  BY DEF EnumPort, Step
<1>2. BindingTypes' /\ MountTypes'
  BY <1>0, <1>1 DEF TypeOK, BindingTypes, MountTypes
<1>3. ASSUME quiet' \in BOOLEAN PROVE ScanTypes'
  BY <1>0, <1>1, <1>3 DEF TypeOK, ScanTypes
<1>4. CASE plugged[pos] # None /\ ~Known(pos) /\ \E i \in Devs : EnumerateOk(pos, i)
  <2>1. PICK i \in Devs : EnumerateOk(pos, i)
    BY <1>4
  <2>2. /\ DevTypes' /\ csc' \in [Ports -> BOOLEAN] /\ addressed' \in [Ports -> Devs \cup {None}]
        /\ AddressInv' /\ DeviceInv' /\ LunInv' /\ BindingSound'
    BY <1>1, <1>4, <2>1, EnumerateStep
  <2>3. PortTypes'
    BY <1>0, <1>1, <2>2 DEF TypeOK, PortTypes
  <2>4. quiet' \in BOOLEAN
    BY <1>0, <2>1 DEF EnumerateOk, TypeOK, ScanTypes
  <2> QED BY <1>2, <1>3, <2>2, <2>3, <2>4 DEF IInv, TypeOK
<1>5. CASE EnumerateFails(pos) \/ UNCHANGED <<dev, csc, addressed, quiet>>
  <2>1. UNCHANGED <<dev, addressed>> /\ csc' \in [Ports -> BOOLEAN] /\ quiet' \in BOOLEAN
    BY <1>0, <1>5 DEF EnumerateFails, TypeOK, PortTypes, ScanTypes
  <2>2. PortTypes'
    BY <1>0, <1>1, <2>1 DEF TypeOK, PortTypes
  <2> QED BY <1>1, <1>2, <1>3, <2>1, <2>2, Frame
<1> QED BY <1>4, <1>5 DEF EnumPort

(* DetachDevice cuts every reference to the entry it frees. *)
LEMMA DetachDeviceStep ==
  ASSUME IInv, NEW i \in Devs, DetachDevice(i), pc' # "probe",
         UNCHANGED <<plugged, DeviceCount>>
  PROVE  /\ DevTypes' /\ BindingTypes'
         /\ csc' \in [Ports -> BOOLEAN] /\ addressed' \in [Ports -> Devs \cup {None}]
         /\ AddressInv' /\ DeviceInv' /\ LunInv' /\ BindingSound'
<1>0. TypeOK /\ AddressInv /\ DeviceInv /\ LunInv /\ BindingSound
  BY DEF IInv
<1>1. /\ \A j \in Devs : /\ j # i => dev'[j] = dev[j]
                         /\ dev'[j].port = dev[j].port /\ dev'[j].drive = dev[j].drive
      /\ ~dev'[i].used
  BY <1>0 DEF DetachDevice, BlockRemove, XhciRelease, TypeOK, DevTypes
<1>2. \A p \in Ports : addressed'[p] = IF addressed[p] = i THEN None ELSE addressed[p]
  BY DEF DetachDevice, BlockRemove, XhciRelease
<1>3. DevTypes'
  BY <1>0 DEF DetachDevice, BlockRemove, XhciRelease, TypeOK, DevTypes
<1>4. csc' \in [Ports -> BOOLEAN] /\ addressed' \in [Ports -> Devs \cup {None}]
  BY <1>0 DEF DetachDevice, BlockRemove, XhciRelease, TypeOK, PortTypes
<1>5. BindingTypes'
  <2>1. lun' \in [LunSlots -> [used : BOOLEAN, alive : BOOLEAN, dev : Devs, unit : Nat,
                               block : Blocks \cup {-1}]]
    BY ZenonT(120), <1>0 DEF DetachDevice, BlockRemove, XhciRelease, TypeOK, BindingTypes
  <2>2. blk' \in [Blocks -> [online : BOOLEAN, context : LunSlots, drive : Drives \cup {None},
                             unit : Nat]]
    BY ZenonT(120), <1>0 DEF DetachDevice, BlockRemove, XhciRelease, TypeOK, BindingTypes
  <2> QED BY <1>0, <2>1, <2>2 DEF TypeOK, BindingTypes
<1>6. AddressInv'
  BY <1>0, <1>1, <1>2 DEF AddressInv, TypeOK, PortTypes
<1>7. DeviceInv'
  BY <1>0, <1>1 DEF DeviceInv, OneDevicePerPort
<1>8. \A k \in LunSlots :
        /\ lun[k].used /\ lun[k].dev = i => ~lun'[k].used /\ ~lun'[k].alive
        /\ ~(lun[k].used /\ lun[k].dev = i) => lun'[k] = lun[k]
        /\ lun'[k].dev = lun[k].dev /\ lun'[k].block = lun[k].block
        /\ lun[k].dev \in Devs
  BY <1>0 DEF DetachDevice, BlockRemove, XhciRelease, UnitsOf, TypeOK, BindingTypes
<1>9. \A b \in Blocks :
        /\ blk'[b].context = blk[b].context /\ blk'[b].context \in LunSlots
        /\ blk'[b].drive = blk[b].drive /\ blk'[b].unit = blk[b].unit
        /\ blk'[b].online =>
             /\ blk[b].online
             /\ \A k \in LunSlots :
                  lun[k].used /\ lun[k].dev = i /\ lun[k].alive => lun[k].block # b
  BY ZenonT(40), <1>0 DEF DetachDevice, BlockRemove, XhciRelease, UnitsOf, TypeOK, BindingTypes
<1>10. LunInv'
  <2>1. \A k \in LunSlots : lun'[k].used => dev'[lun'[k].dev].used
    BY <1>0, <1>1, <1>8 DEF LunInv
  <2>2. \A k \in LunSlots : lun'[k].alive => lun'[k] = lun[k]
    BY <1>0, <1>8 DEF LunInv
  <2> QED BY <1>0, <1>9, <2>1, <2>2 DEF LunInv
<1>11. BindingSound'
  <2> SUFFICES ASSUME NEW b \in Blocks, blk'[b].online
               PROVE  LET L == lun'[blk'[b].context]
                      IN  /\ b < DeviceCount'
                          /\ L.used /\ L.alive /\ L.block = b /\ L.unit = blk'[b].unit
                          /\ dev'[L.dev].used /\ dev'[L.dev].drive = blk'[b].drive
    BY DEF BindingSound
  <2> DEFINE k == blk[b].context
  <2>1. /\ k \in LunSlots /\ b < DeviceCount
        /\ lun[k].used /\ lun[k].alive /\ lun[k].block = b /\ lun[k].unit = blk[b].unit
        /\ dev[lun[k].dev].used /\ dev[lun[k].dev].drive = blk[b].drive
    BY <1>0, <1>9 DEF BindingSound
  <2>2. lun[k].dev # i
    BY <1>9, <2>1
  <2>3. lun'[k] = lun[k] /\ dev'[lun[k].dev] = dev[lun[k].dev]
    BY <1>1, <1>8, <2>1, <2>2
  <2> QED BY SMTT(30), <1>9, <2>1, <2>3
<1> QED BY <1>3, <1>4, <1>5, <1>6, <1>7, <1>10, <1>11

LEMMA DetachStep ==
  ASSUME IInv, DetachGone
  PROVE  IInv'
<1>0. TypeOK
  BY DEF IInv
<1>1. /\ UNCHANGED <<plugged, events, DeviceCount, scanned, mounted>>
      /\ UNCHANGED <<pc, pass, unit, last, found, new, quiet>>
      /\ pc = "detach" /\ pos \in Devs /\ pos' = pos + 1
  BY DEF DetachGone, Step
<1>2. gone' \in BOOLEAN
  BY <1>0 DEF DetachGone, TypeOK, ScanTypes
<1>3. ScanTypes' /\ MountTypes'
  BY <1>0, <1>1, <1>2 DEF TypeOK, ScanTypes, MountTypes
<1>4. CASE DetachDevice(pos)
  <2>1. /\ DevTypes' /\ BindingTypes'
        /\ csc' \in [Ports -> BOOLEAN] /\ addressed' \in [Ports -> Devs \cup {None}]
        /\ AddressInv' /\ DeviceInv' /\ LunInv' /\ BindingSound'
    BY <1>1, <1>4, DetachDeviceStep
  <2>2. PortTypes'
    BY <1>0, <1>1, <2>1 DEF TypeOK, PortTypes
  <2> QED BY <1>3, <2>1, <2>2 DEF IInv, TypeOK
<1>5. CASE UNCHANGED <<blk, lun, dev, csc, addressed, gone>>
  <2>1. PortTypes'
    BY <1>0, <1>1, <1>5 DEF TypeOK, PortTypes
  <2> QED BY <1>1, <1>3, <1>5, <2>1, Frame
<1> QED BY <1>4, <1>5 DEF DetachGone

LEMMA AttachStep ==
  ASSUME IInv, AttachDevice
  PROVE  IInv'
<1>0. TypeOK /\ DeviceInv
  BY DEF IInv
<1>1. UNCHANGED <<pass, gone, new>> /\ UNCHANGED ports /\ UNCHANGED tables /\ pos \in Devs
  BY DEF AttachDevice
<1>2. PortTypes' /\ MountTypes'
  BY <1>0, <1>1 DEF TypeOK, PortTypes, MountTypes, ports, tables
<1>3. /\ last' \in Nat /\ unit' \in Nat /\ found' \in Nat /\ quiet' \in BOOLEAN
      /\ pos' \in Nat /\ pc' \in {"attach", "probe"}
      /\ pc' = "probe" => pos' = pos /\ dev[pos].used
  <2>1. CASE dev[pos].used /\ Mass(dev[pos].drive) /\ ~dev[pos].attached
    <3>1. Slots[dev[pos].drive] \in Nat
      BY <1>0, <1>1, <2>1, Constants DEF DeviceInv
    <3>2. unit' = 0 /\ found' = 0 /\ pc' = "probe" /\ pos' = pos /\ pos \in Nat
      BY <1>0, <2>1 DEF AttachDevice, Goto, TypeOK, ScanTypes
    <3>3. last' = Slots[dev[pos].drive] - 1 \/ last' = 0
      BY <2>1 DEF AttachDevice
    <3>4. quiet' = quiet \/ quiet' = FALSE
      BY <2>1 DEF AttachDevice
    <3>5. Slots[dev[pos].drive] > 0
      BY <2>1 DEF Mass
    <3>6. last' \in Nat
      BY <3>1, <3>3, <3>5
    <3> QED BY <1>0, <2>1, <3>2, <3>4, <3>6 DEF TypeOK, ScanTypes
  <2>2. CASE ~(dev[pos].used /\ Mass(dev[pos].drive) /\ ~dev[pos].attached)
    BY <1>0, <2>2 DEF AttachDevice, Step, TypeOK, ScanTypes
  <2> QED BY <2>1, <2>2
<1>4. ScanTypes'
  BY <1>0, <1>1, <1>3 DEF TypeOK, ScanTypes
<1> QED BY <1>1, <1>2, <1>3, <1>4, Frame DEF ports, tables

(* ProbeLun binds a free LUN entry and the next block device to each other. *)
LEMMA ProbeLunStep ==
  ASSUME IInv, NEW i \in Devs, dev[i].used, NEW u \in Nat, ProbeLun(i, u),
         \A j \in Devs : dev'[j].used = dev[j].used /\ dev'[j].drive = dev[j].drive
  PROVE  /\ BindingTypes' /\ new' \in Seq(Blocks) /\ found' \in Nat /\ quiet' \in BOOLEAN
         /\ LunInv' /\ BindingSound'
<1>0. TypeOK /\ DeviceInv /\ LunInv /\ BindingSound
  BY DEF IInv
<1>1. /\ \A k \in LunSlots : lun[k].dev \in Devs
      /\ \A b \in Blocks : blk[b].context \in LunSlots
      /\ DeviceCount \in Nat /\ new \in Seq(Blocks) /\ found \in Nat /\ quiet \in BOOLEAN
  BY <1>0, HotPlugConstants DEF TypeOK, BindingTypes, ScanTypes
<1>2. ASSUME NEW k \in LunSlots, FreeLun(k), BlockRegister(k, i, u),
             found' = found + 1, quiet' = quiet
      PROVE  /\ BindingTypes' /\ new' \in Seq(Blocks) /\ found' \in Nat /\ quiet' \in BOOLEAN
             /\ LunInv' /\ BindingSound'
  <2> DEFINE b == DeviceCount
  <2>1. b \in Blocks /\ b < MaxBlocks /\ dev[i].drive \in Drives /\ ~lun[k].used
    BY <1>0, <1>1, <1>2, Constants DEF BlockRegister, DeviceInv, FreeLun
  <2>2. /\ lun'[k] = [used |-> TRUE, alive |-> TRUE, dev |-> i, unit |-> u, block |-> b]
        /\ \A j \in LunSlots : j # k => lun'[j] = lun[j]
        /\ blk'[b] = [online |-> TRUE, context |-> k, drive |-> dev[i].drive, unit |-> u]
        /\ \A c \in Blocks : c # b => blk'[c] = blk[c]
        /\ DeviceCount' = b + 1
    BY <1>0, <1>2, <2>1 DEF BlockRegister, TypeOK, BindingTypes
  <2>3. BindingTypes'
    <3>1. lun' \in [LunSlots -> [used : BOOLEAN, alive : BOOLEAN, dev : Devs, unit : Nat,
                                 block : Blocks \cup {-1}]]
      BY <1>0, <1>2, <2>1 DEF BlockRegister, TypeOK, BindingTypes
    <3>2. blk' \in [Blocks -> [online : BOOLEAN, context : LunSlots, drive : Drives \cup {None},
                               unit : Nat]]
      BY <1>0, <1>2, <2>1 DEF BlockRegister, TypeOK, BindingTypes
    <3>3. DeviceCount' \in 0..MaxBlocks
      BY <1>1, <2>1, <2>2, HotPlugConstants
    <3> QED BY <3>1, <3>2, <3>3 DEF BindingTypes
  <2>4. new' \in Seq(Blocks)
    BY <1>1, <1>2, <2>1 DEF BlockRegister
  <2>5. LunInv'
    <3>1. \A j \in LunSlots : lun'[j].used => dev'[lun'[j].dev].used
      BY <1>0, <1>1, <2>2 DEF LunInv
    <3>2. \A j \in LunSlots : j # k /\ lun[j].alive => lun[j].block \in Blocks /\ lun[j].block # b
      BY <1>0, <1>1, Constants DEF LunInv
    <3>3. \A j \in LunSlots : j # k /\ lun'[j].alive =>
            /\ lun'[j].used /\ blk'[lun'[j].block].context = j
            /\ lun'[j].block \in Blocks /\ lun'[j].block < DeviceCount
      BY <1>0, <2>2, <3>2 DEF LunInv
    <3>4. /\ lun'[k].used /\ blk'[lun'[k].block].context = k
          /\ lun'[k].block \in Blocks /\ lun'[k].block = DeviceCount
      BY <2>1, <2>2
    <3>5. \A n \in Blocks : n < DeviceCount => n < DeviceCount'
      BY <1>1, <2>2, Constants
    <3>6. DeviceCount < DeviceCount'
      BY <1>1, <2>2
    <3> QED BY <3>1, <3>3, <3>4, <3>5, <3>6 DEF LunInv
  <2>6. BindingSound'
    <3>1. \A c \in Blocks : c # b /\ blk[c].online => blk[c].context # k
      BY <1>0, <2>1 DEF BindingSound
    <3>2. \A c \in Blocks : c # b /\ blk[c].online =>
            lun'[blk'[c].context] = lun[blk[c].context] /\ blk'[c] = blk[c]
      BY <1>1, <2>2, <3>1
    <3>3. \A c \in Blocks : c < DeviceCount => c < DeviceCount'
      BY <1>1, <2>2, Constants
    <3> SUFFICES ASSUME NEW c \in Blocks, blk'[c].online
                 PROVE  LET L == lun'[blk'[c].context]
                        IN  /\ c < DeviceCount'
                            /\ L.used /\ L.alive /\ L.block = c /\ L.unit = blk'[c].unit
                            /\ dev'[L.dev].used /\ dev'[L.dev].drive = blk'[c].drive
      BY DEF BindingSound
    <3>4. CASE c = b
      <4>1. b < DeviceCount'
        BY <1>1, <2>2
      <4> QED BY <1>1, <2>1, <2>2, <3>4, <4>1
    <3>5. CASE c # b
      <4>1. blk[c].online /\ lun[blk[c].context].dev \in Devs
        BY <1>1, <2>2, <3>5
      <4>2. LET L == lun[blk[c].context]
            IN  /\ c < DeviceCount
                /\ L.used /\ L.alive /\ L.block = c /\ L.unit = blk[c].unit
                /\ dev[L.dev].used /\ dev[L.dev].drive = blk[c].drive
        BY <1>0, <4>1 DEF BindingSound
      <4> QED BY <3>2, <3>3, <3>5, <4>1, <4>2
    <3> QED BY <3>4, <3>5
  <2> QED BY <1>1, <1>2, <2>3, <2>4, <2>5, <2>6
<1>3. ASSUME lun' = [k \in LunSlots |->
               IF FreeLun(k)
                 THEN [used |-> FALSE, alive |-> FALSE, dev |-> i, unit |-> u, block |-> -1]
                 ELSE lun[k]],
             UNCHANGED <<blk, DeviceCount, new, found>>, quiet' \in BOOLEAN
      PROVE  /\ BindingTypes' /\ new' \in Seq(Blocks) /\ found' \in Nat /\ quiet' \in BOOLEAN
             /\ LunInv' /\ BindingSound'
  <2>1. \A k \in LunSlots :
          /\ lun[k].used => lun'[k] = lun[k]
          /\ lun'[k].used => lun'[k] = lun[k]
          /\ lun'[k].alive => lun'[k] = lun[k]
    BY <1>3 DEF FreeLun
  <2>2. BindingTypes'
    <3> DEFINE Entries == [used : BOOLEAN, alive : BOOLEAN, dev : Devs, unit : Nat,
                           block : Blocks \cup {-1}]
    <3>2. [used |-> FALSE, alive |-> FALSE, dev |-> i, unit |-> u, block |-> -1] \in Entries
      OBVIOUS
    <3>3. lun \in [LunSlots -> Entries]
      BY <1>0 DEF TypeOK, BindingTypes
    <3>4. lun' \in [LunSlots -> Entries]
      <4> HIDE DEF Entries
      <4> QED BY <1>3, <3>2, <3>3
    <3> QED BY <1>0, <1>3, <3>4 DEF TypeOK, BindingTypes
  <2>3. LunInv'
    BY <1>0, <1>1, <1>3, <2>1 DEF LunInv
  <2>4. BindingSound'
    <3>1. \A b \in Blocks : blk[b].online =>
            /\ blk'[b] = blk[b] /\ lun'[blk[b].context] = lun[blk[b].context]
            /\ lun[blk[b].context].dev \in Devs
      BY <1>0, <1>1, <1>3, <2>1 DEF BindingSound
    <3>2. blk' = blk /\ DeviceCount' = DeviceCount
      BY <1>3
    <3> QED BY <1>0, <3>1, <3>2 DEF BindingSound
  <2> QED BY <1>1, <1>3, <2>2, <2>3, <2>4
<1>4. CASE \E k \in LunSlots : FreeLun(k) /\ BlockRegister(k, i, u) /\ found' = found + 1 /\ quiet' = quiet
  BY <1>2, <1>4
<1>5. CASE lun' = [k \in LunSlots |->
             IF FreeLun(k)
                 THEN [used |-> FALSE, alive |-> FALSE, dev |-> i, unit |-> u, block |-> -1]
                 ELSE lun[k]]
           /\ UNCHANGED <<blk, DeviceCount, new, found>>
           /\ quiet' = (quiet /\ ~(Ready(i, u) /\ Room))
  BY <1>1, <1>3, <1>5
<1> QED BY <1>4, <1>5 DEF ProbeLun

LEMMA ProbeStep ==
  ASSUME IInv, ProbeUnit
  PROVE  IInv'
<1>0. TypeOK /\ AddressInv /\ DeviceInv
  BY DEF IInv
<1>1. /\ pc = "probe" /\ pos \in Devs /\ dev[pos].used /\ unit \in Nat /\ ProbeLun(pos, unit)
      /\ UNCHANGED <<pass, gone, last, scanned, mounted>> /\ UNCHANGED ports
  BY <1>0 DEF ProbeUnit, DeviceInv, TypeOK, ScanTypes
<1>2. /\ DevTypes'
      /\ \A j \in Devs : /\ dev'[j].used = dev[j].used
                         /\ dev'[j].port = dev[j].port /\ dev'[j].drive = dev[j].drive
  <2>1. CASE dev' = dev
    BY <1>0, <2>1 DEF TypeOK, DevTypes
  <2>2. CASE dev' = [dev EXCEPT ![pos].attached = TRUE]
    BY <1>0, <2>2 DEF TypeOK, DevTypes
  <2> QED BY <2>1, <2>2 DEF ProbeUnit
<1>3. /\ BindingTypes' /\ new' \in Seq(Blocks) /\ found' \in Nat /\ quiet' \in BOOLEAN
      /\ LunInv' /\ BindingSound'
  BY <1>1, <1>2, ProbeLunStep
<1>4. unit' \in Nat /\ pos' \in Nat /\ pc' \in {"probe", "attach"} /\ (pc' = "probe" => pos' = pos)
  BY <1>0, <1>1 DEF ProbeUnit, Goto, TypeOK, ScanTypes
<1>5. TypeOK'
  <2>1. PortTypes' /\ MountTypes'
    BY <1>0, <1>1 DEF TypeOK, PortTypes, MountTypes, ports
  <2>2. ScanTypes'
    BY <1>0, <1>1, <1>3, <1>4 DEF TypeOK, ScanTypes
  <2> QED BY <1>2, <1>3, <2>1, <2>2 DEF TypeOK
<1>6. AddressInv'
  BY <1>0, <1>1, <1>2 DEF AddressInv, ports, TypeOK, PortTypes
<1>7. DeviceInv'
  BY <1>0, <1>1, <1>2, <1>4 DEF DeviceInv, OneDevicePerPort
<1> QED BY <1>3, <1>5, <1>6, <1>7 DEF IInv

------------------------------------------------------------------------------

LEMMA StutterStep ==
  ASSUME IInv, UNCHANGED vars
  PROVE  IInv'
<1>1. TypeOK'
  BY DEF IInv, TypeOK, PortTypes, DevTypes, BindingTypes, ScanTypes, MountTypes,
         vars, ports, tables, scan
<1>2. AddressInv' /\ DeviceInv' /\ LunInv' /\ BindingSound'
  BY DEF IInv, AddressInv, DeviceInv, OneDevicePerPort, LunInv, BindingSound,
         vars, ports, tables, scan
<1> QED BY <1>1, <1>2 DEF IInv

(* Every step of the user and of the scan preserves the invariant. *)
THEOREM StepInv == IInv /\ [Next]_vars => IInv'
BY UserStep, ControlStep, MountStep, MarkStep, EnumStep, DetachStep, AttachStep, ProbeStep,
   StutterStep DEF Next, Scan

(* The invariant holds in every state the system reaches. *)
THEOREM SpecInv == Spec => []IInv
BY InitInv, StepInv, PTL DEF Spec

(* The ports, the tables and the scan's cursors stay within their types:   *)
(* no table is written past its last entry.                                *)
THEOREM TypeCorrect == Spec => []TypeOK
<1>1. IInv => TypeOK
  BY DEF IInv
<1> QED BY <1>1, SpecInv, PTL

(* A block device that is online, its LUN entry and its device table entry *)
(* always agree on the drive (BlockRegister, ProbeLun, DetachDevice).      *)
THEOREM BindingCorrect == Spec => []BindingSound
<1>1. IInv => BindingSound
  BY DEF IInv
<1> QED BY <1>1, SpecInv, PTL

(* No port ever has two entries of the device table (XhciRescan). *)
THEOREM OneDevice == Spec => []OneDevicePerPort
<1>1. IInv => OneDevicePerPort
  BY DEF IInv, DeviceInv
<1> QED BY <1>1, SpecInv, PTL

LEMMA ReadsInv == IInv => ReadsTheRightDrive
<1> SUFFICES ASSUME IInv, NEW b \in Blocks, Delivers(b) # <<>>
             PROVE  Delivers(b) = <<blk[b].drive, blk[b].unit>>
  BY DEF ReadsTheRightDrive
<1> DEFINE L == lun[blk[b].context]
           p == dev[L.dev].port
<1>1. blk[b].online /\ addressed[p] = L.dev /\ Delivers(b) = <<plugged[p], L.unit>>
  BY DEF Delivers
<1>2. L.used /\ L.unit = blk[b].unit /\ dev[L.dev].used /\ dev[L.dev].drive = blk[b].drive
  BY <1>1 DEF IInv, BindingSound
<1>3. L.dev \in Devs
  BY DEF IInv, TypeOK, BindingTypes
<1>4. p \in Ports /\ addressed[p] # None
  BY <1>1, <1>2, <1>3, Constants DEF IInv, DeviceInv
<1>5. plugged[p] = blk[b].drive
  BY <1>1, <1>2, <1>4 DEF IInv, AddressInv
<1> QED BY <1>1, <1>2, <1>5

(* Whatever is unplugged, plugged in and scanned, in any order, a read of  *)
(* a block device returns the data of the drive and unit it was registered *)
(* for, or fails.                                                          *)
THEOREM ReadsRight == Spec => []ReadsTheRightDrive
BY ReadsInv, SpecInv, PTL

(* A block device's entry only ever goes offline: BlockRegister writes the *)
(* entry after the last one.                                               *)
LEMMA IndexStep ==
  ASSUME IInv, Next, NEW b \in Blocks, b < DeviceCount
  PROVE  /\ blk'[b].context = blk[b].context
         /\ blk'[b].drive = blk[b].drive
         /\ blk'[b].online => blk[b].online
<1>0. BindingTypes
  BY DEF IInv, TypeOK
<1>1. CASE UNCHANGED blk
  BY <1>1
<1>2. ASSUME NEW i \in Devs, DetachDevice(i)
      PROVE  /\ blk'[b].context = blk[b].context /\ blk'[b].drive = blk[b].drive
             /\ blk'[b].online => blk[b].online
  <2>1. blk'[b] = [blk[b] EXCEPT !.online = FALSE] \/ blk'[b] = blk[b]
    BY <1>2 DEF DetachDevice, BlockRemove, XhciRelease
  <2>2. blk[b] \in [online : BOOLEAN, context : LunSlots, drive : Drives \cup {None}, unit : Nat]
    BY <1>0 DEF BindingTypes
  <2> QED BY <2>1, <2>2
<1>3. ASSUME NEW k \in LunSlots, NEW i \in Devs, NEW u \in Nat, BlockRegister(k, i, u)
      PROVE  blk'[b] = blk[b]
  <2>1. DeviceCount # b
    BY <1>0, Constants, HotPlugConstants DEF BindingTypes
  <2> QED BY <1>0, <1>3, <2>1 DEF BlockRegister, BindingTypes
<1>4. UNCHANGED blk \/ (\E i \in Devs : DetachDevice(i))
        \/ (\E k \in LunSlots, i \in Devs, u \in Nat : BlockRegister(k, i, u))
  <2>1. ASSUME User \/ StartScan PROVE UNCHANGED blk
    BY <2>1 DEF User, Plug, Unplug, RemoveCard, InsertCard, StartScan, tables
  <2>2. ASSUME MarkGone \/ MarkDone \/ EnumPort \/ EnumDone \/ DetachDone \/ AttachDevice
                 \/ AttachDone \/ MountNew \/ MountDone
        PROVE  UNCHANGED blk
    BY <2>2 DEF MarkGone, MarkDone, EnumPort, EnumDone, DetachDone, AttachDevice, AttachDone,
                MountNew, MountDone, tables
  <2>3. CASE DetachGone
    BY <2>3 DEF DetachGone
  <2>4. CASE ProbeUnit
    <3>1. pos \in Devs /\ unit \in Nat /\ ProbeLun(pos, unit)
      BY <2>4 DEF ProbeUnit, IInv, DeviceInv, TypeOK, ScanTypes
    <3> QED BY <3>1 DEF ProbeLun
  <2> QED BY <2>1, <2>2, <2>3, <2>4 DEF Next, Scan
<1> QED BY <1>1, <1>2, <1>3, <1>4

(* For the whole session the index of a block device names the one drive   *)
(* it was registered for, and never comes back online once that drive has  *)
(* gone: what the partition table and the volumes remember stays right.    *)
THEOREM IndexNeverReused == Spec => NoIndexReuse
<1>1. IInv /\ [Next]_vars => [IndexKept]_vars
  <2>1. IInv /\ Next => IndexKept
    BY IndexStep DEF IndexKept
  <2> QED BY <2>1
<1> QED BY <1>1, SpecInv, PTL DEF Spec, NoIndexReuse

------------------------------------------------------------------------------
(* What an undisturbed scan leaves behind. *)

(* A device whose port lost its address is known by the change bit. *)
Lost == \A i \in Devs : dev[i].used => addressed[dev[i].port] = i \/ csc[dev[i].port]

(* A LUN entry that is alive has its block device online, and its unit is  *)
(* one of the drive's.                                                     *)
Whole(k) == blk[lun[k].block].online /\ lun[k].unit \in Units(dev[lun[k].dev].drive)

Works(i) == \E k \in UnitsOf(i) : lun[k].alive

AliveInv ==
  /\ \A k \in LunSlots : lun[k].alive => Whole(k)
  /\ \A i \in Devs : dev[i].used /\ dev[i].attached => Works(i)
  /\ pc = "probe" => ~dev[pos].attached /\ (found > 0 => Works(pos))

(* Only a reader's cards come and go. *)
CardInv ==
  /\ card = [d \in Drives |-> card[d]]
  /\ \A d \in Drives \ Readers : \A u \in Units(d) : card[d][u] # None

(* The loops start at their first element, and a new drive is either in    *)
(* the list the scan is making, still to be mounted, or was handed on.     *)
Pending(b) ==
  /\ pc \in {"attach", "probe", "mount"}
  /\ \E m \in DOMAIN new : new[m] = b /\ (pc = "mount" => m >= pos)

OfferInv ==
  /\ pc \in {"enum", "mount"} => pos > 0
  /\ Len(new) <= DeviceCount
  /\ DeviceCount <= MaxNew => \A b \in Blocks : b < DeviceCount => b \in scanned \/ Pending(b)

(* How far an undisturbed scan has come.  A device is seen when it is      *)
(* either marked gone or still in its port, here when it is in its port,   *)
(* and asked when its drive of fixed media was attached.                   *)
Present(i) == plugged[dev[i].port] # None /\ ~csc[dev[i].port]
Seen(i) == dev[i].used /\ ~dev[i].gone => Present(i)
Here(i) == dev[i].used => ~dev[i].gone /\ Present(i)
Asked(i) == dev[i].used /\ Mass(dev[i].drive) /\ dev[i].drive \notin Readers => dev[i].attached

AllSeen == \A i \in Devs : Seen(i)
AllHere == \A i \in Devs : Here(i)
AllKnown == \A p \in Ports : plugged[p] # None => Known(p)

MarkQuiet ==
  /\ \A i \in Devs : i < pos => Seen(i)
  /\ pass = 1 => ~gone
  /\ pass = 2 => AllHere

EnumQuiet ==
  /\ AllSeen
  /\ \A p \in Ports : p < pos /\ plugged[p] # None => Known(p)
  /\ pass = 1 => ~gone
  /\ pass = 2 => AllHere

DetachQuiet ==
  /\ pass = 1 /\ AllSeen
  /\ ~gone => AllKnown
  /\ \A i \in Devs : i < pos => Here(i)

AttachQuiet == AllKnown /\ AllHere /\ (Room => \A i \in Devs : i < pos => Asked(i))

ProbeQuiet == last = Slots[dev[pos].drive] - 1 /\ unit <= last

DoneQuiet == AllKnown /\ AllHere /\ (Room => \A i \in Devs : Asked(i))

QuietInv == quiet =>
  /\ pc = "mark" => MarkQuiet
  /\ pc = "enum" => EnumQuiet
  /\ pc = "detach" => DetachQuiet
  /\ pc \in {"attach", "probe"} => AttachQuiet
  /\ pc = "probe" => ProbeQuiet
  /\ pc \in {"mount", "idle"} => DoneQuiet

ScanInv == IInv /\ Lost /\ AliveInv /\ CardInv /\ OfferInv /\ QuietInv

------------------------------------------------------------------------------

LEMMA InitScan == Init => ScanInv
<1> SUFFICES ASSUME Init PROVE ScanInv
  OBVIOUS
<1>1. Lost /\ AliveInv /\ QuietInv
  BY DEF Init, Lost, AliveInv, QuietInv, NoDev, NoLun
<1>2. CardInv
  <2>1. (CHOOSE c \in Cards : TRUE) # None
    BY HotPlugConstants
  <2> QED BY <2>1 DEF Init, InitialCards, CardInv
<1>3. OfferInv
  <2>1. \A b \in Blocks : ~(b < 0)
    BY DEF Blocks
  <2>2. Len(new) = 0 /\ DeviceCount = 0 /\ pc = "idle"
    BY DEF Init
  <2> QED BY <2>1, <2>2 DEF OfferInv
<1> QED BY <1>1, <1>2, <1>3, InitInv DEF ScanInv

(* What freeing and filling an entry of the device table changes. *)
LEMMA DetachEffect ==
  ASSUME IInv, NEW i \in Devs, DetachDevice(i)
  PROVE  /\ ~dev'[i].used
         /\ \A j \in Devs : j # i => dev'[j] = dev[j]
         /\ \A p \in Ports : csc'[p] => csc[p]
         /\ \A p \in Ports : p # dev[i].port => csc'[p] = csc[p]
         /\ \A p \in Ports : addressed[p] # i => addressed'[p] = addressed[p]
         /\ \A k \in LunSlots :
              IF lun[k].used /\ lun[k].dev = i THEN ~lun'[k].used /\ ~lun'[k].alive
                                               ELSE lun'[k] = lun[k]
         /\ \A b \in Blocks :
              (\A k \in LunSlots : lun[k].used /\ lun[k].dev = i /\ lun[k].alive => lun[k].block # b)
                => blk'[b] = blk[b]
<1>0. PortTypes /\ DevTypes /\ BindingTypes
  BY DEF IInv, TypeOK
<1>1. /\ ~dev'[i].used
      /\ \A j \in Devs : j # i => dev'[j] = dev[j]
  BY Zenon, <1>0 DEF DetachDevice, BlockRemove, XhciRelease, DevTypes
<1>2. /\ \A p \in Ports : csc'[p] => csc[p]
      /\ \A p \in Ports : p # dev[i].port => csc'[p] = csc[p]
  BY Zenon, <1>0 DEF DetachDevice, BlockRemove, XhciRelease, PortTypes
<1>3. \A p \in Ports : addressed[p] # i => addressed'[p] = addressed[p]
  BY Zenon, <1>0 DEF DetachDevice, BlockRemove, XhciRelease, PortTypes
<1>4. \A k \in LunSlots :
        IF lun[k].used /\ lun[k].dev = i THEN ~lun'[k].used /\ ~lun'[k].alive
                                         ELSE lun'[k] = lun[k]
  <2> SUFFICES ASSUME NEW k \in LunSlots
               PROVE  IF lun[k].used /\ lun[k].dev = i THEN ~lun'[k].used /\ ~lun'[k].alive
                                                       ELSE lun'[k] = lun[k]
    OBVIOUS
  <2>1. lun'[k] = IF lun[k].used /\ lun[k].dev = i 
                 THEN [lun[k] EXCEPT !.alive = FALSE, !.used = FALSE] ELSE lun[k]
    BY Zenon DEF DetachDevice, BlockRemove, XhciRelease, UnitsOf
  <2>2. lun[k] \in [used : BOOLEAN, alive : BOOLEAN, dev : Devs, unit : Nat, block : Blocks \cup {-1}]
    BY <1>0 DEF BindingTypes
  <2> QED BY <2>1, <2>2
<1>5. \A b \in Blocks :
        (\A k \in LunSlots : lun[k].used /\ lun[k].dev = i /\ lun[k].alive => lun[k].block # b)
          => blk'[b] = blk[b]
  BY Zenon DEF DetachDevice, BlockRemove, XhciRelease, UnitsOf
<1> QED BY <1>1, <1>2, <1>3, <1>4, <1>5

LEMMA EnumerateEffect ==
  ASSUME IInv, NEW p \in Ports, NEW i \in Devs, EnumerateOk(p, i)
  PROVE  /\ ~dev[i].used
         /\ dev'[i].used /\ ~dev'[i].gone /\ ~dev'[i].attached /\ dev'[i].port = p
         /\ \A j \in Devs : j # i => dev'[j] = dev[j]
         /\ ~csc'[p] /\ addressed'[p] = i
         /\ \A q \in Ports : q # p => csc'[q] = csc[q] /\ addressed'[q] = addressed[q]
BY DEF IInv, TypeOK, PortTypes, DevTypes, EnumerateOk, FreeDev

LEMMA FailEffect ==
  ASSUME IInv, NEW p \in Ports, EnumerateFails(p)
  PROVE  /\ \A q \in Ports : q # p => csc'[q] = csc[q]
         /\ ~quiet' /\ UNCHANGED <<dev, addressed>>
BY DEF IInv, TypeOK, PortTypes, EnumerateFails

(* ProbeUnit writes the attached flag of the drive it probes, a LUN entry  *)
(* that was free, and the block device after the last one.                 *)
LEMMA ProbeEffect ==
  ASSUME IInv, ProbeUnit
  PROVE  /\ \A j \in Devs : /\ dev'[j].used = dev[j].used /\ dev'[j].gone = dev[j].gone
                            /\ dev'[j].port = dev[j].port /\ dev'[j].drive = dev[j].drive
                            /\ j # pos => dev'[j].attached = dev[j].attached
         /\ IF unit < last THEN pc' = "probe" /\ pos' = pos /\ unit' = unit + 1 /\ dev' = dev
                           ELSE /\ pc' = "attach" /\ pos' = pos + 1
                                /\ dev'[pos].attached <=> dev[pos].attached \/ found' > 0
         /\ \A k \in LunSlots : lun[k].used => lun'[k] = lun[k]
         /\ \A b \in Blocks : b < DeviceCount => blk'[b] = blk[b]
         /\ \/ /\ Ready(pos, unit) /\ found' = found + 1 /\ quiet' = quiet
               /\ DeviceCount < MaxBlocks /\ DeviceCount' = DeviceCount + 1
               /\ new' = IF Len(new) < MaxNew THEN Append(new, DeviceCount) ELSE new
               /\ blk'[DeviceCount].online
               /\ \E k \in LunSlots :
                    /\ FreeLun(k) /\ \A j \in LunSlots : j # k => lun'[j] = lun[j]
                    /\ lun'[k].used /\ lun'[k].alive /\ lun'[k].dev = pos
                    /\ lun'[k].unit = unit /\ lun'[k].block = DeviceCount
            \/ /\ quiet' => quiet /\ ~(Ready(pos, unit) /\ Room)
               /\ found' = found /\ DeviceCount' = DeviceCount /\ new' = new /\ blk' = blk
               /\ \A k \in LunSlots : lun'[k].used = lun[k].used /\ (lun'[k].alive => lun[k].used)
<1>0. TypeOK /\ DeviceInv /\ pos \in Devs /\ unit \in Nat
  BY DEF IInv, ProbeUnit, DeviceInv, TypeOK, ScanTypes
<1>1. /\ \A j \in Devs : /\ dev'[j].used = dev[j].used /\ dev'[j].gone = dev[j].gone
                         /\ dev'[j].port = dev[j].port /\ dev'[j].drive = dev[j].drive
                         /\ j # pos => dev'[j].attached = dev[j].attached
      /\ IF unit < last THEN pc' = "probe" /\ pos' = pos /\ unit' = unit + 1 /\ dev' = dev
                        ELSE /\ pc' = "attach" /\ pos' = pos + 1
                             /\ dev'[pos].attached <=> dev[pos].attached \/ found' > 0
  <2>1. CASE unit < last
    BY <2>1 DEF ProbeUnit
  <2>2. CASE ~(unit < last)
    <3>1. /\ pc' = "attach" /\ pos' = pos + 1
          /\ dev' = IF found' > 0 THEN [dev EXCEPT ![pos].attached = TRUE] ELSE dev
      BY <2>2 DEF ProbeUnit, Goto
    <3>2. CASE found' > 0
      BY <1>0, <2>2, <3>1, <3>2 DEF TypeOK, DevTypes
    <3>3. CASE ~(found' > 0)
      BY <2>2, <3>1, <3>3
    <3> QED BY <3>2, <3>3
  <2> QED BY <2>1, <2>2
<1>2. ASSUME NEW k \in LunSlots, FreeLun(k), BlockRegister(k, pos, unit)
      PROVE  /\ \A j \in LunSlots : j # k => lun'[j] = lun[j]
             /\ lun'[k].used /\ lun'[k].alive /\ lun'[k].dev = pos
             /\ lun'[k].unit = unit /\ lun'[k].block = DeviceCount
             /\ \A b \in Blocks : b < DeviceCount => blk'[b] = blk[b]
             /\ blk'[DeviceCount].online /\ DeviceCount < MaxBlocks /\ DeviceCount' = DeviceCount + 1
             /\ new' = IF Len(new) < MaxNew THEN Append(new, DeviceCount) ELSE new
  <2>1. DeviceCount \in Blocks /\ DeviceCount < MaxBlocks
    BY <1>0, <1>2, Constants, HotPlugConstants DEF BlockRegister, TypeOK, BindingTypes
  <2>2. /\ \A j \in LunSlots : j # k => lun'[j] = lun[j]
        /\ lun'[k] = [used |-> TRUE, alive |-> TRUE, dev |-> pos, unit |-> unit, block |-> DeviceCount]
    BY <1>0, <1>2 DEF BlockRegister, TypeOK, BindingTypes
  <2>3. /\ \A b \in Blocks : b # DeviceCount => blk'[b] = blk[b]
        /\ blk'[DeviceCount] = [online |-> TRUE, context |-> k, drive |-> dev[pos].drive, unit |-> unit]
    BY <1>0, <1>2, <2>1 DEF BlockRegister, TypeOK, BindingTypes
  <2>4. \A b \in Blocks : b < DeviceCount => b # DeviceCount
    BY DEF Blocks
  <2>5. /\ DeviceCount' = DeviceCount + 1
        /\ new' = IF Len(new) < MaxNew THEN Append(new, DeviceCount) ELSE new
    BY <1>2 DEF BlockRegister
  <2> QED BY <2>1, <2>2, <2>3, <2>4, <2>5
<1>3. CASE Ready(pos, unit) /\ (\E k \in LunSlots : FreeLun(k) /\ BlockRegister(k, pos, unit))
           /\ found' = found + 1 /\ quiet' = quiet
  <2>1. PICK k \in LunSlots : FreeLun(k) /\ BlockRegister(k, pos, unit)
    BY <1>3
  <2>2. \A j \in LunSlots : lun[j].used => j # k
    BY <2>1 DEF FreeLun
  <2> HIDE DEF FreeLun, BlockRegister, Ready
  <2>3. /\ \A j \in LunSlots : j # k => lun'[j] = lun[j]
        /\ lun'[k].used /\ lun'[k].alive /\ lun'[k].dev = pos
        /\ lun'[k].unit = unit /\ lun'[k].block = DeviceCount
        /\ \A b \in Blocks : b < DeviceCount => blk'[b] = blk[b]
        /\ blk'[DeviceCount].online /\ DeviceCount < MaxBlocks /\ DeviceCount' = DeviceCount + 1
        /\ new' = IF Len(new) < MaxNew THEN Append(new, DeviceCount) ELSE new
    BY <1>2, <2>1
  <2>4. \A j \in LunSlots : lun[j].used => lun'[j] = lun[j]
    BY <2>2, <2>3
  <2>5. \E j \in LunSlots :
          /\ FreeLun(j) /\ \A m \in LunSlots : m # j => lun'[m] = lun[m]
          /\ lun'[j].used /\ lun'[j].alive /\ lun'[j].dev = pos
          /\ lun'[j].unit = unit /\ lun'[j].block = DeviceCount
    BY <2>1, <2>3
  <2> QED BY <1>1, <1>3, <2>3, <2>4, <2>5
<1>4. CASE /\ quiet' = (quiet /\ ~(Ready(pos, unit) /\ Room))
           /\ lun' = [k \in LunSlots |->
                IF FreeLun(k)
                  THEN [used |-> FALSE, alive |-> FALSE, dev |-> pos, unit |-> unit, block |-> -1]
                  ELSE lun[k]]
           /\ UNCHANGED <<blk, DeviceCount, new, found>>
  <2>1. \A k \in LunSlots :
          /\ lun'[k].used = lun[k].used
          /\ lun[k].used => lun'[k] = lun[k]
          /\ lun'[k].alive => lun'[k] = lun[k]
    BY <1>0, <1>4 DEF FreeLun, TypeOK, BindingTypes
  <2>2. \A k \in LunSlots : lun[k].alive => lun[k].used
    BY DEF IInv, LunInv
  <2>3. quiet' => quiet /\ ~(Ready(pos, unit) /\ Room)
    BY <1>4
  <2>4. \A k \in LunSlots : lun'[k].used = lun[k].used /\ (lun'[k].alive => lun[k].used)
    BY <2>1, <2>2
  <2> HIDE DEF Ready, Room
  <2> QED BY <1>1, <1>4, <2>1, <2>3, <2>4
<1> QED BY <1>0, <1>3, <1>4 DEF ProbeUnit, ProbeLun

LEMMA CardStep ==
  ASSUME CardInv, [Next]_vars
  PROVE  CardInv'
<1>1. CASE UNCHANGED card
  BY <1>1 DEF CardInv
<1>2. ASSUME NEW d \in Readers, NEW u \in Units(d),
             RemoveCard(d, u) \/ \E c \in Cards : InsertCard(d, u, c)
      PROVE  CardInv'
  <2>1. PICK x : card' = [card EXCEPT ![d] = x]
    BY <1>2 DEF RemoveCard, InsertCard
  <2>2. d \in Drives
    BY HotPlugConstants
  <2>3. /\ card' = [e \in Drives |-> card'[e]]
        /\ \A e \in Drives : e # d => card'[e] = card[e]
    BY <2>1, <2>2 DEF CardInv
  <2> QED BY <2>3 DEF CardInv
<1>3. ASSUME [Next]_vars
      PROVE  UNCHANGED card \/ \E d \in Readers : \E u \in Units(d) :
               RemoveCard(d, u) \/ \E c \in Cards : InsertCard(d, u, c)
  BY <1>3 DEF Next, User, Plug, Unplug, StartScan, Scan, MarkGone, MarkDone, EnumPort, EnumDone,
     DetachGone, DetachDone, AttachDevice, ProbeUnit, AttachDone, MountNew, MountDone, vars, ports
<1> QED BY <1>1, <1>2, <1>3

(* A step that is not the user's, an enumeration's or a removal's changes  *)
(* no port and no entry but for its flags.                                 *)
LEMMA PortFrame ==
  ASSUME IInv, [Next]_vars
  PROVE  \/ User
         \/ EnumPort
         \/ DetachGone
         \/ /\ UNCHANGED <<plugged, csc, addressed>>
            /\ \A i \in Devs : /\ dev'[i].used = dev[i].used /\ dev'[i].port = dev[i].port
                               /\ dev'[i].drive = dev[i].drive
<1>0. DevTypes
  BY DEF IInv, TypeOK
<1>1. CASE MarkGone
  BY <1>0, <1>1 DEF MarkGone, ports, DevTypes
<1>2. CASE ProbeUnit
  BY <1>2, ProbeEffect DEF ProbeUnit, ports
<1>3. CASE StartScan \/ MarkDone \/ EnumDone \/ DetachDone \/ AttachDevice \/ AttachDone
           \/ MountNew \/ MountDone \/ UNCHANGED vars
  BY <1>3 DEF StartScan, MarkDone, EnumDone, DetachDone, AttachDevice, AttachDone,
     MountNew, MountDone, vars, ports, tables
<1> QED BY <1>1, <1>2, <1>3 DEF Next, Scan

LEMMA LostStep ==
  ASSUME IInv, Lost, [Next]_vars
  PROVE  Lost'
<1>0. /\ PortTypes /\ OneDevicePerPort
      /\ \A i \in Devs : dev[i].used => dev[i].port \in Ports
  BY DEF IInv, TypeOK, DeviceInv
<1>1. ASSUME NEW p \in Ports, NEW d \in Drives, Plug(p, d) PROVE Lost'
  BY <1>0, <1>1 DEF Lost, Plug, PortTypes, tables
<1>2. ASSUME NEW p \in Ports, Unplug(p) PROVE Lost'
  BY <1>0, <1>2 DEF Lost, Unplug, PortTypes, tables
<1>3. ASSUME NEW d \in Readers, NEW u \in Units(d),
             RemoveCard(d, u) \/ \E c \in Cards : InsertCard(d, u, c)
      PROVE  Lost'
  BY <1>3 DEF Lost, RemoveCard, InsertCard, tables
<1>4. CASE User
  BY <1>1, <1>2, <1>3, <1>4 DEF User
<1>5. CASE EnumPort
  <2>0. pos \in Ports /\ (~Known(pos) => \A i \in Devs : dev[i].used => dev[i].port # pos)
    BY <1>5 DEF EnumPort, Known
  <2>1. ASSUME NEW i \in Devs, EnumerateOk(pos, i), ~Known(pos) PROVE Lost'
    BY <1>0, <2>0, <2>1, EnumerateEffect DEF Lost
  <2>2. ASSUME EnumerateFails(pos), ~Known(pos) PROVE Lost'
    BY <1>0, <2>0, <2>2, FailEffect DEF Lost
  <2>3. CASE UNCHANGED <<dev, csc, addressed>>
    BY <2>3 DEF Lost
  <2> QED BY <1>5, <2>1, <2>2, <2>3 DEF EnumPort
<1>6. CASE DetachGone
  <2>1. ASSUME DetachDevice(pos), pos \in Devs, dev[pos].used PROVE Lost'
    <3> SUFFICES ASSUME NEW i \in Devs, dev'[i].used
                 PROVE  addressed'[dev'[i].port] = i \/ csc'[dev'[i].port]
      BY DEF Lost
    <3>1. i # pos /\ dev'[i] = dev[i]
      BY <2>1, DetachEffect
    <3>2. dev[i].port \in Ports /\ dev[i].port # dev[pos].port
      BY <1>0, <2>1, <3>1 DEF OneDevicePerPort
    <3>3. csc'[dev[i].port] = csc[dev[i].port]
      BY <2>1, <3>2, DetachEffect
    <3>4. addressed[dev[i].port] = i => addressed'[dev[i].port] = i
      BY <2>1, <3>1, <3>2, DetachEffect
    <3> QED BY <3>1, <3>3, <3>4 DEF Lost
  <2>2. CASE UNCHANGED <<dev, csc, addressed>>
    BY <2>2 DEF Lost
  <2> QED BY <1>6, <2>1, <2>2 DEF DetachGone
<1>7. CASE /\ UNCHANGED <<plugged, csc, addressed>>
           /\ \A i \in Devs : /\ dev'[i].used = dev[i].used /\ dev'[i].port = dev[i].port
                              /\ dev'[i].drive = dev[i].drive
  BY <1>7 DEF Lost
<1> QED BY <1>4, <1>5, <1>6, <1>7, PortFrame

(* A removal, an enumeration and a probe are the steps that change what    *)
(* the drives' LUN entries and block devices say.                          *)
LEMMA AliveStep ==
  ASSUME IInv, IInv', AliveInv, [Next]_vars
  PROVE  AliveInv'
<1>0. /\ \A k \in LunSlots : lun[k].dev \in Devs
      /\ \A k \in LunSlots : lun[k].used => dev[lun[k].dev].used
      /\ \A k \in LunSlots : lun[k].alive =>
           /\ lun[k].used /\ blk[lun[k].block].context = k
           /\ lun[k].block \in Blocks /\ lun[k].block < DeviceCount
  BY DEF IInv, TypeOK, BindingTypes, LunInv
<1>1. ASSUME UNCHANGED <<lun, blk>>, pc' # "probe",
             \A i \in Devs : dev'[i].used =>
               \/ ~dev'[i].attached
               \/ dev[i].used /\ dev[i].attached,
             \A i \in Devs : dev[i].used => dev'[i].drive = dev[i].drive
      PROVE  AliveInv'
  <2>1. \A k \in LunSlots : lun'[k].alive => Whole(k)'
    BY <1>0, <1>1 DEF AliveInv, Whole
  <2>2. \A i \in Devs : dev'[i].used /\ dev'[i].attached => Works(i)'
    BY <1>1 DEF AliveInv, Works, UnitsOf
  <2> QED BY <1>1, <2>1, <2>2 DEF AliveInv
<1>2. CASE AttachDevice
  <2>1. /\ UNCHANGED <<lun, blk, dev>>
        /\ pc' = "probe" => pos' = pos /\ ~dev[pos].attached /\ found' = 0
    BY <1>2 DEF AttachDevice, tables, Goto, Step
  <2> QED BY <2>1 DEF AliveInv, Whole, Works, UnitsOf
<1>3. CASE User \/ UNCHANGED vars
  <2>1. UNCHANGED <<lun, blk, dev, pc, pos, found>>
    BY <1>3 DEF User, Plug, Unplug, RemoveCard, InsertCard, vars, tables, scan
  <2> QED BY <2>1 DEF AliveInv, Whole, Works, UnitsOf
<1>4. CASE StartScan \/ MarkDone \/ EnumDone \/ DetachDone \/ AttachDone \/ MountNew \/ MountDone
  <2>1. UNCHANGED <<lun, blk, dev>> /\ pc' # "probe"
    BY <1>4 DEF StartScan, MarkDone, EnumDone, DetachDone, AttachDone, MountNew, MountDone,
       tables, Goto, Step
  <2> QED BY <1>1, <2>1
<1>5. CASE MarkGone
  <2>1. /\ UNCHANGED <<lun, blk>> /\ pc' # "probe"
        /\ \A i \in Devs : /\ dev'[i].used = dev[i].used /\ dev'[i].attached = dev[i].attached
                           /\ dev'[i].drive = dev[i].drive
    BY <1>5 DEF MarkGone, Step, IInv, TypeOK, DevTypes
  <2> QED BY <1>1, <2>1
<1>6. CASE EnumPort
  <2>0. UNCHANGED <<lun, blk>> /\ pc' # "probe" /\ pos \in Ports
    BY <1>6 DEF EnumPort, Step
  <2>1. ASSUME NEW i \in Devs, EnumerateOk(pos, i) PROVE AliveInv'
    BY <1>1, <2>0, <2>1, EnumerateEffect
  <2>2. CASE UNCHANGED dev
    BY <1>1, <2>0, <2>2
  <2> QED BY <1>6, <2>1, <2>2 DEF EnumPort, EnumerateFails
<1>7. CASE DetachGone
  <2>0. pc' # "probe" /\ pos \in Devs
    BY <1>7 DEF DetachGone, Step
  <2>1. CASE DetachDevice(pos)
    <3>1. ASSUME NEW k \in LunSlots, lun'[k].alive
          PROVE  lun'[k] = lun[k] /\ lun[k].dev # pos /\ lun[k].alive
      BY <1>0, <2>0, <2>1, <3>1, DetachEffect
    <3>2. ASSUME NEW k \in LunSlots, lun'[k].alive PROVE Whole(k)'
      <4>1. \A j \in LunSlots : lun[j].used /\ lun[j].dev = pos /\ lun[j].alive => lun[j].block # lun[k].block
        BY <1>0, <3>1, <3>2
      <4>2. blk'[lun[k].block] = blk[lun[k].block] /\ dev'[lun[k].dev] = dev[lun[k].dev]
        BY <1>0, <2>0, <2>1, <3>1, <3>2, <4>1, DetachEffect
      <4> QED BY <3>1, <3>2, <4>2 DEF AliveInv, Whole
    <3>3. ASSUME NEW i \in Devs, dev'[i].used, dev'[i].attached PROVE Works(i)'
      <4>1. i # pos /\ dev'[i] = dev[i]
        BY <2>0, <2>1, <3>3, DetachEffect
      <4>2. PICK k \in LunSlots : lun[k].used /\ lun[k].dev = i /\ lun[k].alive
        BY <3>3, <4>1 DEF AliveInv, Works, UnitsOf
      <4>3. lun'[k] = lun[k]
        BY <2>0, <2>1, <4>1, <4>2, DetachEffect
      <4> QED BY <4>2, <4>3 DEF Works, UnitsOf
    <3> QED BY <2>0, <3>2, <3>3 DEF AliveInv
  <2>2. CASE UNCHANGED <<blk, lun, dev>>
    BY <1>1, <2>0, <2>2
  <2> QED BY <1>7, <2>1, <2>2 DEF DetachGone
<1>8. CASE ProbeUnit
  <2>0. pc = "probe" /\ pos \in Devs /\ found \in Nat /\ DeviceCount \in Nat
    BY <1>8, HotPlugConstants DEF ProbeUnit, IInv, DeviceInv, TypeOK, ScanTypes, BindingTypes
  <2>1. /\ \A i \in Devs : dev'[i].used = dev[i].used /\ dev'[i].drive = dev[i].drive
        /\ \A i \in Devs : i # pos => dev'[i].attached = dev[i].attached
        /\ \A k \in LunSlots : lun[k].used => lun'[k] = lun[k]
        /\ \A b \in Blocks : b < DeviceCount => blk'[b] = blk[b]
        /\ pc' = "probe" => pos' = pos /\ dev' = dev
        /\ dev'[pos].attached => dev[pos].attached \/ found' > 0
    BY <1>8, ProbeEffect
  <2>2. \A i \in Devs : Works(i) => Works(i)'
    BY <2>1 DEF Works, UnitsOf
  <2>3. ASSUME NEW i \in Devs, i = pos, found' > 0 PROVE Works(i)'
    <3>1. CASE found' = found
      BY <2>0, <2>2, <2>3, <3>1 DEF AliveInv
    <3>2. CASE \E k \in LunSlots : lun'[k].used /\ lun'[k].alive /\ lun'[k].dev = pos
      BY <2>3, <3>2 DEF Works, UnitsOf
    <3> QED BY <1>8, <3>1, <3>2, ProbeEffect
  <2>4. ASSUME NEW k \in LunSlots, lun'[k].alive, lun[k].used PROVE Whole(k)'
    <3>1. lun'[k] = lun[k] /\ lun[k].alive /\ blk'[lun[k].block] = blk[lun[k].block]
          /\ dev'[lun[k].dev].drive = dev[lun[k].dev].drive
      BY <1>0, <2>1, <2>4
    <3> QED BY <3>1 DEF AliveInv, Whole
  <2>5. ASSUME NEW k \in LunSlots, lun'[k].alive, ~lun[k].used PROVE Whole(k)'
    <3>1. /\ Ready(pos, unit) /\ blk'[DeviceCount].online
          /\ \E j \in LunSlots :
                    /\ FreeLun(j) /\ \A m \in LunSlots : m # j => lun'[m] = lun[m]
                    /\ lun'[j].used /\ lun'[j].alive /\ lun'[j].dev = pos
                    /\ lun'[j].unit = unit /\ lun'[j].block = DeviceCount
      BY <1>8, <2>5, ProbeEffect
    <3>2. lun'[k].dev = pos /\ lun'[k].unit = unit /\ lun'[k].block = DeviceCount
      BY <1>0, <2>5, <3>1
    <3> QED BY <2>0, <2>1, <3>1, <3>2 DEF Whole, Ready
  <2>6. \A i \in Devs : dev'[i].used /\ dev'[i].attached => Works(i)'
    <3>1. \A i \in Devs : i # pos /\ dev'[i].used /\ dev'[i].attached => Works(i)'
      BY <2>1, <2>2 DEF AliveInv
    <3>2. \A i \in Devs : i = pos /\ dev'[i].attached => Works(i)'
      BY <2>0, <2>1, <2>3 DEF AliveInv
    <3> QED BY <3>1, <3>2
  <2>7. pc' = "probe" => ~dev'[pos'].attached /\ (found' > 0 => Works(pos)')
    <3>1. pc' = "probe" => pos' = pos /\ ~dev'[pos].attached
      BY <2>0, <2>1 DEF AliveInv
    <3>2. ASSUME pc' = "probe", found' > 0 PROVE Works(pos)'
      <4>1. PICK i \in Devs : i = pos /\ i = pos'
        BY <2>0, <3>1, <3>2
      <4>2. Works(i)'
        BY <2>3, <3>2, <4>1
      <4> QED BY <4>1, <4>2
    <3> QED BY <3>1, <3>2
  <2> QED BY <2>4, <2>5, <2>6, <2>7 DEF AliveInv
<1> QED BY <1>2, <1>3, <1>4, <1>5, <1>6, <1>7, <1>8 DEF Next, Scan

LEMMA OfferStep ==
  ASSUME IInv, OfferInv, [Next]_vars
  PROVE  OfferInv'
<1>0. /\ DeviceCount \in Nat /\ pos \in Nat /\ new \in Seq(Blocks) /\ MaxNew \in Nat
      /\ MaxBlocks \in Nat /\ \A b \in Blocks : b \in Nat
  BY HotPlugConstants DEF IInv, TypeOK, BindingTypes, ScanTypes, Blocks
<1>1. CASE UNCHANGED <<pc, pos, new, DeviceCount, scanned>>
  BY <1>1 DEF OfferInv, Pending
<1>2. CASE StartScan
  <2>1. pc = "idle" /\ pc' = "mark" /\ new' = <<>> /\ UNCHANGED <<DeviceCount, scanned>>
    BY <1>2 DEF StartScan, Goto, tables
  <2> QED BY <1>0, <2>1 DEF OfferInv, Pending
<1>3. CASE /\ UNCHANGED <<new, DeviceCount, scanned>>
           /\ \/ pc \in {"mark", "enum", "detach"} /\ pc' \in {"mark", "enum", "detach"}
              \/ pc \in {"mark", "enum", "detach", "attach"} /\ pc' \in {"attach", "probe"}
           /\ pc' = "enum" => pos' > 0
  BY <1>3 DEF OfferInv, Pending
<1>4. CASE MarkGone \/ MarkDone \/ EnumPort \/ EnumDone \/ DetachGone \/ DetachDone \/ AttachDevice
  <2>1. /\ UNCHANGED <<new, DeviceCount, scanned>>
        /\ \/ pc \in {"mark", "enum", "detach"} /\ pc' \in {"mark", "enum", "detach"}
           \/ pc \in {"mark", "enum", "detach", "attach"} /\ pc' \in {"attach", "probe"}
        /\ pc' = "enum" => pos' = 1 \/ pos' = pos + 1
    BY <1>4 DEF MarkGone, MarkDone, EnumPort, EnumDone, DetachGone, DetachDone, AttachDevice,
       tables, Goto, Step
  <2> QED BY <1>0, <1>3, <2>1
<1>5. CASE AttachDone
  <2>1. pc = "attach" /\ pc' = "mount" /\ pos' = 1 /\ UNCHANGED <<new, DeviceCount, scanned>>
    BY <1>5 DEF AttachDone, Goto, tables
  <2>2. \A m \in DOMAIN new : m >= 1
    BY <1>0
  <2> QED BY <2>1, <2>2 DEF OfferInv, Pending
<1>6. CASE MountNew
  <2>1. /\ pc = "mount" /\ pc' = "mount" /\ pos' = pos + 1
        /\ UNCHANGED <<new, DeviceCount>> /\ scanned' = scanned \cup {new[pos]}
    BY <1>6 DEF MountNew, Step
  <2>2. \A m \in DOMAIN new : m >= pos /\ m # pos => m >= pos + 1
    BY <1>0
  <2>3. \A b \in Blocks : Pending(b) => b \in scanned' \/ Pending(b)'
    BY <2>1, <2>2 DEF Pending
  <2> QED BY <1>0, <2>1, <2>3 DEF OfferInv
<1>7. CASE MountDone
  <2>1. /\ pc = "mount" /\ pos \notin DOMAIN new /\ pc' = "idle"
        /\ UNCHANGED <<new, DeviceCount, scanned>>
    BY <1>7 DEF MountDone, Goto, tables
  <2>2. pos > 0
    BY <2>1 DEF OfferInv
  <2>3. \A m \in DOMAIN new : ~(m >= pos)
    BY <1>0, <2>1, <2>2
  <2>4. \A b \in Blocks : ~Pending(b)
    BY <2>1, <2>3 DEF Pending
  <2> QED BY <2>1, <2>4 DEF OfferInv
<1>8. CASE ProbeUnit
  <2>1. pc = "probe" /\ pc' \in {"probe", "attach"} /\ scanned' = scanned
    BY <1>8, ProbeEffect DEF ProbeUnit
  <2>2. CASE UNCHANGED <<new, DeviceCount>>
    BY <2>1, <2>2 DEF OfferInv, Pending
  <2>3. CASE /\ DeviceCount' = DeviceCount + 1
             /\ new' = IF Len(new) < MaxNew THEN Append(new, DeviceCount) ELSE new
    <3>1. Len(new') <= DeviceCount'
      BY <1>0, <2>3 DEF OfferInv
    <3>2. ASSUME DeviceCount' <= MaxNew, NEW b \in Blocks, b < DeviceCount'
          PROVE  b \in scanned' \/ Pending(b)'
      <4>1. new' = Append(new, DeviceCount)
        BY <1>0, <2>3, <3>2 DEF OfferInv
      <4>2. CASE b = DeviceCount
        <5>1. Len(new) + 1 \in DOMAIN new' /\ new'[Len(new) + 1] = b
          BY <1>0, <4>1, <4>2
        <5> QED BY <2>1, <5>1 DEF Pending
      <4>3. CASE b < DeviceCount
        <5>1. b \in scanned \/ Pending(b)
          BY <1>0, <2>3, <3>2, <4>3 DEF OfferInv
        <5>2. \A m \in DOMAIN new : m \in DOMAIN new' /\ new'[m] = new[m]
          BY <1>0, <4>1
        <5> QED BY <2>1, <5>1, <5>2 DEF Pending
      <4> QED BY <1>0, <2>3, <3>2, <4>2, <4>3
    <3> QED BY <2>1, <3>1, <3>2 DEF OfferInv
  <2> QED BY <1>8, <2>2, <2>3, ProbeEffect
<1>9. CASE User \/ UNCHANGED vars
  <2>1. UNCHANGED <<pc, pos, new, DeviceCount, scanned>>
    BY <1>9 DEF User, Plug, Unplug, RemoveCard, InsertCard, vars, tables, scan
  <2> QED BY <1>1, <2>1
<1> QED BY <1>2, <1>4, <1>5, <1>6, <1>7, <1>8, <1>9 DEF Next, Scan

(* A probe never makes room. *)
LEMMA RoomStep ==
  ASSUME IInv, ProbeUnit, Room'
  PROVE  Room
<1>0. DeviceCount \in Nat /\ MaxBlocks \in Nat
  BY HotPlugConstants DEF IInv, TypeOK, BindingTypes
<1>1. CASE \E k \in LunSlots : FreeLun(k) /\ DeviceCount < MaxBlocks
  BY <1>1 DEF Room
<1>2. CASE DeviceCount' = DeviceCount /\ \A k \in LunSlots : lun'[k].used = lun[k].used
  BY <1>2 DEF Room, FreeLun
<1> QED BY <1>0, <1>1, <1>2, ProbeEffect

LEMMA EveryIndex ==
  /\ \A n \in Nat : n \notin Devs => \A i \in Devs : i < n
  /\ \A n \in Nat : n > 0 /\ n \notin Ports => \A p \in Ports : p < n
BY HotPlugConstants DEF Devs, Ports

(* One loop of the scan hands over to the next what it has established. *)
LEMMA QuietStep ==
  ASSUME ScanInv, [Next]_vars
  PROVE  QuietInv'
<1>0. /\ PortTypes /\ pos \in Nat /\ unit \in Nat /\ last \in Nat /\ found \in Nat
      /\ \A i \in Devs : dev[i].used => dev[i].port \in Ports /\ dev[i].drive \in Drives
      /\ OneDevicePerPort
      /\ \A n \in Devs \cup Ports : n \in Nat
  BY Constants DEF ScanInv, IInv, TypeOK, ScanTypes, DeviceInv
<1>i. IInv /\ AliveInv /\ QuietInv /\ OfferInv /\ CardInv /\ Lost
  BY DEF ScanInv
<1> USE DEF Seen, Here, Present, Asked, AllSeen, AllHere, AllKnown, Known
<1>1. CASE User
  BY <1>1 DEF User, Plug, Unplug, RemoveCard, InsertCard, UserActs, QuietInv
<1>2. CASE StartScan
  BY <1>2, <1>0 DEF StartScan, Goto, QuietInv, MarkQuiet
<1>3. CASE MarkGone
  <2>1. /\ pc = "mark" /\ pc' = "mark" /\ pos' = pos + 1 /\ pos \in Devs
        /\ UNCHANGED <<plugged, csc, pass, gone, quiet>>
    BY <1>3 DEF MarkGone, Step, ports
  <2>2. /\ \A i \in Devs : /\ dev'[i].used = dev[i].used /\ dev'[i].port = dev[i].port
                           /\ dev'[i].gone => dev[i].gone \/ ~Present(i)
                           /\ dev[i].gone => dev'[i].gone
        /\ ~dev'[pos].gone /\ dev'[pos].used => Present(pos)
    BY <1>3, <1>i DEF MarkGone, IInv, TypeOK, DevTypes
  <2>3. ASSUME quiet PROVE MarkQuiet'
    <3>1. MarkQuiet
      BY <1>i, <2>1, <2>3 DEF QuietInv
    <3>2. \A i \in Devs : i < pos + 1 => i < pos \/ i = pos
      BY <1>0
    <3> QED BY <2>1, <2>2, <3>1, <3>2 DEF MarkQuiet
  <2> QED BY <2>1, <2>3 DEF QuietInv
<1>4. CASE MarkDone
  <2>1. /\ pc = "mark" /\ pc' = "enum" /\ pos' = 1 /\ pos \notin Devs
        /\ UNCHANGED <<plugged, csc, dev, pass, gone, quiet>>
    BY <1>4 DEF MarkDone, Goto, ports, tables
  <2>2. ASSUME quiet PROVE EnumQuiet'
    <3>1. MarkQuiet
      BY <1>i, <2>1, <2>2 DEF QuietInv
    <3>2. (\A i \in Devs : i < pos) /\ \A p \in Ports : ~(p < 1)
      BY <1>0, <2>1, EveryIndex DEF Ports
    <3> QED BY <2>1, <3>1, <3>2 DEF MarkQuiet, EnumQuiet
  <2> QED BY <2>1, <2>2 DEF QuietInv
<1>5. CASE EnumPort
  <2>1. /\ pc = "enum" /\ pc' = "enum" /\ pos' = pos + 1 /\ pos \in Ports
        /\ UNCHANGED <<plugged, pass, gone>>
    BY <1>5 DEF EnumPort, Step
  <2>2. \A p \in Ports : p < pos + 1 => p < pos \/ p = pos
    BY <1>0
  <2>3. ASSUME quiet PROVE EnumQuiet
    BY <1>i, <2>1, <2>3 DEF QuietInv
  <2>4. ASSUME NEW i \in Devs, EnumerateOk(pos, i), ~Known(pos), plugged[pos] # None, quiet
        PROVE  EnumQuiet'
    <3>1. /\ ~dev[i].used
          /\ dev'[i].used /\ ~dev'[i].gone /\ dev'[i].port = pos
          /\ \A j \in Devs : j # i => dev'[j] = dev[j]
          /\ ~csc'[pos] /\ \A q \in Ports : q # pos => csc'[q] = csc[q]
      BY <1>i, <2>1, <2>4, EnumerateEffect
    <3>2. \A j \in Devs : dev[j].used => dev[j].port # pos /\ dev[j].port \in Ports
      BY <1>0, <2>4
    <3>3. \A j \in Devs : Seen(j) => Seen(j)'
      BY <2>1, <2>4, <3>1, <3>2
    <3>4. \A j \in Devs : Here(j) => Here(j)'
      BY <2>1, <2>4, <3>1, <3>2
    <3>5. \A p \in Ports : Known(p) \/ p = pos => Known(p)'
      BY <3>1
    <3> QED BY <2>1, <2>2, <2>3, <2>4, <3>3, <3>4, <3>5 DEF EnumQuiet
  <2>5. ASSUME UNCHANGED <<dev, csc>>, Known(pos) \/ plugged[pos] = None, quiet
        PROVE  EnumQuiet'
    BY <2>1, <2>2, <2>3, <2>5 DEF EnumQuiet
  <2>6. ASSUME quiet' PROVE EnumQuiet'
    <3>1. CASE plugged[pos] # None /\ ~Known(pos)
      <4>1. PICK i \in Devs : EnumerateOk(pos, i)
        BY <1>5, <2>6, <3>1 DEF EnumPort, EnumerateFails
      <4>2. quiet
        BY <2>6, <4>1 DEF EnumerateOk
      <4> QED BY <2>4, <3>1, <4>1, <4>2
    <3>2. CASE ~(plugged[pos] # None /\ ~Known(pos))
      BY <1>5, <2>5, <2>6, <3>2 DEF EnumPort
    <3> QED BY <3>1, <3>2
  <2> QED BY <2>1, <2>6 DEF QuietInv
<1>6. CASE EnumDone
  <2>1. /\ pc = "enum" /\ pos \notin Ports
        /\ UNCHANGED <<plugged, csc, dev, pass, gone, quiet, DeviceCount, lun>>
        /\ pos' = 0 /\ pc' = IF pass = 1 THEN "detach" ELSE "attach"
    BY <1>6 DEF EnumDone, Goto, ports, tables
  <2>2. (\A p \in Ports : p < pos) /\ \A i \in Devs : ~(i < 0)
    BY <1>0, <1>i, <2>1, EveryIndex DEF OfferInv
  <2>3. pass \in {1, 2}
    BY <1>i DEF IInv, TypeOK, ScanTypes
  <2>4. ASSUME quiet PROVE EnumQuiet
    BY <1>i, <2>1, <2>4 DEF QuietInv
  <2>5. ASSUME quiet, pass = 1 PROVE DetachQuiet'
    BY <2>1, <2>2, <2>4, <2>5 DEF EnumQuiet, DetachQuiet
  <2>6. ASSUME quiet, pass = 2 PROVE AttachQuiet'
    BY <2>1, <2>2, <2>4, <2>6 DEF EnumQuiet, AttachQuiet
  <2> QED BY <2>1, <2>3, <2>5, <2>6 DEF QuietInv
<1>7. CASE DetachGone
  <2>1. /\ pc = "detach" /\ pc' = "detach" /\ pos' = pos + 1 /\ pos \in Devs
        /\ UNCHANGED <<plugged, pass, quiet>>
    BY <1>7 DEF DetachGone, Step
  <2>2. \A i \in Devs : i < pos + 1 => i < pos \/ i = pos
    BY <1>0
  <2>3. ASSUME quiet PROVE DetachQuiet
    BY <1>i, <2>1, <2>3 DEF QuietInv
  <2>4. ASSUME DetachDevice(pos), gone', quiet PROVE DetachQuiet'
    <3>1. /\ ~dev'[pos].used
          /\ \A j \in Devs : j # pos => dev'[j] = dev[j]
          /\ \A p \in Ports : csc'[p] => csc[p]
      BY <1>i, <2>1, <2>4, DetachEffect
    <3>2. \A j \in Devs : (Seen(j) => Seen(j)') /\ (Here(j) \/ j = pos => Here(j)')
      BY <1>0, <2>1, <3>1
    <3> QED BY <2>1, <2>2, <2>3, <2>4, <3>2 DEF DetachQuiet
  <2>5. ASSUME UNCHANGED <<dev, csc, gone>>, ~(dev[pos].used /\ dev[pos].gone), quiet
        PROVE  DetachQuiet'
    BY <2>1, <2>2, <2>3, <2>5 DEF DetachQuiet
  <2>6. ASSUME quiet PROVE DetachQuiet'
    BY <1>7, <2>4, <2>5, <2>6 DEF DetachGone
  <2> QED BY <2>1, <2>6 DEF QuietInv
<1>8. CASE DetachDone
  <2>1. /\ pc = "detach" /\ pos \notin Devs /\ pos' = 0
        /\ UNCHANGED <<plugged, csc, dev, gone, quiet, DeviceCount, lun>>
        /\ IF gone THEN pc' = "mark" /\ pass' = 2 ELSE pc' = "attach"
    BY <1>8 DEF DetachDone, Goto, ports, tables
  <2>2. (\A i \in Devs : i < pos) /\ \A i \in Devs : ~(i < 0)
    BY <1>0, <2>1, EveryIndex
  <2>3. ASSUME quiet PROVE DetachQuiet
    BY <1>i, <2>1, <2>3 DEF QuietInv
  <2>4. ASSUME quiet, gone PROVE MarkQuiet'
    BY <2>1, <2>2, <2>3, <2>4 DEF DetachQuiet, MarkQuiet
  <2>5. ASSUME quiet, ~gone PROVE AttachQuiet'
    BY <2>1, <2>2, <2>3, <2>5 DEF DetachQuiet, AttachQuiet
  <2> QED BY <2>1, <2>4, <2>5 DEF QuietInv
<1>9. CASE AttachDevice
  <2>1. /\ pc = "attach" /\ pos \in Devs
        /\ UNCHANGED <<plugged, csc, dev, DeviceCount, lun>>
    BY <1>9 DEF AttachDevice, ports, tables
  <2>2. \A i \in Devs : i < pos + 1 => i < pos \/ i = pos
    BY <1>0
  <2>3. ASSUME quiet PROVE AttachQuiet
    BY <1>i, <2>1, <2>3 DEF QuietInv
  <2>4. CASE dev[pos].used /\ Mass(dev[pos].drive) /\ ~dev[pos].attached
    <3>1. pc' = "probe" /\ pos' = pos /\ unit' = 0
      BY <1>9, <2>4 DEF AttachDevice, Goto
    <3>2. ASSUME quiet' PROVE quiet /\ last' = Slots[dev[pos].drive] - 1
      BY <1>9, <2>4, <3>2 DEF AttachDevice
    <3>3. Slots[dev[pos].drive] \in Nat /\ Slots[dev[pos].drive] > 0
      BY <1>0, <2>1, <2>4, Constants DEF Mass
    <3>4. ASSUME quiet' PROVE ProbeQuiet'
      <4>1. 0 <= Slots[dev[pos].drive] - 1
        BY <3>3
      <4> QED BY <2>1, <3>1, <3>2, <3>4, <4>1 DEF ProbeQuiet
    <3>5. ASSUME quiet' PROVE AttachQuiet'
      BY <2>1, <2>3, <3>1, <3>2, <3>5 DEF AttachQuiet, Room, FreeLun
    <3> QED BY <3>1, <3>4, <3>5 DEF QuietInv
  <2>5. CASE ~(dev[pos].used /\ Mass(dev[pos].drive) /\ ~dev[pos].attached)
    <3>1. pc' = "attach" /\ pos' = pos + 1 /\ quiet' = quiet
      BY <1>9, <2>1, <2>5 DEF AttachDevice, Step
    <3>2. ASSUME quiet PROVE AttachQuiet'
      BY <2>1, <2>2, <2>3, <2>5, <3>1, <3>2 DEF AttachQuiet, Room, FreeLun
    <3> QED BY <3>1, <3>2 DEF QuietInv
  <2> QED BY <2>4, <2>5
<1>10. CASE AttachDone
  <2>1. /\ pc = "attach" /\ pos \notin Devs /\ pc' = "mount"
        /\ UNCHANGED <<plugged, csc, dev, quiet, DeviceCount, lun>>
    BY <1>10 DEF AttachDone, Goto, ports, tables
  <2>2. \A i \in Devs : i < pos
    BY <1>0, <2>1, EveryIndex
  <2>3. ASSUME quiet PROVE DoneQuiet'
    <3>1. AttachQuiet
      BY <1>i, <2>1, <2>3 DEF QuietInv
    <3> QED BY <2>1, <2>2, <3>1 DEF AttachQuiet, DoneQuiet, Room, FreeLun
  <2> QED BY <2>1, <2>3 DEF QuietInv
<1>11. CASE MountNew \/ MountDone
  <2>1. /\ pc = "mount" /\ pc' \in {"mount", "idle"}
        /\ UNCHANGED <<plugged, csc, dev, DeviceCount, lun>> /\ (quiet' => quiet)
    BY <1>11 DEF MountNew, MountDone, Goto, Step, ports, tables
  <2>2. ASSUME quiet' PROVE DoneQuiet'
    <3>1. DoneQuiet
      BY <1>i, <2>1, <2>2 DEF QuietInv
    <3> QED BY <2>1, <3>1 DEF DoneQuiet, Room, FreeLun
  <2> QED BY <2>1, <2>2 DEF QuietInv
<1>12. CASE UNCHANGED vars
  <2>1. /\ UNCHANGED <<plugged, csc, dev, DeviceCount, lun>>
        /\ UNCHANGED <<pc, pos, pass, gone, unit, last, quiet>>
    BY <1>12 DEF vars, ports, tables, scan
  <2> QED BY <1>i, <2>1 DEF QuietInv, MarkQuiet, EnumQuiet, DetachQuiet, AttachQuiet, ProbeQuiet,
             DoneQuiet, Room, FreeLun
<1>13. CASE ProbeUnit
  <2>1. /\ pc = "probe" /\ pos \in Devs /\ dev[pos].used
        /\ UNCHANGED <<plugged, csc, last>>
    BY <1>13, <1>i DEF ProbeUnit, IInv, DeviceInv, ports
  <2>2. /\ \A j \in Devs : /\ dev'[j].used = dev[j].used /\ dev'[j].gone = dev[j].gone
                           /\ dev'[j].port = dev[j].port /\ dev'[j].drive = dev[j].drive
                           /\ j # pos => dev'[j].attached = dev[j].attached
        /\ IF unit < last THEN pc' = "probe" /\ pos' = pos /\ unit' = unit + 1 /\ dev' = dev
                          ELSE /\ pc' = "attach" /\ pos' = pos + 1
                               /\ dev'[pos].attached <=> dev[pos].attached \/ found' > 0
        /\ quiet' => quiet
        /\ \/ found' = found + 1
           \/ quiet' => ~(Ready(pos, unit) /\ Room)
    BY <1>13, <1>i, ProbeEffect
  <2>3. ASSUME quiet' PROVE AttachQuiet /\ ProbeQuiet
    BY <1>i, <2>1, <2>2, <2>3 DEF QuietInv
  <2>4. Room' => Room
    BY <1>13, <1>i, RoomStep
  <2>5. ASSUME quiet' PROVE AllKnown' /\ AllHere'
    BY <2>1, <2>2, <2>3, <2>5 DEF AttachQuiet
  <2>6. CASE unit < last
    <3>1. ASSUME quiet' PROVE ProbeQuiet'
      <4>1. unit + 1 <= last
        BY <1>0, <2>6
      <4> QED BY <2>1, <2>2, <2>3, <2>6, <3>1, <4>1 DEF ProbeQuiet
    <3>2. ASSUME quiet' PROVE AttachQuiet'
      BY <2>2, <2>3, <2>4, <2>5, <2>6, <3>2 DEF AttachQuiet
    <3> QED BY <2>2, <2>6, <3>1, <3>2 DEF QuietInv
  <2>7. CASE ~(unit < last)
    <3>1. /\ pc' = "attach" /\ pos' = pos + 1
          /\ dev'[pos].attached <=> dev[pos].attached \/ found' > 0
      BY <2>2, <2>7
    <3>2. ASSUME quiet', Room', Mass(dev[pos].drive), dev[pos].drive \notin Readers
          PROVE  dev'[pos].attached
      <4>1. unit \in Units(dev[pos].drive)
        <5>1. Slots[dev[pos].drive] \in Nat
          BY <1>0, <2>1, Constants
        <5>2. unit = Slots[dev[pos].drive] - 1
          BY <1>0, <2>3, <2>7, <3>2, <5>1 DEF ProbeQuiet
        <5> QED BY <1>0, <5>1, <5>2 DEF Units
      <4>2. Answers(pos)
        BY <1>i, <2>1, <2>3, <3>2 DEF AttachQuiet, Lost, Answers
      <4>3. card[dev[pos].drive][unit] # None
        BY <1>0, <1>i, <2>1, <3>2, <4>1 DEF CardInv
      <4>4. Ready(pos, unit) /\ Room
        BY <2>4, <3>2, <4>1, <4>2, <4>3 DEF Ready
      <4>5. found' = found + 1
        BY <2>2, <3>2, <4>4
      <4> QED BY <1>0, <3>1, <4>5
    <3>3. \A i \in Devs : i < pos + 1 => i < pos \/ i = pos
      BY <1>0
    <3>4. ASSUME quiet', Room', NEW i \in Devs, i < pos + 1 PROVE Asked(i)'
      <4>1. CASE i = pos
        BY <2>2, <3>2, <3>4, <4>1 DEF Mass
      <4>2. CASE i < pos
        <5>1. i # pos /\ Asked(i)
          BY <1>0, <2>3, <2>4, <3>4, <4>2 DEF AttachQuiet
        <5> QED BY <2>2, <5>1 DEF Mass
      <4> QED BY <3>3, <3>4, <4>1, <4>2
    <3>5. ASSUME quiet' PROVE AttachQuiet'
      BY <2>5, <3>1, <3>4, <3>5 DEF AttachQuiet
    <3> QED BY <3>1, <3>5 DEF QuietInv
  <2> QED BY <2>6, <2>7
<1> QED BY <1>1, <1>2, <1>3, <1>4, <1>5, <1>6, <1>7, <1>8, <1>9, <1>10, <1>11, <1>12, <1>13
        DEF Next, Scan

LEMMA StepScan == ScanInv /\ [Next]_vars => ScanInv'
BY StepInv, CardStep, LostStep, AliveStep, OfferStep, QuietStep DEF ScanInv

LEMMA OfflineInv == ScanInv => GoneIsOffline
<1> SUFFICES ASSUME ScanInv, QuietScanEnded, NEW b \in Blocks, blk[b].online
             PROVE  /\ dev[lun[blk[b].context].dev].gone = FALSE
                    /\ Answers(lun[blk[b].context].dev)
  BY DEF GoneIsOffline
<1>1. PICK i \in Devs : i = lun[blk[b].context].dev
  BY DEF ScanInv, IInv, TypeOK, BindingTypes
<1>2. dev[i].used
  BY <1>1 DEF ScanInv, IInv, BindingSound
<1>3. Here(i)
  BY DEF ScanInv, QuietInv, QuietScanEnded, DoneQuiet, AllHere
<1>4. dev[i].gone = FALSE
  BY <1>2, <1>3 DEF Here, ScanInv, IInv, TypeOK, DevTypes
<1>5. Answers(i)
  BY <1>2, <1>3 DEF Here, Present, ScanInv, Lost, Answers
<1> QED BY <1>1, <1>4, <1>5

LEMMA ServedInv == ScanInv => PluggedIsServed
<1> SUFFICES ASSUME ScanInv, QuietScanEnded, Room, NEW p \in Ports,
                    plugged[p] \notin Readers \cup {None}, Mass(plugged[p])
             PROVE  \E u \in Units(plugged[p]), b \in Blocks : Delivers(b) = <<plugged[p], u>>
  BY DEF PluggedIsServed
<1>0. IInv /\ AliveInv /\ CardInv /\ Lost /\ DoneQuiet /\ plugged[p] \in Drives
  BY DEF ScanInv, QuietInv, QuietScanEnded, IInv, TypeOK, PortTypes
<1>1. PICK i \in Devs : dev[i].used /\ dev[i].port = p
  BY <1>0 DEF DoneQuiet, AllKnown, Known
<1>2. addressed[p] = i /\ dev[i].drive = plugged[p]
  <2>1. addressed[p] = i
    BY <1>0, <1>1 DEF DoneQuiet, AllHere, Here, Present, Lost
  <2> QED BY <1>0, <2>1, Constants DEF IInv, AddressInv
<1>3. dev[i].attached
  BY <1>0, <1>1, <1>2 DEF DoneQuiet, Asked
<1>4. PICK k \in LunSlots : lun[k].dev = i /\ lun[k].alive
  BY <1>0, <1>1, <1>3 DEF AliveInv, Works, UnitsOf
<1>5. PICK b \in Blocks : b = lun[k].block /\ blk[b].online /\ blk[b].context = k
  BY <1>0, <1>4 DEF AliveInv, Whole, IInv, LunInv
<1>6. lun[k].unit \in Units(plugged[p]) /\ card[plugged[p]][lun[k].unit] # None
  BY <1>0, <1>2, <1>4 DEF AliveInv, Whole, CardInv
<1>7. Delivers(b) = <<plugged[p], lun[k].unit>>
  BY <1>1, <1>2, <1>4, <1>5, <1>6 DEF Delivers
<1> QED BY <1>6, <1>7

LEMMA OfferedInv == ScanInv => EveryDriveOffered
BY DEF ScanInv, OfferInv, Pending, EveryDriveOffered

(* The usb command, in every order in which the user plugs, unplugs and    *)
(* changes cards around it: a scan that ended undisturbed left no drive    *)
(* that went away online and served every drive of fixed media, and every  *)
(* drive found was handed to FsMountDevice (CmdUsb, UsbScan, XhciRescan).  *)
THEOREM ScanCorrect == Spec => []ScanAgrees
<1>1. ScanInv => ScanAgrees
  BY OfflineInv, ServedInv, OfferedInv DEF ScanAgrees
<1> QED BY <1>1, InitScan, StepScan, PTL DEF Spec
==============================================================================
