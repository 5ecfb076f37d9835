-------------------------------- MODULE Pci --------------------------------
(***************************************************************************)
(* The search of configuration space for a controller (pci.c): kmain looks *)
(* for the first of each kind of disk and sound controller, XhciRescan for *)
(* the first, second, ... xHCI controller.  The four functions walk alike, *)
(* a function of a device per step.                                        *)
(***************************************************************************)
EXTENDS Naturals, Sequences, FiniteSets

CONSTANTS
  Buses, Devices, Functions,   (* how many there are: 256, 32, 8           *)
  Spaces,              (* configuration spaces: per place what answers     *)
                       (* there: its kind, the multi-function bit of its   *)
                       (* header; addresses are left out                   *)
  Kinds,               (* what is looked for                               *)
  MAX_CONTROLLERS      (* xHCI controllers, 4                              *)

Places == (0..(Buses - 1)) \X (0..(Devices - 1)) \X (0..(Functions - 1))

PciConstants ==
  /\ Buses \in Nat \ {0} /\ Devices \in Nat \ {0} /\ Functions \in Nat \ {0}
  /\ MAX_CONTROLLERS \in Nat \ {0} /\ "absent" \notin Kinds
  /\ \A s \in Spaces : DOMAIN s = Places

VARIABLES
  space,
  pciPc,
  wanted, PciSkip,     (* what is looked for, and how many to pass over    *)
  place, Seen,
  found                (* the controllers found, of all calls              *)

pci == <<space, pciPc, wanted, PciSkip, place, Seen, found>>

PciInit ==
  /\ space \in Spaces /\ wanted \in Kinds
  /\ pciPc = "walk" /\ PciSkip = 0 /\ place = <<0, 0, 0>> /\ Seen = 0 /\ found = <<>>

Function == place[3]

NextDevice ==
  IF place[2] + 1 < Devices THEN <<place[1], place[2] + 1, 0>> ELSE <<place[1] + 1, 0, 0>>
NextFunction ==
  IF Function + 1 < Functions THEN <<place[1], place[2], Function + 1>> ELSE NextDevice

Absent(p) == space[p].kind = "absent"
Walking == pciPc = "walk" /\ place \in Places /\ UNCHANGED <<space, wanted>>

Nothing ==
  /\ Walking /\ Absent(place)
  /\ place' = IF Function = 0 THEN NextDevice ELSE NextFunction
  /\ UNCHANGED <<pciPc, PciSkip, Seen, found>>

(* It is the one; XhciRescan goes on to look for the next.                 *)
Hit ==
  /\ Walking /\ space[place].kind = wanted /\ Seen = PciSkip
  /\ found' = Append(found, place)
  /\ PciSkip' = PciSkip + 1 /\ place' = <<0, 0, 0>> /\ Seen' = 0
  /\ pciPc' = IF wanted = "xhci" /\ PciSkip' < MAX_CONTROLLERS THEN "walk" ELSE "done"

(* Mutant: the header is not looked at. *)
PassAll ==
  /\ Walking /\ ~Absent(place) /\ (space[place].kind = wanted => Seen # PciSkip)
  /\ Seen' = IF space[place].kind = wanted THEN Seen + 1 ELSE Seen
  /\ place' = NextFunction
  /\ UNCHANGED <<pciPc, PciSkip, found>>

(* A device of one function may answer for all of them, or for the first   *)
(* alone: the others are looked at only when its header says there are.    *)
Pass ==
  /\ Walking /\ ~Absent(place) /\ (space[place].kind = wanted => Seen # PciSkip)
  /\ Seen' = IF space[place].kind = wanted THEN Seen + 1 ELSE Seen
  /\ place' = IF Function = 0 /\ ~space[place].multi THEN NextDevice ELSE NextFunction
  /\ UNCHANGED <<pciPc, PciSkip, found>>

NoMore ==
  /\ pciPc = "walk" /\ place \notin Places /\ pciPc' = "done"
  /\ UNCHANGED <<space, wanted, PciSkip, place, Seen, found>>

PciFindByClass == Nothing \/ Hit \/ Pass \/ NoMore

------------------------------------------------------------------------------
(* What is there: functions after the first only of a device that has one  *)
(* and says that it has more.                                              *)
Real ==
  {p \in Places : /\ ~Absent(p)
                  /\ p[3] # 0 => ~Absent(<<p[1], p[2], 0>>) /\ space[<<p[1], p[2], 0>>].multi}

Before(p, q) ==
  p[1] < q[1] \/ (p[1] = q[1] /\ (p[2] < q[2] \/ (p[2] = q[2] /\ p[3] < q[3])))

(* The controllers found are really there, each is found once, in order,   *)
(* and in the end all of them, or as many as are wanted.                   *)
EachFoundOnce ==
  LET there == {p \in Real : space[p].kind = wanted}
  IN /\ \A k \in DOMAIN found : found[k] \in there
     /\ \A j, k \in DOMAIN found : j < k => Before(found[j], found[k])
     /\ pciPc = "done" =>
          LET last == IF wanted = "xhci" THEN MAX_CONTROLLERS ELSE 1
          IN \/ Len(found) = last \/ Len(found) = Cardinality(there)
     /\ \A k \in DOMAIN found : \A p \in there : Before(p, found[k]) =>
          \E j \in 1..(k - 1) : found[j] = p
==============================================================================
