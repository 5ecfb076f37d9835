------------------------------ MODULE UsbProofs ------------------------------
(***************************************************************************)
(* Proofs about USB mass storage: the transfers of xhci.c, the protocol of *)
(* usbmsc.c and the bringing up of devices, for every size of the rings,   *)
(* every number of transfers, calls, devices and slots, and every device.  *)
(* MCUsb puts three models side by side; each has an invariant of its own. *)
(*                                                                         *)
(* Transfers (BusInv).  The driver and the controller go round the same    *)
(* ring: the TRBs between the controller's place and the driver's are      *)
(* those of the transfer at hand, with the cycle bit of their lap, or none *)
(* when there is no transfer.  Of the commands by which RecoverEndpoint    *)
(* passes over a transfer, one is at most in the ring, and its answer is   *)
(* the last event.  An event that is unread and about the ring ends the    *)
(* transfer at hand, unless it is of one that was stopped and is discarded *)
(* by the wait for the command.                                            *)
(*                                                                         *)
(* Protocol (BotSafe, BotClean).  What a drive has still to send comes in  *)
(* pairs, a status last, and a status of the command at hand is the last   *)
(* of all; data of a whole sector is the command's own, or the status that *)
(* follows is another's.                                                   *)
(*                                                                         *)
(* Devices (DeviceInv).  Every slot that is enabled has one device of the  *)
(* table, which holds what the controller uses, until a command was given  *)
(* up; the commands that were given up are carried out before any other.   *)
(***************************************************************************)
EXTENDS MCUsb, Integers, SequenceTheorems, WellFoundedInduction, TLAPS

------------------------------------------------------------------------------
(* The transfers. *)

(* The types of Xhci in full.                                              *)
Slot == [td : 0..session.maxTds, k : {0, 1}, n : 0..2, cycle : {0, 1}]
Ring == [Base : [0..Link -> Slot], Enq : 0..(Link - 1), Cycle : {0, 1}]
Event == [type : {"none", "transfer", "command"}, ptr : Nat,
          code : {"none", "success", "short", "stall", "error", "stopped"},
          residue : 0..2, cycle : {0, 1}]
Kinds == {"stop", "reset", "setdeq"}
Asked == [n : Nat, kind : Kinds, to : [pos : 0..(Link - 1), cycle : {0, 1}]]

EventTypes ==
  /\ Evt \in [0..(EvtSize - 1) -> Event] /\ evtEnq \in 0..(EvtSize - 1) /\ pcs \in {0, 1}
  /\ EvtDeq \in 0..(EvtSize - 1) /\ EvtCycle \in {0, 1} /\ erdp = EvtDeq
  /\ posted \in Nat /\ consumed \in Nat

CallTypes ==
  /\ session \in Sessions
  /\ R \in Ring
  /\ \A p \in 0..Link : R.Base[p].k = 0 \/ R.Base[p].k < R.Base[p].n
  /\ pc \in {"idle", "wait", "command", "cmdwait"} /\ Td \in 0..session.maxTds
  /\ TrbPhys \in Seq(0..(Link - 1)) /\ Len(TrbPhys) <= 2
  /\ Actual \in 0..4 /\ ret \in {"none", "ok", "stall", "fail", "cleared"}
  /\ todo \in Seq(Kinds) /\ Commands \in Nat

ControllerTypes ==
  /\ deq \in 0..Link /\ ccs \in {0, 1} /\ endpoint \in {"running", "stopped", "halted"}
  /\ queue \in Seq(Asked)

(* Places of the transfer ring: the one after p, whose TRBs have the cycle *)
(* c, and the cycle of the TRBs there.                                     *)
Follows(p) == IF p + 1 = Link THEN 0 ELSE p + 1
CycleAfter(p, c) == IF p + 1 = Link THEN 1 - c ELSE c

(* Where the controller is in the ring, the link counted as the place it   *)
(* leads to.                                                               *)
Place == IF deq = Link THEN 0 ELSE deq
PlaceCycle == IF deq = Link THEN 1 - ccs ELSE ccs

AtTrb(k) == Place = TrbPhys[k] /\ PlaceCycle = R.Base[TrbPhys[k]].cycle
AtEnd == Place = R.Enq /\ PlaceCycle = R.Cycle

(* The driver's side of the ring: the cycle bits tell what was filled in   *)
(* this lap, and the last TD ends where the next will begin.               *)
Filled(r) ==
  /\ \A p \in 0..(Link - 1) : r.Base[p].cycle = IF p < r.Enq THEN r.Cycle ELSE 1 - r.Cycle
  /\ r.Base[Link].cycle = 1 - r.Cycle

TrbIs(k) == R.Base[TrbPhys[k]].td = Td /\ R.Base[TrbPhys[k]].k = k - 1
  /\ R.Base[TrbPhys[k]].n = Len(TrbPhys)

EndsAfter(k) ==
  R.Enq = Follows(TrbPhys[k]) /\ R.Cycle = CycleAfter(TrbPhys[k], R.Base[TrbPhys[k]].cycle)

TdInRing ==
  /\ Filled(R)
  /\ Len(TrbPhys) = 1 => TrbIs(1) /\ EndsAfter(1)
  /\ Len(TrbPhys) = 2 =>
       /\ TrbIs(1) /\ TrbIs(2) /\ EndsAfter(2)
       /\ TrbPhys[2] = Follows(TrbPhys[1])
       /\ R.Base[TrbPhys[2]].cycle = CycleAfter(TrbPhys[1], R.Base[TrbPhys[1]].cycle)

(* The event ring: what was filled in the controller's lap, and how far    *)
(* the driver is behind.                                                   *)
EventsFilled ==
  /\ \A p \in 0..(EvtSize - 1) : Evt[p].cycle = IF p < evtEnq THEN pcs ELSE 1 - pcs
  /\ \/ EvtCycle = pcs /\ EvtDeq <= evtEnq /\ posted = consumed + (evtEnq - EvtDeq)
     \/ EvtCycle = 1 - pcs /\ evtEnq < EvtDeq /\ posted = consumed + (EvtSize - EvtDeq + evtEnq)

(* The events that were posted and not read.                               *)
Unread ==
  {p \in 0..(EvtSize - 1) :
     IF EvtCycle = pcs THEN EvtDeq <= p /\ p < evtEnq ELSE EvtDeq <= p \/ p < evtEnq}

Quiet == endpoint # "running" \/ AtEnd

(* The event that answers the command at hand, the last one posted.        *)
Answer(p) == Evt[p].type = "command" /\ Evt[p].ptr = Commands /\ After(p) = evtEnq

(* The phases of RecoverEndpoint: a command is to be given, carried out,   *)
(* or answered.                                                            *)
ToGive ==
  /\ queue = <<>> /\ \A p \in Unread : Evt[p].type = "transfer"
  /\ \/ todo = <<"stop", "reset", "setdeq">>
     \/ todo = <<"reset", "setdeq">> /\ Quiet
     \/ todo = <<"setdeq">> /\ Quiet /\ endpoint # "halted"

ToExecute ==
  /\ Len(queue) = 1 /\ queue[1].n = Commands /\ \A p \in Unread : Evt[p].type = "transfer"
  /\ \/ todo = <<"reset", "setdeq">> /\ queue[1].kind = "stop"
     \/ todo = <<"setdeq">> /\ queue[1].kind = "reset" /\ Quiet
     \/ /\ todo = <<>> /\ queue[1].kind = "setdeq" /\ Quiet /\ endpoint # "halted"
        /\ queue[1].to = [pos |-> R.Enq, cycle |-> R.Cycle]

ToAnswer ==
  /\ queue = <<>>
  /\ \E a \in Unread : Answer(a) /\ \A p \in Unread \ {a} : Evt[p].type = "transfer"
  /\ \/ todo = <<"reset", "setdeq">> /\ Quiet
     \/ todo = <<"setdeq">> /\ Quiet /\ endpoint # "halted"
     \/ todo = <<>> /\ AtEnd /\ endpoint # "halted"

Recovering ==
  /\ pc \in {"command", "cmdwait"} => ret \in {"fail", "cleared"}
  /\ pc = "command" => ToGive
  /\ pc = "cmdwait" => ToExecute \/ ToAnswer

(* What the wait for a transfer ends with.                                 *)
EndedAt(e, k) ==
  /\ e.type = "transfer" /\ e.ptr = TrbPhys[k]
  /\ \/ /\ e.code \in {"success", "short"} /\ AtEnd /\ endpoint # "halted"
        /\ Bounce = [td |-> Td, bytes |-> 2 * (k - 1) + (2 - e.residue)]
     \/ e.code \in {"stall", "error"} /\ endpoint = "halted"

Transferring ==
  pc = "wait" =>
    /\ queue = <<>> /\ todo = <<>>
    /\ Unread # {} => Unread = {EvtDeq} /\ \E k \in 1..Len(TrbPhys) : EndedAt(Evt[EvtDeq], k)

Resting ==
  pc = "idle" =>
    /\ queue = <<>> /\ todo = <<>> /\ Unread = {}
    /\ IF ret = "stall" THEN endpoint = "halted" ELSE AtEnd /\ endpoint # "halted"
    /\ ret = "ok" => Bounce = [td |-> Td, bytes |-> Actual]

(* The controller is at the TD at hand or at its end.                      *)
Where ==
  \/ AtEnd
  \/ Len(TrbPhys) \in {1, 2} /\ AtTrb(1)
  \/ Len(TrbPhys) = 2 /\ AtTrb(2) /\ Bounce = [td |-> Td, bytes |-> 2]

Patient == ~session.commandsTimeOut

InStep == Patient => Where /\ Recovering /\ Transferring /\ Resting

BusInv ==
  /\ EventTypes /\ CallTypes /\ ControllerTypes
  /\ TdInRing /\ EventsFilled /\ InStep

------------------------------------------------------------------------------
(* The event ring. *)

LEMMA EvtSizeFact == EvtSize \in Nat /\ EvtSize > 1
BY XhciConstants

LEMMA AfterIs ==
  ASSUME NEW p \in 0..(EvtSize - 1)
  PROVE  After(p) = (IF p + 1 = EvtSize THEN 0 ELSE p + 1) /\ After(p) \in 0..(EvtSize - 1)
<1>1. CASE p + 1 = EvtSize
  <2>1. (p + 1) % EvtSize = 0
    BY <1>1, EvtSizeFact
  <2> QED BY <1>1, <2>1, EvtSizeFact DEF After
<1>2. CASE p + 1 # EvtSize
  <2>1. p + 1 \in 0..(EvtSize - 1)
    BY <1>2, EvtSizeFact
  <2>2. (p + 1) % EvtSize = p + 1
    BY <2>1, EvtSizeFact
  <2> QED BY <1>2, <2>1, <2>2 DEF After
<1> QED BY <1>1, <1>2

LEMMA EventsThere ==
  ASSUME EventTypes, EventsFilled
  PROVE  (HasEvent <=> Unread # {}) /\ (HasEvent <=> consumed < posted)
         /\ (HasEvent => EvtDeq \in Unread) /\ Unread \subseteq 0..(EvtSize - 1)
         /\ (Unread = {} => EvtDeq = evtEnq)
<1>0. /\ EvtDeq \in 0..(EvtSize - 1) /\ evtEnq \in 0..(EvtSize - 1) /\ pcs \in {0, 1} /\ EvtCycle \in {0, 1}
      /\ posted \in Nat /\ consumed \in Nat
      /\ Evt[EvtDeq].cycle = IF EvtDeq < evtEnq THEN pcs ELSE 1 - pcs
  BY DEF EventTypes, EventsFilled
<1>1. CASE EvtCycle = pcs /\ EvtDeq <= evtEnq /\ posted = consumed + (evtEnq - EvtDeq)
  <2>1. HasEvent <=> EvtDeq < evtEnq
    BY <1>0, <1>1 DEF HasEvent
  <2>2. Unread = {p \in 0..(EvtSize - 1) : EvtDeq <= p /\ p < evtEnq}
    BY <1>1 DEF Unread
  <2>3. EvtDeq < evtEnq <=> Unread # {}
    BY <1>0, <2>2, EvtSizeFact
  <2>4. EvtDeq < evtEnq => EvtDeq \in Unread
    BY <1>0, <2>2, EvtSizeFact
  <2> QED BY <1>0, <1>1, <2>1, <2>2, <2>3, <2>4
<1>2. CASE EvtCycle = 1 - pcs /\ evtEnq < EvtDeq /\ posted = consumed + (EvtSize - EvtDeq + evtEnq)
  <2>1. HasEvent
    BY <1>0, <1>2 DEF HasEvent
  <2>2. Unread = {p \in 0..(EvtSize - 1) : EvtDeq <= p \/ p < evtEnq}
    BY <1>0, <1>2 DEF Unread
  <2>3. EvtDeq \in Unread
    BY <1>0, <2>2, EvtSizeFact
  <2>4. consumed < posted
    BY <1>0, <1>2, EvtSizeFact
  <2> QED BY <2>1, <2>2, <2>3, <2>4
<1> QED BY <1>1, <1>2 DEF EventsFilled

(* The driver reads the oldest.                                            *)
LEMMA EventRead ==
  ASSUME EventTypes, EventsFilled, PopEvent, UNCHANGED events
  PROVE  /\ EventTypes' /\ EventsFilled'
         /\ EvtDeq \in Unread /\ Unread' = Unread \ {EvtDeq}
         /\ UNCHANGED <<Evt, evtEnq>>
<1>0. /\ EvtDeq \in 0..(EvtSize - 1) /\ evtEnq \in 0..(EvtSize - 1) /\ pcs \in {0, 1} /\ EvtCycle \in {0, 1}
      /\ posted \in Nat /\ consumed \in Nat /\ EvtDeq \in Unread
      /\ UNCHANGED <<Evt, evtEnq, pcs, posted>>
      /\ Unread \subseteq 0..(EvtSize - 1)
  BY EventsThere DEF EventTypes, PopEvent, events
<1>1. /\ EvtDeq' = IF EvtDeq + 1 = EvtSize THEN 0 ELSE EvtDeq + 1
      /\ EvtCycle' = IF EvtDeq' = 0 THEN 1 - EvtCycle ELSE EvtCycle
      /\ erdp' = EvtDeq' /\ consumed' = consumed + 1
  BY DEF PopEvent
<1>2. EventTypes'
  BY <1>0, <1>1, EvtSizeFact DEF EventTypes
<1>3. CASE EvtCycle = pcs /\ EvtDeq <= evtEnq /\ posted = consumed + (evtEnq - EvtDeq)
  <2>1. Unread = {p \in 0..(EvtSize - 1) : EvtDeq <= p /\ p < evtEnq} /\ EvtDeq < evtEnq
    BY <1>0, <1>3 DEF Unread
  <2>2. EvtDeq' = EvtDeq + 1 /\ EvtCycle' = EvtCycle
    BY <1>0, <1>1, <2>1
  <2>3. Unread' = {p \in 0..(EvtSize - 1) : EvtDeq + 1 <= p /\ p < evtEnq}
    BY <1>0, <1>3, <2>2 DEF Unread
  <2>4. Unread' = Unread \ {EvtDeq}
    BY <1>0, <2>1, <2>3, EvtSizeFact
  <2>5. EventsFilled'
    BY <1>0, <1>1, <1>3, <2>1, <2>2 DEF EventsFilled
  <2> QED BY <1>0, <1>2, <2>4, <2>5
<1>4. CASE EvtCycle = 1 - pcs /\ evtEnq < EvtDeq /\ posted = consumed + (EvtSize - EvtDeq + evtEnq)
  <2>1. Unread = {p \in 0..(EvtSize - 1) : EvtDeq <= p \/ p < evtEnq}
    BY <1>0, <1>4 DEF Unread
  <2>2. CASE EvtDeq + 1 = EvtSize
    <3>1. EvtDeq' = 0 /\ EvtCycle' = pcs
      BY <1>0, <1>1, <1>4, <2>2
    <3>2. Unread' = {p \in 0..(EvtSize - 1) : 0 <= p /\ p < evtEnq}
      BY <1>0, <3>1 DEF Unread
    <3>3. Unread' = Unread \ {EvtDeq}
      BY <1>0, <1>4, <2>1, <2>2, <3>2, EvtSizeFact
    <3>4. EventsFilled'
      BY <1>0, <1>1, <1>4, <2>2, <3>1 DEF EventsFilled
    <3> QED BY <1>0, <1>2, <3>3, <3>4
  <2>3. CASE EvtDeq + 1 # EvtSize
    <3>1. EvtDeq' = EvtDeq + 1 /\ EvtCycle' = 1 - pcs
      BY <1>0, <1>1, <1>4, <2>3
    <3>2. Unread' = {p \in 0..(EvtSize - 1) : EvtDeq + 1 <= p \/ p < evtEnq}
      BY <1>0, <3>1 DEF Unread
    <3>3. Unread' = Unread \ {EvtDeq}
      BY <1>0, <1>4, <2>1, <2>3, <3>2, EvtSizeFact
    <3>4. EventsFilled'
      BY <1>0, <1>1, <1>4, <2>3, <3>1, EvtSizeFact DEF EventsFilled
    <3> QED BY <1>0, <1>2, <3>3, <3>4
  <2> QED BY <2>2, <2>3
<1> QED BY <1>3, <1>4 DEF EventsFilled

(* The controller posts one more.                                          *)
LEMMA EventPosted ==
  ASSUME EventTypes, EventsFilled, NEW type, NEW ptr, NEW code, NEW residue,
         Post(type, ptr, code, residue),
         [type |-> type, ptr |-> ptr, code |-> code, residue |-> residue, cycle |-> pcs] \in Event,
         UNCHANGED reader
  PROVE  /\ EventTypes' /\ EventsFilled'
         /\ evtEnq \in 0..(EvtSize - 1) /\ evtEnq \notin Unread /\ Unread' = Unread \cup {evtEnq}
         /\ After(evtEnq) = evtEnq' /\ EvtDeq' = EvtDeq
         /\ Evt'[evtEnq] = [type |-> type, ptr |-> ptr, code |-> code, residue |-> residue, cycle |-> pcs]
         /\ \A p \in Unread : Evt'[p] = Evt[p]
<1> DEFINE new == [type |-> type, ptr |-> ptr, code |-> code, residue |-> residue, cycle |-> pcs]
<1>0. /\ EvtDeq \in 0..(EvtSize - 1) /\ evtEnq \in 0..(EvtSize - 1) /\ pcs \in {0, 1} /\ EvtCycle \in {0, 1}
      /\ posted \in Nat /\ consumed \in Nat /\ Evt \in [0..(EvtSize - 1) -> Event] /\ erdp = EvtDeq
      /\ UNCHANGED <<EvtDeq, EvtCycle, erdp, consumed>> /\ Unread \subseteq 0..(EvtSize - 1)
  BY EventsThere DEF EventTypes, reader
<1>1. /\ After(evtEnq) # EvtDeq /\ evtEnq' = After(evtEnq)
      /\ Evt' = [Evt EXCEPT ![evtEnq] = new] /\ posted' = posted + 1
      /\ pcs' = IF evtEnq' = 0 THEN 1 - pcs ELSE pcs
  BY <1>0 DEF Post
<1>2. After(evtEnq) = (IF evtEnq + 1 = EvtSize THEN 0 ELSE evtEnq + 1) /\ evtEnq' \in 0..(EvtSize - 1)
  BY <1>0, <1>1, AfterIs
<1>3. /\ Evt' \in [0..(EvtSize - 1) -> Event] /\ Evt'[evtEnq] = new
      /\ \A p \in 0..(EvtSize - 1) : p # evtEnq => Evt'[p] = Evt[p]
  BY <1>0, <1>1
<1>4. EventTypes'
  BY <1>0, <1>1, <1>2, <1>3 DEF EventTypes
<1>5. \A p \in 0..(EvtSize - 1) : Evt'[p].cycle = IF p <= evtEnq THEN pcs ELSE 1 - pcs
  <2>1. new.cycle = pcs
    OBVIOUS
  <2>2. \A p \in 0..(EvtSize - 1) : Evt[p].cycle = IF p < evtEnq THEN pcs ELSE 1 - pcs
    BY DEF EventsFilled
  <2> HIDE DEF new
  <2> QED BY <1>0, <1>3, <2>1, <2>2
<1>6. \A p \in 0..(EvtSize - 1) : Evt'[p].cycle = IF p < evtEnq' THEN pcs' ELSE 1 - pcs'
  <2>1. CASE evtEnq + 1 = EvtSize
    BY <1>0, <1>1, <1>2, <1>5, <2>1
  <2>2. CASE evtEnq + 1 # EvtSize
    BY <1>0, <1>1, <1>2, <1>5, <2>2
  <2> QED BY <2>1, <2>2
<1>7. CASE EvtCycle = pcs /\ EvtDeq <= evtEnq /\ posted = consumed + (evtEnq - EvtDeq)
  <2>1. Unread = {p \in 0..(EvtSize - 1) : EvtDeq <= p /\ p < evtEnq}
    BY <1>7 DEF Unread
  <2>2. CASE evtEnq + 1 = EvtSize
    <3>1. evtEnq' = 0 /\ pcs' = 1 - pcs /\ 0 < EvtDeq
      BY <1>0, <1>1, <1>2, <2>2, EvtSizeFact
    <3>2. Unread' = {p \in 0..(EvtSize - 1) : EvtDeq <= p \/ p < 0}
      BY <1>0, <1>7, <3>1 DEF Unread
    <3>3. Unread' = Unread \cup {evtEnq} /\ evtEnq \notin Unread
      BY <1>0, <1>7, <2>1, <2>2, <3>2, EvtSizeFact
    <3>4. EventsFilled'
      BY <1>0, <1>1, <1>6, <1>7, <2>2, <3>1, EvtSizeFact DEF EventsFilled
    <3> QED BY <1>0, <1>1, <1>3, <1>4, <3>3, <3>4
  <2>3. CASE evtEnq + 1 # EvtSize
    <3>1. evtEnq' = evtEnq + 1 /\ pcs' = pcs
      BY <1>0, <1>1, <1>2, <2>3
    <3>2. Unread' = {p \in 0..(EvtSize - 1) : EvtDeq <= p /\ p < evtEnq + 1}
      BY <1>0, <1>7, <3>1 DEF Unread
    <3>3. Unread' = Unread \cup {evtEnq} /\ evtEnq \notin Unread
      BY <1>0, <1>7, <2>1, <3>2, EvtSizeFact
    <3>4. EventsFilled'
      BY <1>0, <1>1, <1>6, <1>7, <3>1 DEF EventsFilled
    <3> QED BY <1>0, <1>1, <1>3, <1>4, <3>3, <3>4
  <2> QED BY <2>2, <2>3
<1>8. CASE EvtCycle = 1 - pcs /\ evtEnq < EvtDeq /\ posted = consumed + (EvtSize - EvtDeq + evtEnq)
  <2>1. Unread = {p \in 0..(EvtSize - 1) : EvtDeq <= p \/ p < evtEnq}
    BY <1>0, <1>8 DEF Unread
  <2>2. evtEnq' = evtEnq + 1 /\ pcs' = pcs /\ evtEnq + 1 < EvtDeq
    BY <1>0, <1>1, <1>2, <1>8
  <2>3. Unread' = {p \in 0..(EvtSize - 1) : EvtDeq <= p \/ p < evtEnq + 1}
    BY <1>0, <1>8, <2>2 DEF Unread
  <2>4. Unread' = Unread \cup {evtEnq} /\ evtEnq \notin Unread
    BY <1>0, <1>8, <2>1, <2>3, EvtSizeFact
  <2>5. EventsFilled'
    BY <1>0, <1>1, <1>6, <1>8, <2>2, EvtSizeFact DEF EventsFilled
  <2> QED BY <1>0, <1>1, <1>3, <1>4, <2>4, <2>5
<1> QED BY <1>7, <1>8 DEF EventsFilled

(* Nothing happens to the events.                                          *)
LEMMA EventsStay ==
  ASSUME EventTypes, EventsFilled, UNCHANGED <<reader, events>>
  PROVE  /\ EventTypes' /\ EventsFilled' /\ Unread' = Unread /\ UNCHANGED <<EvtDeq, Evt, evtEnq>>
BY DEF EventTypes, EventsFilled, Unread, reader, events

(* The only event that is not read is the last one posted.                 *)
LEMMA LastOne ==
  ASSUME EventTypes, EventsFilled, EvtDeq \in Unread, After(EvtDeq) = evtEnq
  PROVE  Unread = {EvtDeq}
<1>0. /\ EvtDeq \in 0..(EvtSize - 1) /\ evtEnq \in 0..(EvtSize - 1) /\ pcs \in {0, 1} /\ EvtCycle \in {0, 1}
  BY DEF EventTypes
<1>1. After(EvtDeq) = IF EvtDeq + 1 = EvtSize THEN 0 ELSE EvtDeq + 1
  BY <1>0, AfterIs
<1>2. CASE EvtCycle = pcs /\ EvtDeq <= evtEnq
  <2>1. evtEnq = EvtDeq + 1
    BY <1>0, <1>1, <1>2 DEF Unread
  <2> QED BY <1>0, <1>2, <2>1, EvtSizeFact DEF Unread
<1>3. CASE EvtCycle = 1 - pcs /\ evtEnq < EvtDeq
  <2>1. evtEnq = 0 /\ EvtDeq + 1 = EvtSize
    BY <1>0, <1>1, <1>3
  <2> QED BY <1>0, <1>3, <2>1, EvtSizeFact DEF Unread
<1> QED BY <1>2, <1>3 DEF EventsFilled

LEMMA NextFree ==
  ASSUME EventTypes
  PROVE  evtEnq \in 0..(EvtSize - 1) /\ (EventsFilled => evtEnq \notin Unread)
BY DEF EventTypes, EventsFilled, Unread

------------------------------------------------------------------------------
(* The transfer ring. *)

LEMMA SessionFacts ==
  ASSUME session \in Sessions
  PROVE  /\ Link \in Nat /\ Link >= 2 /\ session.maxTds \in Nat
         /\ session.commandsTimeOut \in BOOLEAN /\ session.transfersTimeOut \in BOOLEAN
<1>1. session.ringSize \in Nat \ 0..2 /\ session.maxTds \in Nat /\ session.commandsTimeOut \in BOOLEAN
      /\ session.transfersTimeOut \in BOOLEAN
  BY XhciConstants
<1> QED BY <1>1 DEF Link, RingSize

(* What RingPush changes of the record of a ring.                          *)
LEMMA Changes ==
  ASSUME NEW Bases, NEW Places, NEW Bits, NEW r \in [Base : Bases, Enq : Places, Cycle : Bits],
         NEW e, NEW trb, NEW next \in Places, [r.Base EXCEPT ![e] = trb] \in Bases
  PROVE  LET x == [r EXCEPT !.Base[e] = trb, !.Enq = next]
         IN  /\ x.Base = [r.Base EXCEPT ![e] = trb] /\ x.Enq = next /\ x.Cycle = r.Cycle
             /\ x \in [Base : Bases, Enq : Places, Cycle : Bits]
OBVIOUS

LEMMA LapChanges ==
  ASSUME NEW Bases, NEW Places, NEW Bits, NEW r \in [Base : Bases, Enq : Places, Cycle : Bits],
         NEW e, NEW bit, NEW next \in Places, NEW other \in Bits, [r.Base EXCEPT ![e].cycle = bit] \in Bases
  PROVE  LET x == [r EXCEPT !.Base[e].cycle = bit, !.Enq = next, !.Cycle = other]
         IN  /\ x.Base = [r.Base EXCEPT ![e].cycle = bit] /\ x.Enq = next /\ x.Cycle = other
             /\ x \in [Base : Bases, Enq : Places, Cycle : Bits]
OBVIOUS

(* RingPush puts a TRB where the ring goes on, and goes on after it.       *)
LEMMA Pushed ==
  ASSUME Link \in Nat, Link >= 2, NEW r \in Ring, NEW trb \in Slot, Filled(r)
  PROVE  LET a == RingPush(r, trb)
         IN  /\ a \in Ring /\ Filled(a)
             /\ a.Enq = Follows(r.Enq) /\ a.Cycle = CycleAfter(r.Enq, r.Cycle)
             /\ a.Base[r.Enq] = [trb EXCEPT !.cycle = r.Cycle]
             /\ \A p \in 0..(Link - 1) : p # r.Enq => a.Base[p] = r.Base[p]
             /\ a.Base[Link].td = r.Base[Link].td /\ a.Base[Link].k = r.Base[Link].k
             /\ a.Base[Link].n = r.Base[Link].n
<1> DEFINE new == [trb EXCEPT !.cycle = r.Cycle]
           base == [r.Base EXCEPT ![r.Enq] = new]
           one == [r EXCEPT !.Base[r.Enq] = new, !.Enq = r.Enq + 1]
           a == RingPush(r, trb)
<1>0. /\ r.Enq \in 0..(Link - 1) /\ r.Cycle \in {0, 1} /\ r.Base \in [0..Link -> Slot]
      /\ r \in [Base : [0..Link -> Slot], Enq : 0..Link, Cycle : {0, 1}]
  BY DEF Ring
<1>1. new \in Slot /\ new.cycle = r.Cycle
  BY <1>0 DEF Slot
<1>2. /\ base \in [0..Link -> Slot] /\ base[r.Enq] = new
      /\ \A p \in 0..Link : p # r.Enq => base[p] = r.Base[p]
  <2> HIDE DEF new
  <2> QED BY <1>0, <1>1
<1>3. /\ one.Base = base /\ one.Enq = r.Enq + 1 /\ one.Cycle = r.Cycle
      /\ one \in [Base : [0..Link -> Slot], Enq : 0..Link, Cycle : {0, 1}]
  <2>1. r.Enq + 1 \in 0..Link
    BY <1>0
  <2> HIDE DEF new
  <2> QED BY <1>0, <1>2, <2>1, Changes
<1>4. CASE r.Enq + 1 # Link
  <2>1. a = one
    <3> HIDE DEF one
    <3>1. a = IF one.Enq # Link THEN one ELSE a
      BY DEF RingPush, one
    <3> QED BY <1>3, <1>4, <3>1
  <2> HIDE DEF one, base, a, new
  <2>2. a \in Ring
    <3>1. one.Enq \in 0..(Link - 1)
      BY <1>0, <1>3, <1>4
    <3> QED BY <1>3, <2>1, <3>1 DEF Ring
  <2>3. Filled(a)
    <3>1. \A p \in 0..(Link - 1) : base[p].cycle = IF p < r.Enq + 1 THEN r.Cycle ELSE 1 - r.Cycle
      BY <1>0, <1>1, <1>2 DEF Filled
    <3>2. base[Link].cycle = 1 - r.Cycle
      BY <1>0, <1>2 DEF Filled
    <3> QED BY <1>3, <2>1, <3>1, <3>2 DEF Filled
  <2>4. a.Base = base /\ a.Enq = r.Enq + 1 /\ a.Cycle = r.Cycle
    BY <1>3, <2>1
  <2>5. r.Enq + 1 = Follows(r.Enq) /\ r.Cycle = CycleAfter(r.Enq, r.Cycle)
    BY <1>4 DEF Follows, CycleAfter
  <2>6. base[Link] = r.Base[Link] /\ \A p \in 0..(Link - 1) : p # r.Enq => base[p] = r.Base[p]
    BY <1>0, <1>2
  <2> QED BY <1>2, <2>2, <2>3, <2>4, <2>5, <2>6 DEF a, new
<1>5. CASE r.Enq + 1 = Link
  <2> DEFINE link == [base[Link] EXCEPT !.cycle = r.Cycle]
             full == [base EXCEPT ![Link].cycle = r.Cycle]
  <2>1. base[Link] = r.Base[Link] /\ r.Base[Link] \in Slot
    <3> HIDE DEF base
    <3> QED BY <1>0, <1>2
  <2>2. link \in Slot /\ link.cycle = r.Cycle
        /\ link.td = r.Base[Link].td /\ link.k = r.Base[Link].k /\ link.n = r.Base[Link].n
    <3> HIDE DEF base
    <3> QED BY <1>0, <2>1 DEF Slot
  <2>3. /\ full \in [0..Link -> Slot] /\ full[Link] = link
        /\ \A p \in 0..(Link - 1) : full[p] = base[p]
    <3>1. full = [base EXCEPT ![Link] = link]
      OBVIOUS
    <3> HIDE DEF base, link, full
    <3> QED BY <1>2, <2>2, <3>1
  <2>4. a = [one EXCEPT !.Base[Link].cycle = one.Cycle, !.Enq = 0, !.Cycle = 1 - one.Cycle]
    <3> HIDE DEF one
    <3>1. a = IF one.Enq # Link THEN one
              ELSE [one EXCEPT !.Base[Link].cycle = one.Cycle, !.Enq = 0, !.Cycle = 1 - one.Cycle]
      BY DEF RingPush, one
    <3> QED BY <1>3, <1>5, <3>1
  <2> HIDE DEF one, base, a, new
  <2>5. /\ a.Base = full /\ a.Enq = 0 /\ a.Cycle = 1 - r.Cycle
        /\ a \in [Base : [0..Link -> Slot], Enq : 0..Link, Cycle : {0, 1}]
    <3>1. 0 \in 0..Link /\ 1 - one.Cycle \in {0, 1}
      BY <1>0, <1>3
    <3>2. [one.Base EXCEPT ![Link].cycle = one.Cycle] = full
      BY <1>3
    <3> HIDE DEF full
    <3> QED BY <1>3, <2>3, <2>4, <3>1, <3>2, LapChanges
  <2> HIDE DEF full, link
  <2>6. a \in Ring
    <3>1. a.Enq \in 0..(Link - 1)
      BY <2>5
    <3> QED BY <2>5, <3>1 DEF Ring
  <2>7. Filled(a)
    <3>1. \A p \in 0..(Link - 1) : full[p].cycle = r.Cycle
      <4>1. \A p \in 0..(Link - 1) : p < r.Enq \/ p = r.Enq
        BY <1>0, <1>5
      <4> QED BY <1>0, <1>1, <1>2, <2>3, <4>1 DEF Filled
    <3>2. full[Link].cycle = r.Cycle /\ 1 - (1 - r.Cycle) = r.Cycle
      BY <1>0, <2>2, <2>3
    <3>3. \A p \in 0..(Link - 1) : ~(p < 0)
      OBVIOUS
    <3> QED BY <2>5, <3>1, <3>2, <3>3 DEF Filled
  <2> QED BY <1>0, <1>2, <1>5, <2>2, <2>3, <2>5, <2>6, <2>7 DEF Follows, CycleAfter, new, a
<1> QED BY <1>4, <1>5

(* The TRBs of a new TD.                                                   *)
LEMMA TrbSet ==
  ASSUME NEW Tds, NEW Ks, NEW Ns, NEW Bits, NEW t \in [td : Tds, k : Ks, n : Ns, cycle : Bits],
         NEW td \in Tds, NEW k \in Ks, NEW n \in Ns
  PROVE  LET new == [t EXCEPT !.td = td, !.k = k, !.n = n]
         IN  /\ new \in [td : Tds, k : Ks, n : Ns, cycle : Bits]
             /\ new.td = td /\ new.k = k /\ new.n = n
OBVIOUS

LEMMA NewTrb ==
  ASSUME session.maxTds \in Nat, NEW td \in 0..session.maxTds, NEW k \in {0, 1}, NEW n \in {1, 2},
         NEW c \in {0, 1}
  PROVE  LET new == [Trb(td, k, n) EXCEPT !.cycle = c]
         IN  /\ Trb(td, k, n) \in Slot
             /\ new.td = td /\ new.k = k /\ new.n = n /\ new.cycle = c
<1>1. NoTrb \in Slot
  BY DEF NoTrb, Slot
<1>2. n \in 0..2
  OBVIOUS
<1> HIDE DEF NoTrb
<1>3. /\ Trb(td, k, n) \in Slot
      /\ Trb(td, k, n).td = td /\ Trb(td, k, n).k = k /\ Trb(td, k, n).n = n
  BY <1>1, <1>2, TrbSet DEF Trb, Slot
<1> HIDE DEF Trb
<1> QED BY <1>3 DEF Slot

(* Where the TRBs of the TD are.                                           *)
LEMMA PlacesApart ==
  ASSUME Link \in Nat, Link >= 2, NEW p \in 0..(Link - 1)
  PROVE  Follows(p) \in 0..(Link - 1) /\ Follows(p) # p
BY DEF Follows

(* At the end of the last TD there is nothing to be run.                   *)
LEMMA NothingAtEnd ==
  ASSUME CallTypes, ControllerTypes, TdInRing, AtEnd
  PROVE  ~(Available /\ deq # Link)
<1>1. R.Enq \in 0..(Link - 1) /\ R.Cycle \in {0, 1}
  BY DEF CallTypes, Ring
<1>2. R.Base[R.Enq].cycle = 1 - R.Cycle
  <2>1. Link \in Nat
    BY SessionFacts DEF CallTypes
  <2> QED BY <1>1, <2>1 DEF TdInRing, Filled
<1> QED BY <1>1, <1>2 DEF AtEnd, Available, Place, PlaceCycle

(* What stays as it is when neither ring nor controller moves.             *)
LEMMA RingStays ==
  ASSUME UNCHANGED <<session, R, Td, TrbPhys>>
  PROVE  /\ (TdInRing => TdInRing') /\ Link' = Link
         /\ (UNCHANGED <<deq, ccs>> =>
               /\ AtEnd' = AtEnd /\ \A k \in {1, 2} : AtTrb(k)' = AtTrb(k)
               /\ (UNCHANGED endpoint => Quiet' = Quiet)
               /\ (UNCHANGED Bounce => Where' = Where))
<1>1. Link' = Link
  BY DEF Link, RingSize
<1>2. TdInRing => TdInRing'
  BY <1>1 DEF TdInRing, Filled, TrbIs, EndsAfter, Follows, CycleAfter
<1>3. ASSUME UNCHANGED <<deq, ccs>>
      PROVE  AtEnd' = AtEnd /\ \A k \in {1, 2} : AtTrb(k)' = AtTrb(k)
  BY <1>1, <1>3 DEF AtEnd, AtTrb, Place, PlaceCycle
<1>4. ASSUME UNCHANGED <<deq, ccs>>, UNCHANGED endpoint PROVE Quiet' = Quiet
  BY <1>3, <1>4 DEF Quiet
<1>5. ASSUME UNCHANGED <<deq, ccs>>, UNCHANGED Bounce PROVE Where' = Where
  <2>1. AtEnd' = AtEnd /\ AtTrb(1)' = AtTrb(1) /\ AtTrb(2)' = AtTrb(2)
    BY <1>3, <1>5
  <2> QED BY <1>5, <2>1 DEF Where
<1> QED BY <1>1, <1>2, <1>3, <1>4, <1>5

------------------------------------------------------------------------------
LEMMA InSeq ==
  ASSUME NEW S, NEW s \in Seq(S), NEW i \in 1..Len(s)
  PROVE  s[i] \in S
OBVIOUS

LEMMA AtMostTwo ==
  ASSUME CallTypes, NEW k \in 1..Len(TrbPhys)
  PROVE  Len(TrbPhys) \in {1, 2} /\ k \in {1, 2} /\ (k # Len(TrbPhys) => k = 1 /\ Len(TrbPhys) = 2)
<1>1. Len(TrbPhys) \in Nat /\ Len(TrbPhys) <= 2
  BY DEF CallTypes
<1>2. \A n \in Nat : \A j \in 1..n : n <= 2 => n \in {1, 2} /\ j \in {1, 2} /\ (j # n => j = 1 /\ n = 2)
  OBVIOUS
<1> QED BY <1>1, <1>2

LEMMA OnlyOne ==
  ASSUME NEW S, NEW s \in Seq(S), Len(s) = 1
  PROVE  Head(s) = s[1] /\ Tail(s) = <<>>
<1>1. Tail(s) \in Seq(S) /\ Len(Tail(s)) = 0
  OBVIOUS
<1>2. \A t \in Seq(S) : Len(t) = 0 => t = <<>>
  BY EmptySeq
<1>3. Head(s) = s[1]
  OBVIOUS
<1>4. Tail(s) = <<>>
  BY <1>1, <1>2, Zenon
<1> QED BY <1>3, <1>4

(* The controller where it has something to execute. *)

(* Then the driver waits for the transfer, or has given it up but not      *)
(* stopped the endpoint yet.                                               *)
LEMMA StillRunning ==
  ASSUME EventTypes, CallTypes, ControllerTypes, TdInRing, EventsFilled, InStep, Patient,
         Available, deq # Link
  PROVE  /\ ~AtEnd /\ endpoint = "running"
         /\ \/ pc = "wait" /\ Unread = {} /\ queue = <<>> /\ todo = <<>>
            \/ /\ pc = "command" /\ ret \in {"fail", "cleared"}
               /\ ToGive /\ todo = <<"stop", "reset", "setdeq">>
            \/ /\ pc = "cmdwait" /\ ret \in {"fail", "cleared"}
               /\ ToExecute /\ todo = <<"reset", "setdeq">> /\ queue[1].kind = "stop"
<1>1. ~AtEnd /\ endpoint = "running"
  BY NothingAtEnd DEF Available
<1>2. ~Quiet
  BY <1>1 DEF Quiet
<1>3. CASE pc = "idle"
  BY <1>1, <1>3 DEF InStep, Resting
<1>4. CASE pc = "wait"
  <2>1. \A k \in 1..Len(TrbPhys) : ~EndedAt(Evt[EvtDeq], k)
    BY <1>1 DEF EndedAt
  <2> QED BY <1>1, <1>4, <2>1 DEF InStep, Transferring
<1>5. CASE pc = "command"
  BY <1>1, <1>2, <1>5 DEF InStep, Recovering, ToGive
<1>6. CASE pc = "cmdwait"
  BY <1>1, <1>2, <1>6 DEF InStep, Recovering, ToExecute, ToAnswer
<1> QED BY <1>3, <1>4, <1>5, <1>6 DEF CallTypes

(* It is at a TRB of the TD at hand.                                       *)
LEMMA AtCurrent ==
  ASSUME EventTypes, CallTypes, ControllerTypes, TdInRing, EventsFilled, InStep, Patient,
         Available, deq # Link
  PROVE  \E k \in 1..Len(TrbPhys) :
           /\ k \in {1, 2} /\ deq = TrbPhys[k] /\ ccs = R.Base[TrbPhys[k]].cycle /\ TrbIs(k)
           /\ k = 2 => Bounce = [td |-> Td, bytes |-> 2]
<1>1. Place = deq /\ PlaceCycle = ccs
  BY DEF Place, PlaceCycle
<1>2. CASE Len(TrbPhys) \in {1, 2} /\ AtTrb(1)
  <2>1. 1 \in 1..Len(TrbPhys)
    BY <1>2
  <2> QED BY <1>1, <1>2, <2>1 DEF AtTrb, TdInRing
<1>3. CASE Len(TrbPhys) = 2 /\ AtTrb(2) /\ Bounce = [td |-> Td, bytes |-> 2]
  <2>1. 2 \in 1..Len(TrbPhys)
    BY <1>3
  <2> QED BY <1>1, <1>3, <2>1 DEF AtTrb, TdInRing
<1> QED BY <1>2, <1>3, StillRunning DEF InStep, Where

(* Where Advance leads to.                                                 *)
LEMMA Advanced ==
  ASSUME Link \in Nat, Link >= 2, Link' = Link, deq \in 0..Link, deq # Link, ccs \in {0, 1},
         NEW m \in -1..1, Advance(m)
  PROVE  /\ deq' \in 0..Link /\ ccs' \in {0, 1}
         /\ m = 0 => Place' = Follows(deq) /\ PlaceCycle' = CycleAfter(deq, ccs)
         /\ m = 1 => /\ Place' = Follows(Follows(deq))
                     /\ PlaceCycle' = CycleAfter(Follows(deq), CycleAfter(deq, ccs))
<1>1. deq' = IF deq + 1 + m <= Link THEN deq + 1 + m ELSE deq + 1 + m - Link
  BY DEF Advance
<1>2. ccs' = IF deq + 1 + m <= Link THEN ccs ELSE 1 - ccs
  BY DEF Advance
<1>3. Place' = (IF deq' = Link THEN 0 ELSE deq') /\ PlaceCycle' = IF deq' = Link THEN 1 - ccs' ELSE ccs'
  BY DEF Place, PlaceCycle
<1>4. deq' \in 0..Link /\ ccs' \in {0, 1}
  BY <1>1, <1>2
<1>5. CASE m = 0
  BY <1>1, <1>2, <1>3, <1>4, <1>5 DEF Follows, CycleAfter
<1>6. CASE m = 1
  <2>1. CASE deq + 2 <= Link
    BY <1>1, <1>2, <1>3, <1>6, <2>1 DEF Follows, CycleAfter
  <2>2. CASE deq + 2 > Link
    BY <1>1, <1>2, <1>3, <1>6, <2>2 DEF Follows, CycleAfter
  <2> QED BY <2>1, <2>2
<1> QED BY <1>4, <1>5, <1>6

(* The TRB it is at.                                                       *)
LEMMA TrbFacts ==
  ASSUME CallTypes, ControllerTypes, deq # Link
  PROVE  /\ Link \in Nat /\ Link >= 2 /\ deq \in 0..(Link - 1) /\ ccs \in {0, 1}
         /\ R.Base[deq] \in Slot /\ R.Base[deq].td \in 0..session.maxTds /\ R.Base[deq].k \in {0, 1}
         /\ R.Base[deq].n \in 0..2
         /\ R.Base[deq].n - 1 - R.Base[deq].k \in -1..1
<1>1. Link \in Nat /\ Link >= 2
  BY SessionFacts DEF CallTypes
<1>2. deq \in 0..Link /\ ccs \in {0, 1} /\ deq \in 0..(Link - 1)
  BY <1>1 DEF ControllerTypes
<1>3. R.Base \in [0..Link -> Slot]
  BY DEF CallTypes, Ring
<1>4. R.Base[deq] \in Slot
  BY <1>2, <1>3
<1>5. R.Base[deq].k = 0 \/ R.Base[deq].k < R.Base[deq].n
  BY <1>2 DEF CallTypes
<1>6. R.Base[deq].td \in 0..session.maxTds /\ R.Base[deq].k \in {0, 1} /\ R.Base[deq].n \in 0..2
  BY <1>4 DEF Slot
<1>7. R.Base[deq].n - 1 - R.Base[deq].k \in -1..1
  BY <1>5, <1>6
<1> QED BY <1>1, <1>2, <1>4, <1>6, <1>7

------------------------------------------------------------------------------
(* The driver's steps. *)

LEMMA CallStays ==
  ASSUME CallTypes, TdInRing, UNCHANGED <<session, call>>
  PROVE  CallTypes' /\ TdInRing' /\ Link' = Link /\ UNCHANGED <<session, R, pc, Td, TrbPhys, Actual, ret,
           todo, Commands>>
<1>1. UNCHANGED <<session, R, pc, Td, TrbPhys, Actual, ret, todo, Commands>>
  BY DEF call
<1>2. TdInRing' /\ Link' = Link
  BY <1>1, RingStays
<1>3. Slot' = Slot /\ Ring' = Ring
  BY <1>1, <1>2 DEF Slot, Ring
<1>4. CallTypes'
  BY <1>1, <1>2, <1>3 DEF CallTypes, Kinds
<1> QED BY <1>1, <1>2, <1>4

(* What the driver's waits leave alone.                                    *)
LEMMA DriverWaits ==
  ASSUME CallTypes, ControllerTypes, TdInRing, UNCHANGED <<session, R, Td, TrbPhys, deq, ccs, endpoint,
           queue>>,
         pc' \in {"idle", "wait", "command", "cmdwait"}, Actual' \in 0..4,
         ret' \in {"none", "ok", "stall", "fail", "cleared"}, todo' \in Seq(Kinds), Commands' \in Nat
  PROVE  CallTypes' /\ ControllerTypes' /\ TdInRing'
<1>1. TdInRing' /\ Link' = Link
  BY RingStays
<1>2. Slot' = Slot /\ Ring' = Ring
  BY <1>1 DEF Slot, Ring
<1>3. CallTypes'
  BY <1>1, <1>2 DEF CallTypes, Kinds
<1>4. ControllerTypes'
  BY <1>1 DEF ControllerTypes, Asked, Kinds
<1> QED BY <1>1, <1>3, <1>4

(* The TD is put in the ring.                                              *)
LEMMA TdPushed ==
  ASSUME CallTypes, ControllerTypes, TdInRing, NEW n \in {1, 2}, BulkTd(n)
  PROVE  /\ CallTypes' /\ ControllerTypes' /\ TdInRing'
         /\ Len(TrbPhys') = n /\ TrbPhys'[1] = R.Enq /\ R'.Base[R.Enq].cycle = R.Cycle
<1>0. /\ UNCHANGED <<session, deq, ccs, queue, ret, todo, Commands>>
      /\ Td' = Td + 1 /\ Td < session.maxTds /\ pc' = "wait" /\ Actual' = 0
      /\ endpoint' = IF endpoint = "stopped" THEN "running" ELSE endpoint
  BY DEF BulkTd, Doorbell
<1>1. /\ Link \in Nat /\ Link >= 2 /\ session.maxTds \in Nat /\ Td + 1 \in 0..session.maxTds
      /\ Link' = Link /\ Slot' = Slot /\ Ring' = Ring
  <2>1. Link' = Link
    BY <1>0 DEF Link, RingSize
  <2>2. session.maxTds \in Nat /\ Link \in Nat /\ Link >= 2
    BY SessionFacts DEF CallTypes
  <2>3. Td + 1 \in 0..session.maxTds
    BY <1>0, <2>2 DEF CallTypes
  <2> QED BY <1>0, <2>1, <2>2, <2>3 DEF Slot, Ring
<1>2. /\ R \in Ring /\ R.Enq \in 0..(Link - 1) /\ R.Cycle \in {0, 1} /\ Filled(R)
      /\ \A p \in 0..Link : R.Base[p].k = 0 \/ R.Base[p].k < R.Base[p].n
  BY DEF CallTypes, TdInRing, Ring
<1>3. ControllerTypes'
  BY <1>0, <1>1 DEF ControllerTypes, Asked
<1> DEFINE first == Trb(Td + 1, 0, n)
           one == RingPush(R, first)
           new == [first EXCEPT !.cycle = R.Cycle]
<1>4. first \in Slot /\ new.td = Td + 1 /\ new.k = 0 /\ new.n = n /\ new.cycle = R.Cycle
  BY <1>1, <1>2, NewTrb
<1>5. /\ one \in Ring /\ Filled(one)
      /\ one.Enq = Follows(R.Enq) /\ one.Cycle = CycleAfter(R.Enq, R.Cycle)
      /\ one.Base[R.Enq] = new
      /\ \A p \in 0..(Link - 1) : p # R.Enq => one.Base[p] = R.Base[p]
      /\ one.Base[Link].k = R.Base[Link].k /\ one.Base[Link].n = R.Base[Link].n
  <2> HIDE DEF first
  <2> QED BY <1>1, <1>2, <1>4, Pushed
<1>6. one.Enq \in 0..(Link - 1) /\ one.Enq # R.Enq /\ one.Cycle \in {0, 1}
  BY <1>1, <1>2, <1>5, PlacesApart DEF Ring
<1> HIDE DEF one, new, first
<1>7. \A p \in 0..Link : one.Base[p].k = 0 \/ one.Base[p].k < one.Base[p].n
  <2>1. \A p \in 0..Link : p = Link \/ p \in 0..(Link - 1)
    BY <1>1
  <2> QED BY <1>2, <1>4, <1>5, <2>1
<1>8. CASE n = 1
  <2>1. R' = one /\ TrbPhys' = <<R.Enq>>
    BY <1>8 DEF BulkTd, one, first
  <2>2. TrbPhys' \in Seq(0..(Link - 1)) /\ Len(TrbPhys') = 1 /\ TrbPhys'[1] = R.Enq
    BY <1>2, <2>1
  <2>3. R' \in Ring /\ \A p \in 0..Link : R'.Base[p].k = 0 \/ R'.Base[p].k < R'.Base[p].n
    BY <1>5, <1>7, <2>1
  <2>4. CallTypes'
    BY <1>0, <1>1, <2>2, <2>3 DEF CallTypes, Kinds
  <2>5. Filled(R)' /\ R'.Base[R.Enq].cycle = R.Cycle
    BY <1>0, <1>1, <1>4, <1>5, <2>1 DEF Filled
  <2>6. TrbIs(1)' /\ EndsAfter(1)'
    BY <1>0, <1>1, <1>4, <1>5, <1>8, <2>1, <2>2, <2>5 DEF TrbIs, EndsAfter, Follows, CycleAfter
  <2>7. TdInRing'
    BY <2>2, <2>5, <2>6 DEF TdInRing
  <2> QED BY <1>3, <1>8, <2>2, <2>4, <2>5, <2>7
<1>9. CASE n = 2
  <2> DEFINE second == Trb(Td + 1, 1, n)
             next == [second EXCEPT !.cycle = one.Cycle]
             two == RingPush(one, second)
  <2>1. second \in Slot /\ next.td = Td + 1 /\ next.k = 1 /\ next.n = n /\ next.cycle = one.Cycle
    BY <1>1, <1>6, NewTrb
  <2>2. /\ two \in Ring /\ Filled(two)
        /\ two.Enq = Follows(one.Enq) /\ two.Cycle = CycleAfter(one.Enq, one.Cycle)
        /\ two.Base[one.Enq] = next
        /\ \A p \in 0..(Link - 1) : p # one.Enq => two.Base[p] = one.Base[p]
        /\ two.Base[Link].k = one.Base[Link].k /\ two.Base[Link].n = one.Base[Link].n
    <3> HIDE DEF second
    <3> QED BY <1>1, <1>5, <2>1, Pushed
  <2> HIDE DEF two, next, second
  <2>3. R' = two /\ TrbPhys' = <<R.Enq, one.Enq>>
    BY <1>9 DEF BulkTd, one, first, two, second
  <2>4. /\ TrbPhys' \in Seq(0..(Link - 1)) /\ Len(TrbPhys') = 2
        /\ TrbPhys'[1] = R.Enq /\ TrbPhys'[2] = one.Enq
    BY <1>2, <1>6, <2>3
  <2>5. R' \in Ring /\ \A p \in 0..Link : R'.Base[p].k = 0 \/ R'.Base[p].k < R'.Base[p].n
    <3>1. \A p \in 0..Link : p = Link \/ p \in 0..(Link - 1)
      BY <1>1
    <3>2. next.k < next.n
      BY <1>9, <2>1
    <3> QED BY <1>7, <2>2, <2>3, <3>1, <3>2
  <2>6. CallTypes'
    BY <1>0, <1>1, <2>4, <2>5 DEF CallTypes, Kinds
  <2>7. /\ R'.Base[R.Enq] = new /\ R'.Base[one.Enq] = next
        /\ R'.Enq = Follows(one.Enq) /\ R'.Cycle = CycleAfter(one.Enq, one.Cycle)
    BY <1>2, <1>5, <1>6, <2>2, <2>3
  <2>8. Filled(R)'
    BY <1>1, <2>2, <2>3 DEF Filled
  <2>9. TrbIs(1)' /\ TrbIs(2)' /\ EndsAfter(2)'
    BY <1>0, <1>1, <1>4, <1>9, <2>1, <2>4, <2>7 DEF TrbIs, EndsAfter, Follows, CycleAfter
  <2>10. /\ TrbPhys'[2] = Follows(TrbPhys'[1])
         /\ R'.Base[TrbPhys'[2]].cycle = CycleAfter(TrbPhys'[1], R'.Base[TrbPhys'[1]].cycle)
    BY <1>4, <1>5, <2>1, <2>4, <2>7
  <2>11. TdInRing'
    BY <1>1, <2>4, <2>8, <2>9, <2>10 DEF TdInRing, Follows, CycleAfter
  <2> QED BY <1>3, <1>4, <1>9, <2>4, <2>6, <2>7, <2>11
<1> QED BY <1>8, <1>9

LEMMA StartedRight ==
  ASSUME EventTypes, CallTypes, ControllerTypes, TdInRing, EventsFilled, InStep, NEW n \in {1, 2}, BulkTd(n)
  PROVE  InStep'
<1> SUFFICES ASSUME Patient' PROVE InStep'
  BY DEF InStep
<1>0. /\ UNCHANGED <<session, deq, ccs, queue, todo, reader, events>>
      /\ pc = "idle" /\ ret # "stall" /\ pc' = "wait"
  BY DEF BulkTd
<1>1. Patient /\ Link' = Link
  BY <1>0 DEF Patient, Link, RingSize
<1>2. AtEnd /\ queue = <<>> /\ todo = <<>> /\ Unread = {}
  BY <1>0, <1>1 DEF InStep, Resting
<1>3. Unread' = {}
  BY <1>0, <1>2, EventsStay
<1>4. Len(TrbPhys') = n /\ AtTrb(1)'
  BY <1>0, <1>1, <1>2, TdPushed DEF AtEnd, AtTrb, Place, PlaceCycle
<1>5. Where'
  BY <1>4 DEF Where
<1> QED BY <1>0, <1>2, <1>3, <1>5 DEF InStep, Transferring, Recovering, Resting

(* A step of the driver that leaves the rings and the controller alone.    *)
LEMMA WaitFrame ==
  ASSUME CallTypes, UNCHANGED <<session, R, Td, TrbPhys, deq, ccs, endpoint, Bounce>>
  PROVE  Patient' = Patient /\ AtEnd' = AtEnd /\ Quiet' = Quiet /\ Where' = Where
BY RingStays DEF Patient

LEMMA BulkEventRight ==
  ASSUME BusInv, BulkEvent
  PROVE  BusInv'
<1>0. /\ UNCHANGED <<session, R, Td, TrbPhys, Commands, deq, ccs, endpoint, queue, Bounce, events>>
      /\ pc = "wait" /\ PopEvent
  BY DEF BulkEvent
<1>1. /\ EventTypes' /\ EventsFilled' /\ EvtDeq \in Unread /\ Unread' = Unread \ {EvtDeq}
  BY <1>0, EventRead DEF BusInv
<1>2. EvtDeq \in 0..(EvtSize - 1) /\ Evt[EvtDeq] \in Event
  BY DEF BusInv, EventTypes
<1> DEFINE e == Evt[EvtDeq]
<1>3. /\ e.residue \in 0..2 /\ Len(TrbPhys) \in Nat /\ Len(TrbPhys) <= 2 /\ DOMAIN TrbPhys = 1..Len(TrbPhys)
      /\ TrbPhys \in Seq(0..(Link - 1))
  BY <1>2 DEF Event, BusInv, CallTypes
<1>4. CallTypes /\ ControllerTypes /\ TdInRing /\ InStep
  BY DEF BusInv
<1> HIDE DEF e
<1>5. \/ /\ \A k \in DOMAIN TrbPhys : ~Hit(e, k)
         /\ UNCHANGED <<pc, Actual, ret, todo>>
      \/ \E k \in DOMAIN TrbPhys :
           /\ Hit(e, k)
           /\ \/ /\ e.code \in {"success", "short"} /\ Actual' = 2 * (k - 1) + (2 - e.residue)
                 /\ ret' = "ok" /\ pc' = "idle" /\ UNCHANGED todo
              \/ /\ e.code = "stall" /\ UNCHANGED Actual
                 /\ ret' = "stall" /\ pc' = "idle" /\ UNCHANGED todo
              \/ /\ e.code \notin {"success", "short", "stall"} /\ UNCHANGED Actual
                 /\ ret' = "fail" /\ todo' = <<"reset", "setdeq">> /\ pc' = "command"
  BY DEF BulkEvent, Finish, RecoverEndpoint, e
<1>6. CallTypes' /\ ControllerTypes' /\ TdInRing'
  <2>1. /\ pc' \in {"idle", "wait", "command", "cmdwait"} /\ Actual' \in 0..4
        /\ ret' \in {"none", "ok", "stall", "fail", "cleared"} /\ todo' \in Seq(Kinds)
    <3>1. pc \in {"idle", "wait", "command", "cmdwait"} /\ Actual \in 0..4
          /\ ret \in {"none", "ok", "stall", "fail", "cleared"} /\ todo \in Seq(Kinds)
      BY <1>4 DEF CallTypes
    <3>2. \A k \in DOMAIN TrbPhys : 2 * (k - 1) + (2 - e.residue) \in 0..4
      BY <1>3
    <3>3. <<"reset", "setdeq">> \in Seq(Kinds)
      BY DEF Kinds
    <3> QED BY <1>5, <3>1, <3>2, <3>3
  <2>2. Commands' \in Nat
    BY <1>0, <1>4 DEF CallTypes
  <2> QED BY <1>0, <1>4, <2>1, <2>2, DriverWaits
<1>7. ASSUME Patient' PROVE InStep'
  <2>1. Patient /\ AtEnd' = AtEnd /\ Quiet' = Quiet /\ Where' = Where
    BY <1>0, <1>4, <1>7, WaitFrame
  <2>2. Where' /\ queue' = <<>> /\ todo = <<>> /\ Unread = {EvtDeq}
          /\ \E k \in 1..Len(TrbPhys) : EndedAt(e, k)
    BY <1>0, <1>1, <1>4, <2>1 DEF InStep, Transferring, e
  <2>3. Unread' = {}
    BY <1>1, <2>2
  <2>4. PICK k \in 1..Len(TrbPhys) : EndedAt(e, k)
    BY <2>2
  <2>5. \A l \in DOMAIN TrbPhys : Hit(e, l) => l = k
    <3>1. Link \in Nat /\ Link >= 2
      BY <1>4, SessionFacts DEF CallTypes
    <3>2. CASE Len(TrbPhys) = 2
      <4>0. TrbPhys[2] = Follows(TrbPhys[1])
        BY <1>4, <3>2 DEF TdInRing
      <4>1. TrbPhys[1] \in 0..(Link - 1)
        <5>1. 1 \in 1..Len(TrbPhys) /\ TrbPhys \in Seq(0..(Link - 1))
          BY <1>3, <3>2
        <5> QED BY <5>1, InSeq
      <4>2. TrbPhys[1] # TrbPhys[2]
        BY <3>1, <4>0, <4>1, PlacesApart
      <4>3. e.ptr = TrbPhys[k] /\ \A l \in DOMAIN TrbPhys : Hit(e, l) => e.ptr = TrbPhys[l]
        BY <2>4 DEF EndedAt, Hit
      <4>4. k \in {1, 2} /\ \A l \in DOMAIN TrbPhys : l \in {1, 2}
        BY <1>3, <3>2
      <4> QED BY <4>2, <4>3, <4>4
    <3>3. CASE Len(TrbPhys) # 2
      BY <1>3, <3>3
    <3> QED BY <3>2, <3>3
  <2>6. Hit(e, k) /\ k \in DOMAIN TrbPhys
    BY <1>3, <2>4 DEF EndedAt, Hit
  <2>7. CASE /\ e.code \in {"success", "short"} /\ AtEnd /\ endpoint # "halted"
             /\ Bounce = [td |-> Td, bytes |-> 2 * (k - 1) + (2 - e.residue)]
    <3>1. ret' = "ok" /\ pc' = "idle" /\ todo' = <<>> /\ Actual' = 2 * (k - 1) + (2 - e.residue)
      BY <1>5, <2>2, <2>5, <2>6, <2>7
    <3>2. Bounce' = [td |-> Td', bytes |-> Actual']
      BY <1>0, <2>7, <3>1
    <3> QED BY <1>0, <2>1, <2>2, <2>3, <2>7, <3>1, <3>2 DEF InStep, Transferring, Recovering, Resting
  <2>8. CASE e.code = "stall" /\ endpoint = "halted"
    <3>1. ret' = "stall" /\ pc' = "idle" /\ todo' = <<>>
      BY <1>5, <2>2, <2>5, <2>6, <2>8
    <3> QED BY <1>0, <2>1, <2>2, <2>3, <2>8, <3>1 DEF InStep, Transferring, Recovering, Resting
  <2>9. CASE e.code = "error" /\ endpoint = "halted"
    <3>1. ret' = "fail" /\ pc' = "command" /\ todo' = <<"reset", "setdeq">>
      BY <1>5, <2>5, <2>6, <2>9
    <3>2. ToGive'
      BY <1>0, <2>2, <2>3, <2>9, <3>1 DEF ToGive, Quiet
    <3> QED BY <2>2, <3>1, <3>2 DEF InStep, Transferring, Recovering, Resting
  <2> QED BY <2>4, <2>7, <2>8, <2>9 DEF EndedAt
<1> QED BY <1>1, <1>6, <1>7 DEF BusInv, InStep

LEMMA BulkTimeOutRight ==
  ASSUME BusInv, BulkTimeOut
  PROVE  BusInv'
<1>0. /\ UNCHANGED <<session, R, Td, TrbPhys, Actual, Commands, deq, ccs, endpoint, queue, Bounce, reader,
          events>>
      /\ pc = "wait" /\ ~HasEvent
      /\ ret' = "fail" /\ pc' = "command" /\ todo' = <<"stop", "reset", "setdeq">>
  BY DEF BulkTimeOut, RecoverEndpoint
<1>1. /\ EventTypes' /\ EventsFilled' /\ Unread = {} /\ Unread' = Unread /\ UNCHANGED Evt
  BY <1>0, EventsThere, EventsStay DEF BusInv
<1>2. CallTypes /\ ControllerTypes /\ TdInRing /\ InStep
  BY DEF BusInv
<1>3. CallTypes' /\ ControllerTypes' /\ TdInRing'
  <2>1. todo' \in Seq(Kinds)
    BY <1>0 DEF Kinds
  <2>2. Actual' \in 0..4 /\ Commands' \in Nat
    BY <1>0, <1>2 DEF CallTypes
  <2> QED BY <1>0, <1>2, <2>1, <2>2, DriverWaits
<1>4. ASSUME Patient' PROVE InStep'
  <2>1. Patient /\ Where' = Where
    BY <1>0, <1>2, <1>4, WaitFrame
  <2>2. Where' /\ ToGive'
    BY <1>0, <1>1, <1>2, <2>1 DEF InStep, Transferring, ToGive
  <2> QED BY <1>0, <2>2 DEF InStep, Transferring, Recovering, Resting
<1> QED BY <1>1, <1>3, <1>4 DEF BusInv, InStep

LEMMA ClearHaltRight ==
  ASSUME BusInv, XhciClearHalt
  PROVE  BusInv'
<1>0. /\ UNCHANGED <<session, R, Td, TrbPhys, Actual, Commands, deq, ccs, endpoint, queue, Bounce, reader,
          events>>
      /\ pc = "idle" /\ ret' = "cleared" /\ pc' = "command" /\ todo' = <<"reset", "setdeq">>
  BY DEF XhciClearHalt, RecoverEndpoint
<1>1. /\ EventTypes' /\ EventsFilled' /\ Unread' = Unread /\ UNCHANGED Evt
  BY <1>0, EventsStay DEF BusInv
<1>2. CallTypes /\ ControllerTypes /\ TdInRing /\ InStep
  BY DEF BusInv
<1>3. CallTypes' /\ ControllerTypes' /\ TdInRing'
  <2>1. todo' \in Seq(Kinds)
    BY <1>0 DEF Kinds
  <2>2. Actual' \in 0..4 /\ Commands' \in Nat
    BY <1>0, <1>2 DEF CallTypes
  <2> QED BY <1>0, <1>2, <2>1, <2>2, DriverWaits
<1>4. ASSUME Patient' PROVE InStep'
  <2>1. Patient /\ Where' = Where /\ Quiet' = Quiet
    BY <1>0, <1>2, <1>4, WaitFrame
  <2>2. Where /\ queue = <<>> /\ Unread = {} /\ Quiet
    BY <1>0, <1>2, <2>1 DEF InStep, Resting, Quiet
  <2>3. Where' /\ ToGive'
    BY <1>0, <1>1, <2>1, <2>2 DEF ToGive
  <2> QED BY <1>0, <2>3 DEF InStep, Transferring, Recovering, Resting
<1> QED BY <1>1, <1>3, <1>4 DEF BusInv, InStep

LEMMA CommandRight ==
  ASSUME BusInv, Command
  PROVE  BusInv'
<1>0. /\ UNCHANGED <<session, R, Td, TrbPhys, Actual, ret, deq, ccs, endpoint, Bounce, reader, events>>
      /\ pc = "command" /\ todo # <<>> /\ pc' = "cmdwait" /\ todo' = Tail(todo) /\ Commands' = Commands + 1
      /\ queue' = Append(queue, [n |-> Commands + 1, kind |-> Head(todo), to |-> Target])
  BY DEF Command
<1>1. /\ EventTypes' /\ EventsFilled' /\ Unread' = Unread /\ UNCHANGED Evt
  BY <1>0, EventsStay DEF BusInv
<1>2. CallTypes /\ ControllerTypes /\ TdInRing /\ InStep
  BY DEF BusInv
<1>3. TdInRing' /\ Link' = Link /\ Slot' = Slot /\ Ring' = Ring
  BY <1>0, <1>2, RingStays DEF Slot, Ring
<1>4. CallTypes'
  <2>1. todo' \in Seq(Kinds) /\ Commands' \in Nat
    BY <1>0, <1>2 DEF CallTypes
  <2> QED BY <1>0, <1>2, <1>3, <2>1 DEF CallTypes, Kinds
<1> DEFINE c == [n |-> Commands + 1, kind |-> Head(todo), to |-> Target]
<1>5. c \in Asked
  <2>1. Head(todo) \in Kinds /\ Commands + 1 \in Nat
    BY <1>0, <1>2 DEF CallTypes
  <2>2. Target \in [pos : 0..(Link - 1), cycle : {0, 1}]
    BY <1>2 DEF Target, CallTypes, Ring
  <2> QED BY <2>1, <2>2 DEF Asked
<1>6. ControllerTypes'
  <2>1. queue' \in Seq(Asked)
    <3> HIDE DEF c
    <3>1. queue' = Append(queue, c)
      BY <1>0 DEF c
    <3> QED BY <1>2, <1>5, <3>1 DEF ControllerTypes
  <2>2. Asked' = Asked
    BY <1>3 DEF Asked, Kinds
  <2> QED BY <1>0, <1>2, <1>3, <2>1, <2>2 DEF ControllerTypes
<1>7. ASSUME Patient' PROVE InStep'
  <2>1. Patient /\ Where' = Where /\ Quiet' = Quiet
    BY <1>0, <1>2, <1>7, WaitFrame
  <2>2. Where /\ ToGive /\ ret \in {"fail", "cleared"}
    BY <1>0, <1>2, <2>1 DEF InStep, Recovering
  <2>3. Len(queue') = 1 /\ queue'[1] = c
    BY <1>0, <2>2 DEF ToGive
  <2>4. c.n = Commands' /\ c.kind = Head(todo) /\ c.to = [pos |-> R'.Enq, cycle |-> R'.Cycle]
    BY <1>0 DEF Target
  <2> HIDE DEF c
  <2>5. \A p \in Unread' : Evt'[p].type = "transfer"
    BY <1>1, <2>2 DEF ToGive
  <2>6. CASE todo = <<"stop", "reset", "setdeq">>
    <3>1. todo' = <<"reset", "setdeq">> /\ Head(todo) = "stop"
      BY <1>0, <2>6
    <3> QED BY <1>0, <2>1, <2>2, <2>3, <2>4, <2>5, <3>1 DEF InStep, Transferring, Recovering, Resting,
          ToExecute
  <2>7. CASE todo = <<"reset", "setdeq">> /\ Quiet
    <3>1. todo' = <<"setdeq">> /\ Head(todo) = "reset"
      BY <1>0, <2>7
    <3> QED BY <1>0, <2>1, <2>2, <2>3, <2>4, <2>5, <2>7, <3>1 DEF InStep, Transferring, Recovering,
          Resting, ToExecute
  <2>8. CASE todo = <<"setdeq">> /\ Quiet /\ endpoint # "halted"
    <3>1. todo' = <<>> /\ Head(todo) = "setdeq"
      BY <1>0, <2>8
    <3> QED BY <1>0, <2>1, <2>2, <2>3, <2>4, <2>5, <2>8, <3>1 DEF InStep, Transferring, Recovering,
          Resting, ToExecute
  <2> QED BY <2>2, <2>6, <2>7, <2>8 DEF ToGive
<1> QED BY <1>1, <1>3, <1>4, <1>6, <1>7 DEF BusInv, InStep

LEMMA CommandEventRight ==
  ASSUME BusInv, CommandEvent
  PROVE  BusInv'
<1>0. /\ UNCHANGED <<session, R, Td, TrbPhys, Actual, ret, todo, Commands, deq, ccs, endpoint, queue,
          Bounce, events>>
      /\ pc = "cmdwait" /\ PopEvent
      /\ pc' = IF ~Answered THEN "cmdwait" ELSE IF todo = <<>> THEN "idle" ELSE "command"
  BY DEF CommandEvent
<1>1. /\ EventTypes' /\ EventsFilled' /\ EvtDeq \in Unread /\ Unread' = Unread \ {EvtDeq}
      /\ UNCHANGED <<Evt, evtEnq>>
  BY <1>0, EventRead DEF BusInv
<1>2. CallTypes /\ ControllerTypes /\ TdInRing /\ InStep
  BY DEF BusInv
<1>3. CallTypes' /\ ControllerTypes' /\ TdInRing'
  <2>1. /\ ret' \in {"none", "ok", "stall", "fail", "cleared"} /\ todo' \in Seq(Kinds)
        /\ Actual' \in 0..4 /\ Commands' \in Nat
    BY <1>0, <1>2 DEF CallTypes
  <2> QED BY <1>0, <1>2, <2>1, DriverWaits
<1>4. ASSUME Patient' PROVE InStep'
  <2>1. Patient /\ Where' = Where /\ Quiet' = Quiet /\ AtEnd' = AtEnd
    BY <1>0, <1>2, <1>4, WaitFrame
  <2>2. Where' /\ ret' \in {"fail", "cleared"}
    BY <1>0, <1>2, <2>1 DEF InStep, Recovering
  <2>3. CASE ToExecute
    <3>1. Evt[EvtDeq].type = "transfer"
      BY <1>1, <2>3 DEF ToExecute
    <3>2. pc' = "cmdwait"
      BY <1>0, <3>1 DEF Answered
    <3>3. ToExecute'
      BY <1>0, <1>1, <2>1, <2>3 DEF ToExecute
    <3> QED BY <2>2, <3>2, <3>3 DEF InStep, Transferring, Recovering, Resting
  <2>4. CASE ToAnswer
    <3>1. PICK a \in Unread : Answer(a) /\ \A p \in Unread \ {a} : Evt[p].type = "transfer"
      BY <2>4 DEF ToAnswer
    <3>2. CASE EvtDeq = a
      <4>1. Answered /\ After(EvtDeq) = evtEnq
        BY <3>1, <3>2 DEF Answered, Answer
      <4>2. Unread' = {}
        BY <1>1, <4>1, LastOne DEF BusInv
      <4>3. CASE todo = <<>>
        <5>1. pc' = "idle" /\ todo' = <<>> /\ queue' = <<>> /\ AtEnd' /\ endpoint' # "halted"
          BY <1>0, <2>1, <2>4, <4>1, <4>3 DEF ToAnswer
        <5> QED BY <2>2, <4>2, <5>1 DEF InStep, Transferring, Recovering, Resting
      <4>4. CASE todo # <<>>
        <5>1. pc' = "command" /\ ToGive'
          BY <1>0, <2>1, <2>4, <4>1, <4>2, <4>4 DEF ToAnswer, ToGive
        <5> QED BY <2>2, <5>1 DEF InStep, Transferring, Recovering, Resting
      <4> QED BY <4>3, <4>4
    <3>3. CASE EvtDeq # a
      <4>1. pc' = "cmdwait"
        BY <1>0, <1>1, <3>1, <3>3 DEF Answered
      <4>2. a \in Unread' /\ Answer(a)' /\ \A p \in Unread' \ {a} : Evt'[p].type = "transfer"
        BY <1>0, <1>1, <3>1, <3>3 DEF Answer, After
      <4>3. ToAnswer'
        BY <1>0, <2>1, <2>4, <4>2 DEF ToAnswer
      <4> QED BY <2>2, <4>1, <4>3 DEF InStep, Transferring, Recovering, Resting
    <3> QED BY <3>2, <3>3
  <2> QED BY <1>0, <1>2, <2>1, <2>3, <2>4 DEF InStep, Recovering
<1> QED BY <1>1, <1>3, <1>4 DEF BusInv, InStep

LEMMA CommandTimeOutRight ==
  ASSUME BusInv, CommandTimeOut
  PROVE  BusInv'
<1>0. /\ UNCHANGED <<session, R, Td, TrbPhys, Actual, ret, todo, Commands, deq, ccs, endpoint, queue,
          reader, events>>
      /\ pc' \in {"idle", "command"} /\ ~Patient
  BY DEF CommandTimeOut, Patient
<1>1. EventTypes' /\ EventsFilled'
  BY <1>0, EventsStay DEF BusInv
<1>2. CallTypes /\ ControllerTypes /\ TdInRing
  BY DEF BusInv
<1>3. CallTypes' /\ ControllerTypes' /\ TdInRing'
  <2>1. /\ ret' \in {"none", "ok", "stall", "fail", "cleared"} /\ todo' \in Seq(Kinds)
        /\ Actual' \in 0..4 /\ Commands' \in Nat
    BY <1>0, <1>2 DEF CallTypes
  <2> QED BY <1>0, <1>2, <2>1, DriverWaits
<1>4. ~Patient'
  BY <1>0 DEF Patient
<1> QED BY <1>1, <1>3, <1>4 DEF BusInv, InStep

------------------------------------------------------------------------------
(* The controller's steps. *)

(* What its steps leave alone.                                             *)
LEMMA BusFrame ==
  ASSUME CallTypes, ControllerTypes, TdInRing, UNCHANGED <<session, call>>,
         deq' \in 0..Link, ccs' \in {0, 1}, endpoint' \in {"running", "stopped", "halted"},
           queue' \in Seq(Asked)
  PROVE  CallTypes' /\ ControllerTypes' /\ TdInRing' /\ Patient' = Patient /\ UNCHANGED <<session, R, pc,
           Td, TrbPhys, Actual, ret, todo, Commands>> /\ Link' = Link
<1>1. CallTypes' /\ TdInRing' /\ Link' = Link /\ UNCHANGED <<R, pc, Td, TrbPhys, Actual, ret, todo,
        Commands>>
  BY CallStays
<1>2. Asked' = Asked
  BY <1>1 DEF Asked, Kinds
<1> QED BY <1>1, <1>2 DEF ControllerTypes, Patient

LEMMA FollowLinkRight ==
  ASSUME BusInv, FollowLink
  PROVE  BusInv'
<1>0. /\ UNCHANGED <<session, reader, call, events, endpoint, queue, Bounce>>
      /\ deq = Link /\ deq' = 0 /\ ccs' = 1 - ccs
  BY DEF FollowLink
<1>1. CallTypes /\ ControllerTypes /\ TdInRing /\ InStep /\ Link \in Nat /\ Link >= 2
  BY SessionFacts DEF BusInv, CallTypes
<1>2. EventTypes' /\ EventsFilled' /\ Unread' = Unread /\ UNCHANGED <<EvtDeq, Evt, evtEnq>>
  BY <1>0, EventsStay DEF BusInv
<1>3. /\ CallTypes' /\ ControllerTypes' /\ TdInRing' /\ Patient' = Patient
      /\ UNCHANGED <<session, R, pc, Td, TrbPhys, Actual, ret, todo, Commands>> /\ Link' = Link
  <2>1. deq' \in 0..Link /\ ccs' \in {0, 1} /\ endpoint' \in {"running", "stopped", "halted"}
          /\ queue' \in Seq(Asked)
    BY <1>0, <1>1 DEF ControllerTypes
  <2> QED BY <1>0, <1>1, <2>1, BusFrame
<1>4. Place' = Place /\ PlaceCycle' = PlaceCycle
  BY <1>0, <1>1, <1>3 DEF Place, PlaceCycle
<1>5. AtEnd' = AtEnd /\ Quiet' = Quiet
  BY <1>0, <1>3, <1>4 DEF AtEnd, Quiet
<1>6. Where' = Where
  <2>1. AtTrb(1)' = AtTrb(1) /\ AtTrb(2)' = AtTrb(2)
    BY <1>3, <1>4 DEF AtTrb
  <2> QED BY <1>0, <1>3, <1>5, <2>1 DEF Where
<1>7. ASSUME Patient' PROVE InStep'
  <2>1. Where' /\ Recovering /\ Transferring /\ Resting
    BY <1>1, <1>3, <1>6, <1>7 DEF InStep
  <2>2. ToGive' = ToGive /\ ToExecute' = ToExecute
    BY <1>0, <1>2, <1>3, <1>5 DEF ToGive, ToExecute
  <2>3. ToAnswer' = ToAnswer
    BY <1>0, <1>2, <1>3, <1>5 DEF ToAnswer, Answer, After
  <2>4. Recovering'
    BY <1>3, <2>1, <2>2, <2>3 DEF Recovering
  <2>5. Transferring'
    BY <1>0, <1>2, <1>3, <1>5, <2>1 DEF Transferring, EndedAt
  <2>6. Resting'
    BY <1>0, <1>2, <1>3, <1>5, <2>1 DEF Resting
  <2> QED BY <2>1, <2>4, <2>5, <2>6 DEF InStep
<1> QED BY <1>2, <1>3, <1>7 DEF BusInv, InStep

(* An event posted while the endpoint runs is the answer of the transfer,  *)
(* or one that is passed over.                                             *)
LEMMA RunningStep ==
  ASSUME BusInv, Patient, Available, deq # Link, UNCHANGED <<session, call, queue>>,
         EvtDeq' = EvtDeq, NEW posts \in BOOLEAN,
         evtEnq \in 0..(EvtSize - 1), evtEnq \notin Unread,
         IF posts THEN Unread' = Unread \cup {evtEnq}
           /\ Evt'[evtEnq].type = "transfer" ELSE Unread' = Unread,
         \A p \in Unread : Evt'[p] = Evt[p],
         Where',
         pc = "wait" /\ posts => \E k \in 1..Len(TrbPhys) : EndedAt(Evt[EvtDeq], k)'
  PROVE  InStep'
<1>0. UNCHANGED <<session, R, pc, Td, TrbPhys, Actual, ret, todo, Commands, queue>>
  BY DEF call
<1>1. /\ EventTypes /\ CallTypes /\ ControllerTypes /\ TdInRing /\ EventsFilled /\ InStep
  BY DEF BusInv
<1>2. ASSUME \A p \in Unread : Evt[p].type = "transfer"
      PROVE  \A p \in Unread' : Evt'[p].type = "transfer"
  BY <1>2
<1>3. CASE pc = "wait" /\ Unread = {} /\ queue = <<>> /\ todo = <<>>
  <2>1. evtEnq = EvtDeq
    BY <1>1, <1>3, EventsThere
  <2>2. CASE posts
    <3>1. \E k \in 1..Len(TrbPhys) : EndedAt(Evt[EvtDeq], k)'
      BY <1>3, <2>2
    <3>2. Unread' = {EvtDeq}
      BY <1>3, <2>1, <2>2
    <3>3. Transferring'
      BY <1>0, <1>3, <3>1, <3>2 DEF Transferring
    <3> QED BY <1>0, <1>3, <3>3 DEF InStep, Recovering, Resting
  <2>3. CASE ~posts
    <3>1. Transferring'
      BY <1>0, <1>3, <2>3 DEF Transferring
    <3> QED BY <1>0, <1>3, <3>1 DEF InStep, Recovering, Resting
  <2> QED BY <2>2, <2>3
<1>4. CASE pc = "command" /\ ret \in {"fail", "cleared"} /\ ToGive /\ todo = <<"stop", "reset", "setdeq">>
  <2>1. ToGive'
    BY <1>0, <1>2, <1>4 DEF ToGive
  <2> QED BY <1>0, <1>4, <2>1 DEF InStep, Recovering, Transferring, Resting
<1>5. CASE /\ pc = "cmdwait" /\ ret \in {"fail", "cleared"}
           /\ ToExecute /\ todo = <<"reset", "setdeq">> /\ queue[1].kind = "stop"
  <2>1. ToExecute'
    BY <1>0, <1>2, <1>5 DEF ToExecute
  <2> QED BY <1>0, <1>5, <2>1 DEF InStep, Recovering, Transferring, Resting
<1> QED BY <1>1, <1>3, <1>4, <1>5, StillRunning

LEMMA CompleteRight ==
  ASSUME BusInv, Complete
  PROVE  BusInv'
<1> DEFINE T == R.Base[deq]
<1>0. /\ UNCHANGED <<session, reader, call, endpoint, queue>>
      /\ Available /\ deq # Link /\ Moves(T, 2) /\ Advance(0)
      /\ IF T.k = T.n - 1 THEN Post("transfer", deq, "success", 0) ELSE UNCHANGED events
  BY DEF Complete
<1>1. EventTypes /\ CallTypes /\ ControllerTypes /\ TdInRing /\ EventsFilled /\ InStep
  BY DEF BusInv
<1>2. Link \in Nat /\ Link >= 2 /\ deq \in 0..(Link - 1) /\ ccs \in {0, 1}
  BY <1>0, <1>1, TrbFacts
<1>3. Link' = Link /\ UNCHANGED <<R, pc, Td, TrbPhys>>
  BY <1>0 DEF Link, RingSize, call
<1>4. /\ deq' \in 0..Link /\ ccs' \in {0, 1}
      /\ Place' = Follows(deq) /\ PlaceCycle' = CycleAfter(deq, ccs)
  <2>1. 0 \in -1..1 /\ deq \in 0..Link
    BY <1>2
  <2> QED BY <1>0, <1>2, <1>3, <2>1, Advanced
<1>5. CallTypes' /\ ControllerTypes' /\ TdInRing' /\ Patient' = Patient
  <2>1. endpoint' \in {"running", "stopped", "halted"} /\ queue' \in Seq(Asked)
    BY <1>0, <1>1 DEF ControllerTypes
  <2> QED BY <1>0, <1>1, <1>4, <2>1, BusFrame
<1> DEFINE posts == T.k = T.n - 1
<1>6. ASSUME posts
      PROVE  /\ EventTypes' /\ EventsFilled' /\ EvtDeq' = EvtDeq /\ Unread' = Unread \cup {evtEnq}
             /\ evtEnq \in 0..(EvtSize - 1) /\ evtEnq \notin Unread
             /\ Evt'[evtEnq] = [type |-> "transfer", ptr |-> deq, code |-> "success", residue |-> 0,
                 cycle |-> pcs]
             /\ \A p \in Unread : Evt'[p] = Evt[p]
  <2>1. Post("transfer", deq, "success", 0)
    BY <1>0, <1>6
  <2>2. [type |-> "transfer", ptr |-> deq, code |-> "success", residue |-> 0, cycle |-> pcs] \in Event
    <3>1. pcs \in {0, 1} /\ deq \in Nat
      BY <1>1, <1>2 DEF EventTypes
    <3> QED BY <3>1 DEF Event
  <2> QED BY <1>0, <1>1, <2>1, <2>2, EventPosted
<1>7. ASSUME ~posts
      PROVE  /\ EventTypes' /\ EventsFilled' /\ Unread' = Unread /\ EvtDeq' = EvtDeq /\ Evt' = Evt
             /\ evtEnq \in 0..(EvtSize - 1) /\ evtEnq \notin Unread
  <2>1. UNCHANGED <<reader, events>>
    BY <1>0, <1>7
  <2> QED BY <1>1, <2>1, EventsStay, NextFree
<1>8. ASSUME Patient' PROVE InStep'
  <2>1. Patient
    BY <1>5, <1>8
  <2>2. PICK k \in 1..Len(TrbPhys) :
          /\ k \in {1, 2} /\ deq = TrbPhys[k] /\ ccs = R.Base[TrbPhys[k]].cycle /\ TrbIs(k)
          /\ k = 2 => Bounce = [td |-> Td, bytes |-> 2]
    BY <1>0, <1>1, <2>1, AtCurrent
  <2>3. T.td = Td /\ T.k = k - 1 /\ T.n = Len(TrbPhys) /\ Len(TrbPhys) \in {1, 2}
    <3>1. Len(TrbPhys) \in {1, 2}
      BY <1>1, AtMostTwo
    <3>2. TrbIs(k) /\ deq = TrbPhys[k]
      BY <2>2
    <3> QED BY <3>1, <3>2 DEF TrbIs
  <2>4. Bounce' = [td |-> Td, bytes |-> 2 * k]
    <3>1. CASE k = 1
      <4>1. Bounce' = [td |-> T.td, bytes |-> 0 + 2]
        BY <1>0, <2>3, <3>1 DEF Moves
      <4> QED BY <2>3, <3>1, <4>1
    <3>2. CASE k = 2
      <4>1. Bounce' = [td |-> T.td, bytes |-> Bounce.bytes + 2]
        BY <1>0, <2>3, <3>2 DEF Moves
      <4>2. Bounce.bytes = 2
        BY <2>2, <3>2
      <4> QED BY <2>3, <3>2, <4>1, <4>2
    <3> QED BY <2>2, <3>1, <3>2
  <2>5. k = Len(TrbPhys) <=> posts
    BY <2>2, <2>3
  <2>6. k = Len(TrbPhys) => AtEnd'
    <3> SUFFICES ASSUME k = Len(TrbPhys) PROVE AtEnd'
      OBVIOUS
    <3>1. EndsAfter(k)
      BY <1>1, <2>2, <2>3 DEF TdInRing
    <3> QED BY <1>3, <1>4, <2>2, <3>1 DEF EndsAfter, AtEnd
  <2>7. k # Len(TrbPhys) => k = 1 /\ Len(TrbPhys) = 2 /\ AtTrb(2)'
    <3> SUFFICES ASSUME k # Len(TrbPhys) PROVE k = 1 /\ Len(TrbPhys) = 2 /\ AtTrb(2)'
      OBVIOUS
    <3>1. k = 1 /\ Len(TrbPhys) = 2
      BY <1>1, AtMostTwo
    <3>2. TrbPhys[2] = Follows(TrbPhys[1]) /\ R.Base[TrbPhys[2]].cycle = CycleAfter(TrbPhys[1],
            R.Base[TrbPhys[1]].cycle)
      BY <1>1, <3>1 DEF TdInRing
    <3> QED BY <1>3, <1>4, <2>2, <3>1, <3>2 DEF AtTrb
  <2>8. Where'
    <3>1. k # Len(TrbPhys) => Bounce' = [td |-> Td', bytes |-> 2]
      BY <1>3, <2>4, <2>7
    <3> QED BY <1>3, <2>6, <2>7, <3>1 DEF Where
  <2>9. pc = "wait" /\ posts => \E l \in 1..Len(TrbPhys) : EndedAt(Evt[EvtDeq], l)'
    <3> SUFFICES ASSUME pc = "wait", posts PROVE EndedAt(Evt[EvtDeq], k)'
      BY <2>2
    <3>1. EvtDeq = evtEnq /\ endpoint' # "halted"
      BY <1>0, <1>1, <2>1, StillRunning, EventsThere
    <3>2. /\ Evt'[EvtDeq'].type = "transfer" /\ Evt'[EvtDeq'].ptr = TrbPhys'[k]
          /\ Evt'[EvtDeq'].code = "success" /\ Evt'[EvtDeq'].residue = 0
      BY <1>3, <1>6, <2>2, <3>1
    <3>3. Bounce' = [td |-> Td', bytes |-> 2 * (k - 1) + (2 - 0)] /\ AtEnd'
      BY <1>3, <2>2, <2>4, <2>5, <2>6
    <3> QED BY <3>1, <3>2, <3>3 DEF EndedAt
  <2> HIDE DEF posts
  <2>10. posts \in BOOLEAN
    BY DEF posts
  <2>11. IF posts THEN Unread' = Unread \cup {evtEnq}
           /\ Evt'[evtEnq].type = "transfer" ELSE Unread' = Unread
    BY <1>6, <1>7
  <2>12. \A p \in Unread : Evt'[p] = Evt[p]
    BY <1>6, <1>7
  <2>13. EvtDeq' = EvtDeq /\ evtEnq \in 0..(EvtSize - 1) /\ evtEnq \notin Unread
    BY <1>6, <1>7
  <2> QED BY <1>0, <2>1, <2>8, <2>9, <2>10, <2>11, <2>12, <2>13, RunningStep
<1> QED BY <1>5, <1>6, <1>7, <1>8 DEF BusInv, InStep

LEMMA ShortRight ==
  ASSUME BusInv, Short
  PROVE  BusInv'
<1> DEFINE T == R.Base[deq]
<1>0. PICK residue \in {1, 2} :
        /\ Moves(T, 2 - residue) /\ Advance(T.n - 1 - T.k)
        /\ Post("transfer", deq, "short", residue)
  BY DEF Short
<1>1. EventTypes /\ CallTypes /\ ControllerTypes /\ TdInRing /\ EventsFilled /\ InStep
  BY DEF BusInv
<1>2. UNCHANGED <<session, reader, call, endpoint, queue>> /\ Available /\ deq # Link
  BY DEF Short
<1>3. Link \in Nat /\ Link >= 2 /\ deq \in 0..(Link - 1) /\ ccs \in {0, 1} /\ T.n - 1 - T.k \in -1..1
  BY <1>1, <1>2, TrbFacts
<1>4. Link' = Link /\ UNCHANGED <<R, pc, Td, TrbPhys>>
  BY <1>2 DEF Link, RingSize, call
<1> DEFINE m == T.n - 1 - T.k
<1>5. /\ deq' \in 0..Link /\ ccs' \in {0, 1}
      /\ m = 0 => Place' = Follows(deq) /\ PlaceCycle' = CycleAfter(deq, ccs)
      /\ m = 1 => /\ Place' = Follows(Follows(deq))
                  /\ PlaceCycle' = CycleAfter(Follows(deq), CycleAfter(deq, ccs))
  <2>1. m \in -1..1 /\ deq \in 0..Link /\ Advance(m)
    BY <1>0, <1>3
  <2> HIDE DEF m
  <2> QED BY <1>2, <1>3, <1>4, <2>1, Advanced
<1>6. CallTypes' /\ ControllerTypes' /\ TdInRing' /\ Patient' = Patient
  <2>1. endpoint' \in {"running", "stopped", "halted"} /\ queue' \in Seq(Asked)
    BY <1>1, <1>2 DEF ControllerTypes
  <2> QED BY <1>1, <1>2, <1>5, <2>1, BusFrame
<1>7. /\ EventTypes' /\ EventsFilled' /\ EvtDeq' = EvtDeq /\ Unread' = Unread \cup {evtEnq}
      /\ evtEnq \in 0..(EvtSize - 1) /\ evtEnq \notin Unread
      /\ Evt'[evtEnq] = [type |-> "transfer", ptr |-> deq, code |-> "short", residue |-> residue,
          cycle |-> pcs]
      /\ \A p \in Unread : Evt'[p] = Evt[p]
  <2>1. Post("transfer", deq, "short", residue)
    BY <1>0
  <2>2. [type |-> "transfer", ptr |-> deq, code |-> "short", residue |-> residue, cycle |-> pcs] \in Event
    <3>1. pcs \in {0, 1} /\ deq \in Nat /\ residue \in 0..2
      BY <1>1, <1>3 DEF EventTypes
    <3> QED BY <3>1 DEF Event
  <2> QED BY <1>1, <1>2, <2>1, <2>2, EventPosted
<1>8. ASSUME Patient' PROVE InStep'
  <2>1. Patient
    BY <1>6, <1>8
  <2>2. PICK k \in 1..Len(TrbPhys) :
          /\ k \in {1, 2} /\ deq = TrbPhys[k] /\ ccs = R.Base[TrbPhys[k]].cycle /\ TrbIs(k)
          /\ k = 2 => Bounce = [td |-> Td, bytes |-> 2]
    BY <1>1, <1>2, <2>1, AtCurrent
  <2>3. T.td = Td /\ T.k = k - 1 /\ T.n = Len(TrbPhys) /\ Len(TrbPhys) \in {1, 2}
    <3>1. Len(TrbPhys) \in {1, 2}
      BY <1>1, AtMostTwo
    <3>2. TrbIs(k) /\ deq = TrbPhys[k]
      BY <2>2
    <3> QED BY <3>1, <3>2 DEF TrbIs
  <2>4. Bounce' = [td |-> Td, bytes |-> 2 * (k - 1) + (2 - residue)]
    <3>1. CASE k = 1
      <4>1. Bounce' = [td |-> T.td, bytes |-> 0 + (2 - residue)]
        BY <1>0, <2>3, <3>1 DEF Moves
      <4> QED BY <2>3, <3>1, <4>1
    <3>2. CASE k = 2
      <4>1. Bounce' = [td |-> T.td, bytes |-> Bounce.bytes + (2 - residue)]
        BY <1>0, <2>3, <3>2 DEF Moves
      <4>2. Bounce.bytes = 2
        BY <2>2, <3>2
      <4> QED BY <2>3, <3>2, <4>1, <4>2
    <3> QED BY <2>2, <3>1, <3>2
  <2>5. AtEnd'
    <3>1. CASE k = Len(TrbPhys)
      <4>1. m = 0
        BY <2>2, <2>3, <3>1
      <4>2. EndsAfter(k)
        BY <1>1, <2>2, <2>3, <3>1 DEF TdInRing
      <4> HIDE DEF m
      <4> QED BY <1>4, <1>5, <2>2, <4>1, <4>2 DEF EndsAfter, AtEnd
    <3>2. CASE k # Len(TrbPhys)
      <4>1. k = 1 /\ Len(TrbPhys) = 2
        BY <1>1, <3>2, AtMostTwo
      <4>2. m = 1
        BY <2>3, <4>1
      <4>3. /\ EndsAfter(2) /\ TrbPhys[2] = Follows(TrbPhys[1])
            /\ R.Base[TrbPhys[2]].cycle = CycleAfter(TrbPhys[1], R.Base[TrbPhys[1]].cycle)
        BY <1>1, <4>1 DEF TdInRing
      <4> HIDE DEF m
      <4> QED BY <1>4, <1>5, <2>2, <4>1, <4>2, <4>3 DEF EndsAfter, AtEnd
    <3> QED BY <3>1, <3>2
  <2>6. Where'
    BY <2>5 DEF Where
  <2>7. pc = "wait" => \E l \in 1..Len(TrbPhys) : EndedAt(Evt[EvtDeq], l)'
    <3> SUFFICES ASSUME pc = "wait" PROVE EndedAt(Evt[EvtDeq], k)'
      BY <2>2
    <3>1. EvtDeq = evtEnq /\ endpoint' # "halted"
      BY <1>1, <1>2, <2>1, StillRunning, EventsThere
    <3>2. /\ Evt'[EvtDeq'].type = "transfer" /\ Evt'[EvtDeq'].ptr = TrbPhys'[k]
          /\ Evt'[EvtDeq'].code = "short" /\ Evt'[EvtDeq'].residue = residue
      BY <1>4, <1>7, <2>2, <3>1
    <3> QED BY <1>4, <2>4, <2>5, <3>1, <3>2 DEF EndedAt
  <2>8. Unread' = Unread \cup {evtEnq} /\ Evt'[evtEnq].type = "transfer"
    BY <1>7
  <2> QED BY <1>2, <1>7, <2>1, <2>6, <2>7, <2>8, RunningStep
<1> QED BY <1>6, <1>7, <1>8 DEF BusInv, InStep

LEMMA FailRight ==
  ASSUME BusInv, NEW code \in {"stall", "error"}, Fail(code)
  PROVE  BusInv'
<1>1. EventTypes /\ CallTypes /\ ControllerTypes /\ TdInRing /\ EventsFilled /\ InStep
  BY DEF BusInv
<1>2. /\ UNCHANGED <<session, reader, call, deq, ccs, queue, Bounce>> /\ Available /\ deq # Link
      /\ Post("transfer", deq, code, 2) /\ endpoint' = "halted"
  BY DEF Fail
<1>3. Link \in Nat /\ Link >= 2 /\ deq \in 0..(Link - 1)
  BY <1>1, <1>2, TrbFacts
<1>4. Link' = Link /\ UNCHANGED <<R, pc, Td, TrbPhys>>
  BY <1>2 DEF Link, RingSize, call
<1>5. CallTypes' /\ ControllerTypes' /\ TdInRing' /\ Patient' = Patient
  <2>1. /\ endpoint' \in {"running", "stopped", "halted"} /\ queue' \in Seq(Asked)
        /\ deq' \in 0..Link /\ ccs' \in {0, 1}
    BY <1>1, <1>2 DEF ControllerTypes
  <2> QED BY <1>1, <1>2, <2>1, BusFrame
<1>6. /\ EventTypes' /\ EventsFilled' /\ EvtDeq' = EvtDeq /\ Unread' = Unread \cup {evtEnq}
      /\ evtEnq \in 0..(EvtSize - 1) /\ evtEnq \notin Unread
      /\ Evt'[evtEnq] = [type |-> "transfer", ptr |-> deq, code |-> code, residue |-> 2, cycle |-> pcs]
      /\ \A p \in Unread : Evt'[p] = Evt[p]
  <2>1. [type |-> "transfer", ptr |-> deq, code |-> code, residue |-> 2, cycle |-> pcs] \in Event
    <3>1. pcs \in {0, 1} /\ deq \in Nat
      BY <1>1, <1>3 DEF EventTypes
    <3> QED BY <3>1 DEF Event
  <2> QED BY <1>1, <1>2, <2>1, EventPosted
<1>7. ASSUME Patient' PROVE InStep'
  <2>1. Patient
    BY <1>5, <1>7
  <2>2. PICK k \in 1..Len(TrbPhys) : deq = TrbPhys[k]
    BY <1>1, <1>2, <2>1, AtCurrent
  <2>3. Where'
    BY <1>1, <1>2, <1>4, <2>1, RingStays DEF InStep
  <2>4. pc = "wait" => \E l \in 1..Len(TrbPhys) : EndedAt(Evt[EvtDeq], l)'
    <3> SUFFICES ASSUME pc = "wait" PROVE EndedAt(Evt[EvtDeq], k)'
      BY <2>2
    <3>1. EvtDeq = evtEnq
      BY <1>1, <1>2, <2>1, StillRunning, EventsThere
    <3>2. /\ Evt'[EvtDeq'].type = "transfer" /\ Evt'[EvtDeq'].ptr = TrbPhys'[k] /\ Evt'[EvtDeq'].code = code
      BY <1>4, <1>6, <2>2, <3>1
    <3> QED BY <1>2, <3>2 DEF EndedAt
  <2>5. Unread' = Unread \cup {evtEnq} /\ Evt'[evtEnq].type = "transfer"
    BY <1>6
  <2> QED BY <1>2, <1>6, <2>1, <2>3, <2>4, <2>5, RunningStep
<1> QED BY <1>5, <1>6, <1>7 DEF BusInv, InStep

LEMMA StopReportsRight ==
  ASSUME BusInv, StopReports
  PROVE  BusInv'
<1>1. EventTypes /\ CallTypes /\ ControllerTypes /\ TdInRing /\ EventsFilled /\ InStep
  BY DEF BusInv
<1>2. /\ UNCHANGED <<session, reader, call, deq, ccs, queue, Bounce>> /\ Available /\ deq # Link
      /\ Post("transfer", deq, "stopped", 2) /\ endpoint' = "stopped" /\ queue # <<>>
  BY DEF StopReports
<1>3. Link \in Nat /\ Link >= 2 /\ deq \in 0..(Link - 1)
  BY <1>1, <1>2, TrbFacts
<1>4. Link' = Link /\ UNCHANGED <<R, pc, Td, TrbPhys>>
  BY <1>2 DEF Link, RingSize, call
<1>5. CallTypes' /\ ControllerTypes' /\ TdInRing' /\ Patient' = Patient
  <2>1. /\ endpoint' \in {"running", "stopped", "halted"} /\ queue' \in Seq(Asked)
        /\ deq' \in 0..Link /\ ccs' \in {0, 1}
    BY <1>1, <1>2 DEF ControllerTypes
  <2> QED BY <1>1, <1>2, <2>1, BusFrame
<1>6. /\ EventTypes' /\ EventsFilled' /\ EvtDeq' = EvtDeq /\ Unread' = Unread \cup {evtEnq}
      /\ evtEnq \in 0..(EvtSize - 1) /\ evtEnq \notin Unread
      /\ Evt'[evtEnq] = [type |-> "transfer", ptr |-> deq, code |-> "stopped", residue |-> 2, cycle |-> pcs]
      /\ \A p \in Unread : Evt'[p] = Evt[p]
  <2>1. [type |-> "transfer", ptr |-> deq, code |-> "stopped", residue |-> 2, cycle |-> pcs] \in Event
    <3>1. pcs \in {0, 1} /\ deq \in Nat
      BY <1>1, <1>3 DEF EventTypes
    <3> QED BY <3>1 DEF Event
  <2> QED BY <1>1, <1>2, <2>1, EventPosted
<1>7. ASSUME Patient' PROVE InStep'
  <2>1. Patient
    BY <1>5, <1>7
  <2>2. Where'
    BY <1>1, <1>2, <1>4, <2>1, RingStays DEF InStep
  <2>3. pc # "wait"
    BY <1>1, <1>2, <2>1 DEF InStep, Transferring
  <2>4. Unread' = Unread \cup {evtEnq} /\ Evt'[evtEnq].type = "transfer"
    BY <1>6
  <2> QED BY <1>2, <1>6, <2>1, <2>2, <2>3, <2>4, RunningStep
<1> QED BY <1>5, <1>6, <1>7 DEF BusInv, InStep

LEMMA ExecuteCommandRight ==
  ASSUME BusInv, ExecuteCommand
  PROVE  BusInv'
<1> DEFINE c == Head(queue)
<1>1. EventTypes /\ CallTypes /\ ControllerTypes /\ TdInRing /\ EventsFilled /\ InStep
  BY DEF BusInv
<1>2. /\ UNCHANGED <<session, reader, call, Bounce>> /\ queue # <<>> /\ queue' = Tail(queue)
      /\ Post("command", c.n, "none", 0)
      /\ endpoint' = CASE c.kind = "stop" /\ endpoint = "running" -> "stopped"
                       [] c.kind = "reset" /\ endpoint = "halted" -> "stopped"
                       [] OTHER -> endpoint
      /\ IF c.kind = "setdeq" /\ endpoint = "stopped"
           THEN deq' = c.to.pos /\ ccs' = c.to.cycle ELSE UNCHANGED <<deq, ccs>>
  BY DEF ExecuteCommand
<1>3. /\ c \in Asked /\ c.n \in Nat /\ c.kind \in Kinds /\ c.to.pos \in 0..(Link - 1) /\ c.to.cycle \in {0,
          1}
      /\ queue' \in Seq(Asked) /\ deq \in 0..Link /\ ccs \in {0, 1}
  <2>1. queue \in Seq(Asked) /\ deq \in 0..Link /\ ccs \in {0, 1}
    BY <1>1 DEF ControllerTypes
  <2>2. c \in Asked /\ queue' \in Seq(Asked)
    BY <1>2, <2>1
  <2> QED BY <2>1, <2>2 DEF Asked
<1>4. Link \in Nat /\ Link >= 2 /\ Link' = Link /\ UNCHANGED <<R, pc, Td, TrbPhys, Commands, todo, ret>>
  BY <1>1, <1>2, SessionFacts DEF Link, RingSize, call, CallTypes
<1> HIDE DEF c
<1>5. CallTypes' /\ ControllerTypes' /\ TdInRing' /\ Patient' = Patient
  <2>1. endpoint' \in {"running", "stopped", "halted"}
    BY <1>1, <1>2 DEF ControllerTypes
  <2>2. deq' \in 0..Link /\ ccs' \in {0, 1}
    BY <1>2, <1>3, <1>4
  <2> QED BY <1>1, <1>2, <1>3, <2>1, <2>2, BusFrame
<1>6. /\ EventTypes' /\ EventsFilled' /\ EvtDeq' = EvtDeq /\ Unread' = Unread \cup {evtEnq}
      /\ evtEnq \in 0..(EvtSize - 1) /\ evtEnq \notin Unread /\ After(evtEnq) = evtEnq'
      /\ Evt'[evtEnq] = [type |-> "command", ptr |-> c.n, code |-> "none", residue |-> 0, cycle |-> pcs]
      /\ \A p \in Unread : Evt'[p] = Evt[p]
  <2>1. [type |-> "command", ptr |-> c.n, code |-> "none", residue |-> 0, cycle |-> pcs] \in Event
    <3>1. pcs \in {0, 1}
      BY <1>1 DEF EventTypes
    <3> QED BY <1>3, <3>1 DEF Event
  <2> QED BY <1>1, <1>2, <2>1, EventPosted
<1>7. ASSUME Patient' PROVE InStep'
  <2>1. Patient /\ Where
    BY <1>1, <1>5, <1>7 DEF InStep
  <2>2. pc = "cmdwait" /\ ret \in {"fail", "cleared"} /\ ToExecute
    BY <1>1, <1>2, <2>1 DEF InStep, Recovering, Transferring, Resting, ToGive, ToAnswer, CallTypes
  <2>3. c = queue[1] /\ Len(queue) = 1 /\ queue' = <<>> /\ c.n = Commands
    <3>1. Len(queue) = 1 /\ queue[1].n = Commands /\ queue \in Seq(Asked)
      BY <1>1, <2>2 DEF ToExecute, ControllerTypes
    <3>2. c = queue[1] /\ Tail(queue) = <<>>
      BY <3>1, OnlyOne DEF c
    <3> QED BY <1>2, <3>1, <3>2
  <2>4. /\ evtEnq \in Unread'
        /\ Evt'[evtEnq].type = "command" /\ Evt'[evtEnq].ptr = Commands'
        /\ \A p \in Unread' \ {evtEnq} : Evt'[p].type = "transfer"
    BY <1>4, <1>6, <2>2, <2>3 DEF ToExecute
  <2>5. \E a \in Unread' : /\ Evt'[a].type = "command" /\ Evt'[a].ptr = Commands' /\ After(a) = evtEnq'
                           /\ \A p \in Unread' \ {a} : Evt'[p].type = "transfer"
    BY <1>6, <2>4
  <2>6. /\ Where'
        /\ \/ todo = <<"reset", "setdeq">> /\ Quiet'
           \/ todo = <<"setdeq">> /\ Quiet' /\ endpoint' # "halted"
           \/ todo = <<>> /\ AtEnd' /\ endpoint' # "halted"
    <3>1. CASE todo = <<"reset", "setdeq">> /\ c.kind = "stop"
      <4>1. endpoint' # "running" /\ UNCHANGED <<deq, ccs>>
        BY <1>2, <3>1
      <4> QED BY <1>2, <1>4, <2>1, <3>1, <4>1, RingStays DEF Quiet
    <3>2. CASE todo = <<"setdeq">> /\ c.kind = "reset" /\ Quiet
      <4>1. UNCHANGED <<deq, ccs>>
        BY <1>2, <3>2
      <4>2. Where' = Where /\ AtEnd' = AtEnd
        BY <1>2, <1>4, <4>1, RingStays
      <4>3. endpoint' # "halted" /\ (endpoint # "running" => endpoint' # "running")
        BY <1>2, <3>2
      <4> QED BY <2>1, <3>2, <4>2, <4>3 DEF Quiet
    <3>3. CASE /\ todo = <<>> /\ c.kind = "setdeq" /\ Quiet /\ endpoint # "halted"
               /\ c.to = [pos |-> R.Enq, cycle |-> R.Cycle]
      <4>1. endpoint' # "halted"
        BY <1>2, <3>3
      <4>2. CASE endpoint = "stopped"
        <5>1. deq' = R.Enq /\ ccs' = R.Cycle
          BY <1>2, <3>3, <4>2
        <5>2. R.Enq \in 0..(Link - 1)
          BY <1>1 DEF CallTypes, Ring
        <5>3. AtEnd'
          BY <1>4, <5>1, <5>2 DEF AtEnd, Place, PlaceCycle
        <5> QED BY <3>3, <4>1, <5>3 DEF Where
      <4>3. CASE endpoint # "stopped"
        <5>1. UNCHANGED <<deq, ccs>> /\ AtEnd
          BY <1>1, <1>2, <3>3, <4>3 DEF Quiet, ControllerTypes
        <5>2. AtEnd'
          BY <1>2, <1>4, <5>1, RingStays
        <5> QED BY <3>3, <4>1, <5>2 DEF Where
      <4> QED BY <4>2, <4>3
    <3> QED BY <2>2, <2>3, <3>1, <3>2, <3>3 DEF ToExecute
  <2>7. ToAnswer'
    BY <1>4, <2>3, <2>5, <2>6 DEF ToAnswer, Answer, After
  <2> QED BY <1>4, <2>2, <2>6, <2>7 DEF InStep, Recovering, Transferring, Resting
<1> QED BY <1>5, <1>6, <1>7 DEF BusInv, InStep

------------------------------------------------------------------------------
(* Every step. *)

LEMMA BusStarts ==
  ASSUME Init
  PROVE  BusInv
<1>1. session \in Sessions /\ Link \in Nat /\ Link >= 2 /\ session.maxTds \in Nat
  BY SessionFacts DEF Init
<1>2. /\ R = [Base |-> [p \in 0..Link |-> NoTrb], Enq |-> 0, Cycle |-> 1]
      /\ EvtDeq = 0 /\ EvtCycle = 1 /\ erdp = 0
      /\ pc = "idle" /\ Td = 0 /\ TrbPhys = <<>> /\ Actual = 0 /\ ret = "none"
      /\ todo = <<>> /\ Commands = 0
      /\ deq = 0 /\ ccs = 1 /\ endpoint = "running" /\ queue = <<>>
      /\ Evt = [p \in 0..(EvtSize - 1) |-> NoEvent] /\ evtEnq = 0 /\ pcs = 1
      /\ posted = 0 /\ consumed = 0
  BY DEF Init
<1>3. NoEvent \in Event /\ NoEvent.cycle = 0
  BY DEF NoEvent, Event
<1>4. NoTrb \in Slot /\ NoTrb.cycle = 0 /\ NoTrb.k = 0
  BY <1>1 DEF NoTrb, Slot
<1> HIDE DEF NoTrb, NoEvent
<1>5. EventTypes /\ EventsFilled
  <2>1. /\ Evt \in [0..(EvtSize - 1) -> Event] /\ \A p \in 0..(EvtSize - 1) : Evt[p].cycle = 0
    BY <1>2, <1>3
  <2>2. 0 \in 0..(EvtSize - 1) /\ \A p \in 0..(EvtSize - 1) : ~(p < 0)
    BY EvtSizeFact
  <2>3. EventTypes
    BY <1>2, <2>1, <2>2 DEF EventTypes
  <2>4. EventsFilled
    BY <1>2, <2>1, <2>2 DEF EventsFilled
  <2> QED BY <2>3, <2>4
<1>6. /\ R.Base \in [0..Link -> Slot] /\ R.Enq = 0 /\ R.Cycle = 1
      /\ \A p \in 0..Link : R.Base[p] = NoTrb
  <2>1. [p \in 0..Link |-> NoTrb] \in [0..Link -> Slot]
    BY <1>4
  <2> QED BY <1>2, <2>1
<1>7. R \in Ring
  <2>1. 0 \in 0..(Link - 1) /\ [p \in 0..Link |-> NoTrb] \in [0..Link -> Slot]
    BY <1>1, <1>4
  <2> QED BY <1>2, <2>1 DEF Ring
<1>8. CallTypes
  <2>1. /\ TrbPhys \in Seq(0..(Link - 1)) /\ Len(TrbPhys) <= 2 /\ todo \in Seq(Kinds)
        /\ Td \in 0..session.maxTds
    BY <1>1, <1>2
  <2>2. \A p \in 0..Link : R.Base[p].k = 0
    BY <1>4, <1>6
  <2> QED BY <1>1, <1>2, <1>7, <2>1, <2>2 DEF CallTypes
<1>9. ControllerTypes
  BY <1>1, <1>2 DEF ControllerTypes
<1>10. TdInRing
  <2>1. Filled(R)
    BY <1>1, <1>4, <1>6 DEF Filled
  <2> QED BY <1>2, <2>1 DEF TdInRing
<1>11. AtEnd /\ Unread = {}
  <2>1. Unread = {}
    BY <1>2 DEF Unread
  <2> QED BY <1>1, <1>2, <1>6, <2>1 DEF AtEnd, Place, PlaceCycle
<1>12. InStep
  BY <1>2, <1>11 DEF InStep, Where, Recovering, Transferring, Resting
<1> QED BY <1>5, <1>8, <1>9, <1>10, <1>12 DEF BusInv

LEMMA BulkTdRight ==
  ASSUME BusInv, NEW n \in {1, 2}, BulkTd(n)
  PROVE  BusInv'
<1>1. UNCHANGED <<reader, events>>
  BY DEF BulkTd
<1> QED BY <1>1, EventsStay, TdPushed, StartedRight DEF BusInv

LEMMA BusRests ==
  ASSUME BusInv, UNCHANGED vars
  PROVE  BusInv'
<1>0. /\ UNCHANGED <<session, reader, call, events, deq, ccs, endpoint, queue, Bounce>>
  BY DEF vars
<1>1. CallTypes /\ ControllerTypes /\ TdInRing /\ InStep
  BY DEF BusInv
<1>2. EventTypes' /\ EventsFilled' /\ Unread' = Unread /\ UNCHANGED <<EvtDeq, Evt, evtEnq>>
  BY <1>0, EventsStay DEF BusInv
<1>3. /\ CallTypes' /\ ControllerTypes' /\ TdInRing' /\ Patient' = Patient
      /\ UNCHANGED <<session, R, pc, Td, TrbPhys, Actual, ret, todo, Commands>> /\ Link' = Link
  <2>1. deq' \in 0..Link /\ ccs' \in {0, 1} /\ endpoint' \in {"running", "stopped", "halted"}
          /\ queue' \in Seq(Asked)
    BY <1>0, <1>1 DEF ControllerTypes
  <2> QED BY <1>0, <1>1, <2>1, BusFrame
<1>4. AtEnd' = AtEnd /\ Quiet' = Quiet /\ Where' = Where
  BY <1>0, <1>1, <1>3, WaitFrame
<1>5. ASSUME Patient' PROVE InStep'
  <2>1. Where' /\ Recovering /\ Transferring /\ Resting
    BY <1>1, <1>3, <1>4, <1>5 DEF InStep
  <2>2. ToGive' = ToGive /\ ToExecute' = ToExecute
    BY <1>0, <1>2, <1>3, <1>4 DEF ToGive, ToExecute
  <2>3. ToAnswer' = ToAnswer
    BY <1>0, <1>2, <1>3, <1>4 DEF ToAnswer, Answer, After
  <2>4. Recovering'
    BY <1>3, <2>1, <2>2, <2>3 DEF Recovering
  <2>5. Transferring'
    BY <1>0, <1>2, <1>3, <1>4, <2>1 DEF Transferring, EndedAt
  <2>6. Resting'
    BY <1>0, <1>2, <1>3, <1>4, <2>1 DEF Resting
  <2> QED BY <2>1, <2>4, <2>5, <2>6 DEF InStep
<1> QED BY <1>2, <1>3, <1>5 DEF BusInv, InStep

LEMMA BusSteps ==
  ASSUME BusInv, [Next]_vars
  PROVE  BusInv'
<1>1. CASE \E n \in {1, 2} : BulkTd(n)
  BY <1>1, BulkTdRight
<1>2. CASE XhciClearHalt
  BY <1>2, ClearHaltRight
<1>3. CASE Waiting
  BY <1>3, BulkEventRight, BulkTimeOutRight, CommandRight, CommandEventRight, CommandTimeOutRight DEF Waiting
<1>4. CASE Transfer
  BY <1>4, FollowLinkRight, CompleteRight, ShortRight, FailRight DEF Transfer
<1>5. CASE StopReports
  BY <1>5, StopReportsRight
<1>6. CASE ExecuteCommand
  BY <1>6, ExecuteCommandRight
<1>7. CASE UNCHANGED vars
  BY <1>7, BusRests
<1> QED BY <1>1, <1>2, <1>3, <1>4, <1>5, <1>6, <1>7 DEF Next, Driver, Controller

(* What the invariant means for the run's properties.                      *)
LEMMA BusTypes ==
  ASSUME BusInv
  PROVE  TypeOK
<1>1. EventTypes /\ CallTypes /\ ControllerTypes
  BY DEF BusInv
<1>2. \A k \in DOMAIN TrbPhys : TrbPhys[k] \in 0..(Link - 1)
  <2>1. TrbPhys \in Seq(0..(Link - 1)) /\ DOMAIN TrbPhys = 1..Len(TrbPhys)
    BY <1>1 DEF CallTypes
  <2> QED BY <2>1, InSeq
<1>3. /\ R.Base \in [0..Link -> [td : 0..session.maxTds, k : {0, 1}, n : 0..2, cycle : {0, 1}]]
      /\ R.Enq \in 0..(Link - 1) /\ R.Cycle \in {0, 1}
  BY <1>1 DEF CallTypes, Ring, Slot
<1> QED BY <1>1, <1>2, <1>3 DEF TypeOK, EventTypes, CallTypes, ControllerTypes

LEMMA BusRight ==
  ASSUME BusInv
  PROVE  OnlyCurrentRuns /\ CycleTellsNew /\ (Patient => OkIsOwn)
<1>1. CycleTellsNew
  BY EventsThere DEF CycleTellsNew, BusInv
<1>2. OnlyCurrentRuns
  <2> SUFFICES ASSUME Patient, Available, deq # Link PROVE pc # "idle" /\ R.Base[deq].td = Td
    BY DEF OnlyCurrentRuns, Patient
  <2>1. PICK k \in 1..Len(TrbPhys) : deq = TrbPhys[k] /\ TrbIs(k)
    BY AtCurrent DEF BusInv
  <2>2. pc # "idle"
    BY StillRunning DEF BusInv
  <2> QED BY <2>1, <2>2 DEF TrbIs
<1>3. ASSUME Patient PROVE OkIsOwn
  BY <1>3 DEF BusInv, InStep, Resting, OkIsOwn
<1> QED BY <1>1, <1>2, <1>3

------------------------------------------------------------------------------
(* The protocol. *)

(* What the drive has still to send: everything but a status is followed   *)
(* by the status of the same command, and nothing is of a later command.   *)
ItemSet ==
  [kind : {"none", "data", "stall", "csw"}, tag : Nat, bytes : {0, 8, 13, 18, 512},
   info : {"none", "passed", "failed", "phase", "attention", "noMedium", "other"}]

InPairs(q) ==
  \A i \in 1..Len(q) :
    /\ q[i].kind = "csw" => q[i].bytes = 13
    /\ q[i].kind # "csw" =>
         /\ i + 1 \in 1..Len(q) /\ q[i + 1].kind = "csw" /\ q[i + 1].tag = q[i].tag
    /\ q[i].bytes = 512 => q[i] = B!Item("data", q[i].tag, 512, "none")

BotTypes ==
  /\ op \in {"none", "read", "ready"} /\ cmd \in {"read", "tur", "sense"}
  /\ ops \in 0..MaxOps /\ botRet \in {0, 1}
  /\ Attempt \in Nat /\ (op # "none" => Attempt < B!Tries[op])
  /\ step \in {"idle", "cbw", "cbwAgain", "data", "csw", "cswAgain", "reset", "returned",
               "clearOut", "clearIn", "clearInAgain"}
  /\ Tag \in Nat /\ Data \in ItemSet /\ Got = Data.bytes /\ St \in {"ok", "failed", "lost"}
  /\ out \in Seq(ItemSet) /\ Len(out) < 5 /\ halted \subseteq {"in", "out"} /\ clean \in BOOLEAN
  /\ (step = "idle" <=> op = "none")
  /\ op = "read" => cmd \in {"read", "sense"}
  /\ op = "ready" => cmd \in {"tur", "sense"}
  /\ step \in {"data", "clearIn"} => cmd # "tur"

Sending == step \in {"cbw", "cbwAgain", "clearOut"}
TakingStatus == step \in {"csw", "cswAgain", "clearInAgain"}
Receiving == step \in {"data", "clearIn"} \/ TakingStatus

(* A status of the command at hand is the last thing the drive sends.      *)
OwnLast ==
  /\ \A i \in 1..Len(out) : out[i].tag <= Tag /\ (Sending => out[i].tag < Tag)
  /\ Receiving => "out" \notin halted /\ \A i \in 1..Len(out) : out[i].kind = "csw" /\ out[i].tag = Tag
      => i = Len(out)

(* A sector's worth of data is the command's own, or the status that comes *)
(* next is not.                                                            *)
DataIsOwn == Data = B!Item("data", Tag, 512, "none")

DataKept ==
  /\ TakingStatus /\ Got = 512 => DataIsOwn \/ (out # <<>> /\ Head(out).kind = "csw" /\ Head(out).tag # Tag)
  /\ Sending \/ step \in {"data", "clearIn"} \/ cmd = "tur" => Data = B!Nothing
  /\ step = "returned" /\ St = "ok" /\ Got = 512 => DataIsOwn

OtherStep == InPairs(out) /\ OwnLast /\ DataKept /\ B!BackInStep /\ B!ReadIsOwn

(* A call during which nothing goes wrong.                                 *)
Passed == B!Item("csw", Tag, 13, "passed")

(* The drive's reply, behind what is left of the last calls.               *)
Coming ==
  /\ out # <<>> /\ out[Len(out)] = Passed
  /\ cmd = "read" /\ (step \in {"data", "clearIn"} \/ (Got # 512)) =>
       Len(out) > 1 /\ out[Len(out) - 1] = B!Item("data", Tag, 512, "none")

(* Nothing is left of them, and everything comes as it should.             *)
Straight ==
  /\ halted = {} /\ step \in {"cbw", "data", "csw", "returned"}
  /\ step = "cbw" => out = <<>>
  /\ step = "data" => out = <<B!Item("data", Tag, 512, "none"), Passed>>
  /\ step = "csw" => out = <<Passed>> /\ Got = B!Want[cmd]
  /\ step = "returned" => out = <<>> /\ St = "ok" /\ Got = B!Want[cmd]

GoesRight ==
  op # "none" /\ clean =>
    /\ cmd # "sense" /\ (Attempt = 0 \/ Straight)
    /\ Receiving => Coming
    /\ step = "returned" => out = <<>> /\ halted = {} /\ (St = "lost" \/ (St = "ok" /\ Got = B!Want[cmd]))

BotSafe == BotTypes /\ OtherStep

BotClean == ReadyTries > 1 => GoesRight /\ B!CleanCallSucceeds

------------------------------------------------------------------------------
(* What the drive sends. *)

LEMMA Front ==
  ASSUME NEW S, NEW q \in Seq(S), q # <<>>
  PROVE  /\ 1 \in 1..Len(q) /\ Head(q) = q[1] /\ Tail(q) \in Seq(S) /\ Len(Tail(q)) = Len(q) - 1
             /\ Len(q) \in Nat
         /\ \A i \in 1..Len(Tail(q)) : i + 1 \in 1..Len(q) /\ Tail(q)[i] = q[i + 1]
<1>1. Len(q) \in Nat /\ Len(q) # 0
  BY EmptySeq
<1>2. Head(q) = q[1]
  OBVIOUS
<1>3. /\ Tail(q) \in Seq(S) /\ Len(Tail(q)) = Len(q) - 1
      /\ \A i \in 1..Len(Tail(q)) : Tail(q)[i] = q[i + 1]
  BY HeadTailProperties
<1>4. \A i \in 1..(Len(q) - 1) : i + 1 \in 1..Len(q)
  BY <1>1
<1> QED BY <1>1, <1>2, <1>3, <1>4

LEMMA Behind ==
  ASSUME NEW S, NEW q \in Seq(S), NEW r \in Seq(S)
  PROVE  /\ q \o r \in Seq(S) /\ Len(q \o r) = Len(q) + Len(r) /\ Len(q) \in Nat /\ Len(r) \in Nat
         /\ \A i \in 1..Len(q) : (q \o r)[i] = q[i]
         /\ \A i \in 1..Len(r) : (q \o r)[Len(q) + i] = r[i]
         /\ \A i \in 1..Len(q \o r) : i \in 1..Len(q) \/ \E j \in 1..Len(r) : i = Len(q) + j
<1>1. /\ q \o r \in Seq(S) /\ Len(q \o r) = Len(q) + Len(r) /\ Len(q) \in Nat /\ Len(r) \in Nat
      /\ \A i \in 1..(Len(q) + Len(r)) : (q \o r)[i] = IF i <= Len(q) THEN q[i] ELSE r[i - Len(q)]
  BY ConcatProperties
<1>2. \A m \in Nat, n \in Nat : \A i \in 1..(m + n) : i \in 1..m \/ (i - m \in 1..n /\ i = m + (i - m))
  OBVIOUS
<1>3. \A i \in 1..Len(q) : (q \o r)[i] = q[i]
  <2>1. \A m \in Nat, n \in Nat : \A i \in 1..m : i \in 1..(m + n) /\ i <= m
    OBVIOUS
  <2> QED BY <1>1, <2>1
<1>4. \A i \in 1..Len(r) : (q \o r)[Len(q) + i] = r[i]
  <2>1. \A m \in Nat, n \in Nat : \A i \in 1..n : m + i \in 1..(m + n) /\ ~(m + i <= m) /\ m + i - m = i
    OBVIOUS
  <2> QED BY <1>1, <2>1
<1> QED BY <1>1, <1>2, <1>3, <1>4

LEMMA PairsPopped ==
  ASSUME NEW q \in Seq(ItemSet), q # <<>>, InPairs(q)
  PROVE  InPairs(Tail(q)) /\ (Head(q).kind # "csw" =>
           Tail(q) # <<>> /\ Head(Tail(q)).kind = "csw" /\ Head(Tail(q)).tag = Head(q).tag)
<1> DEFINE t == Tail(q)
<1>1. /\ 1 \in 1..Len(q) /\ Head(q) = q[1] /\ t \in Seq(ItemSet) /\ Len(t) = Len(q) - 1 /\ Len(q) \in Nat
      /\ \A i \in 1..Len(t) : i + 1 \in 1..Len(q) /\ t[i] = q[i + 1]
  BY Front
<1> HIDE DEF t
<1>2. \A i \in 1..Len(t) : i + 1 + 1 \in 1..Len(q) => i + 1 \in 1..Len(t)
  BY <1>1
<1>3. InPairs(t)
  BY <1>1, <1>2 DEF InPairs
<1>4. ASSUME Head(q).kind # "csw"
      PROVE  t # <<>> /\ Head(t).kind = "csw" /\ Head(t).tag = Head(q).tag
  <2>1. 1 + 1 \in 1..Len(q) /\ q[1 + 1].kind = "csw" /\ q[1 + 1].tag = q[1].tag
    BY <1>1, <1>4 DEF InPairs
  <2>2. Len(t) # 0 /\ 1 \in 1..Len(t)
    BY <1>1, <2>1
  <2>3. t # <<>>
    BY <2>2
  <2>4. Head(t) = t[1]
    BY <1>1, <2>3, Front
  <2> QED BY <1>1, <2>1, <2>2, <2>3, <2>4
<1> QED BY <1>3, <1>4 DEF t

LEMMA PairsJoined ==
  ASSUME NEW q \in Seq(ItemSet), NEW r \in Seq(ItemSet), InPairs(q), InPairs(r)
  PROVE  InPairs(q \o r)
<1> DEFINE b == q \o r
<1>1. /\ b \in Seq(ItemSet) /\ Len(b) = Len(q) + Len(r) /\ Len(q) \in Nat /\ Len(r) \in Nat
      /\ \A i \in 1..Len(q) : b[i] = q[i]
      /\ \A i \in 1..Len(r) : b[Len(q) + i] = r[i]
      /\ \A i \in 1..Len(b) : i \in 1..Len(q) \/ \E j \in 1..Len(r) : i = Len(q) + j
  BY ZenonT(120), Behind
<1> HIDE DEF b
<1>2. SUFFICES ASSUME NEW i \in 1..Len(b)
               PROVE  /\ b[i].kind = "csw" => b[i].bytes = 13
                      /\ b[i].kind # "csw" =>
                           /\ i + 1 \in 1..Len(b) /\ b[i + 1].kind = "csw" /\ b[i + 1].tag = b[i].tag
                      /\ b[i].bytes = 512 => b[i] = B!Item("data", b[i].tag, 512, "none")
  BY DEF InPairs, b
<1>3. CASE i \in 1..Len(q)
  <2>1. b[i] = q[i]
    BY <1>1, <1>3
  <2>2. i + 1 \in 1..Len(q) => i + 1 \in 1..Len(b) /\ b[i + 1] = q[i + 1]
    BY <1>1, <1>3
  <2> QED BY <1>3, <2>1, <2>2 DEF InPairs
<1>4. CASE \E j \in 1..Len(r) : i = Len(q) + j
  <2>1. PICK j \in 1..Len(r) : i = Len(q) + j
    BY <1>4
  <2>2. b[i] = r[j]
    BY <1>1, <2>1
  <2>3. j + 1 \in 1..Len(r) => i + 1 \in 1..Len(b) /\ b[i + 1] = r[j + 1]
    <3> SUFFICES ASSUME j + 1 \in 1..Len(r) PROVE i + 1 \in 1..Len(b) /\ b[i + 1] = r[j + 1]
      OBVIOUS
    <3>1. i + 1 = Len(q) + (j + 1) /\ i + 1 \in 1..Len(b)
      BY <1>1, <2>1
    <3> QED BY <1>1, <3>1
  <2> QED BY <2>1, <2>2, <2>3 DEF InPairs
<1> QED BY <1>1, <1>3, <1>4

(* A reply ends in the command's status, and is that or a pair.            *)
IsReply(r) ==
  /\ r \in Seq(ItemSet) /\ InPairs(r) /\ Len(r) \in {1, 2}
  /\ \A i \in 1..Len(r) : r[i].tag = Tag /\ (r[i].kind = "csw" => i = Len(r))

GoodReply ==
  IF cmd = "read" THEN <<B!Item("data", Tag, 512, "none"), Passed>> ELSE <<Passed>>

LEMMA StatusReply ==
  ASSUME Tag \in Nat, NEW st \in {"passed", "failed", "phase"}
  PROVE  IsReply(B!Csw(st))
<1> DEFINE c == B!Item("csw", Tag, 13, st)
<1>1. c \in ItemSet /\ c.kind = "csw" /\ c.tag = Tag /\ c.bytes = 13
  BY DEF B!Item, ItemSet
<1> HIDE DEF c
<1>2. <<c>> \in Seq(ItemSet) /\ Len(<<c>>) = 1 /\ \A i \in 1..1 : i = 1 /\ <<c>>[i] = c
  BY <1>1
<1>3. IsReply(<<c>>)
  BY <1>1, <1>2 DEF IsReply, InPairs
<1> QED BY <1>3 DEF B!Csw, c

LEMMA TwoJoined ==
  ASSUME NEW S, NEW x \in S, NEW c \in S
  PROVE  <<x>> \o <<c>> = <<x, c>>
<1>1. <<x>> \in Seq(S) /\ <<c>> \in Seq(S) /\ <<x, c>> \in Seq(S)
  OBVIOUS
<1>2. Append(<<x>>, c) = <<x>> \o <<c>>
  BY <1>1, AppendIsConcat
<1> DEFINE a == <<x>> \o <<c>>
<1>3. /\ a \in Seq(S) /\ Len(a) = 2 /\ a[1] = x /\ a[2] = c
  <2>1. Len(<<x>>) = 1 /\ <<x>>[1] = x
    OBVIOUS
  <2>2. /\ Append(<<x>>, c) \in Seq(S) /\ Len(Append(<<x>>, c)) = Len(<<x>>) + 1
        /\ Append(<<x>>, c)[1] = <<x>>[1] /\ Append(<<x>>, c)[Len(<<x>>) + 1] = c
    BY <1>1, <2>1, AppendProperties
  <2> QED BY <1>2, <2>1, <2>2
<1> HIDE DEF a
<1>4. Len(<<x, c>>) = 2 /\ <<x, c>>[1] = x /\ <<x, c>>[2] = c
  OBVIOUS
<1>5. \A i \in 1..Len(a) : a[i] = <<x, c>>[i]
  BY <1>3, <1>4
<1>6. a = <<x, c>>
  BY <1>1, <1>3, <1>4, <1>5, SeqEqual
<1> QED BY <1>6 DEF a

LEMMA PairReply ==
  ASSUME Tag \in Nat, NEW st \in {"passed", "failed", "phase"}, NEW x \in ItemSet,
         x.kind # "csw", x.tag = Tag, x.bytes = 512 => x = B!Item("data", Tag, 512, "none")
  PROVE  IsReply(<<x>> \o B!Csw(st)) /\ <<x>> \o B!Csw(st) = <<x, B!Item("csw", Tag, 13, st)>>
<1> DEFINE c == B!Item("csw", Tag, 13, st)
<1>1. c \in ItemSet /\ c.kind = "csw" /\ c.tag = Tag /\ c.bytes = 13
  BY DEF B!Item, ItemSet
<1>2. <<x>> \o B!Csw(st) = <<x, c>>
  <2> HIDE DEF c
  <2>1. B!Csw(st) = <<c>>
    BY DEF B!Csw, c
  <2>2. <<x>> \o <<c>> = <<x, c>>
    BY <1>1, TwoJoined
  <2> QED BY <2>1, <2>2
<1> HIDE DEF c
<1>3. /\ <<x, c>> \in Seq(ItemSet) /\ Len(<<x, c>>) = 2 /\ <<x, c>>[1] = x /\ <<x, c>>[2] = c
      /\ \A i \in 1..2 : i = 1 \/ i = 2
  BY <1>1
<1>4. InPairs(<<x, c>>)
  <2>1. 1 + 1 \in 1..2 /\ 1 + 1 = 2
    OBVIOUS
  <2> QED BY <1>1, <1>3, <2>1 DEF InPairs
<1>5. IsReply(<<x, c>>)
  BY <1>1, <1>3, <1>4 DEF IsReply
<1> QED BY <1>2, <1>5 DEF c

LEMMA DataReply ==
  ASSUME Tag \in Nat, NEW st \in {"passed", "failed", "phase"}, NEW n \in {8, 18, 512},
         NEW info \in {"none", "attention", "noMedium", "other"}, n = 512 => info = "none"
  PROVE  IsReply(B!Sends(n, info) \o B!Csw(st))
         /\ B!Sends(n, info) \o B!Csw(st) = <<B!Item("data", Tag, n, info), B!Item("csw", Tag, 13, st)>>
<1> DEFINE x == B!Item("data", Tag, n, info)
<1>1. x \in ItemSet /\ x.kind # "csw" /\ x.tag = Tag /\ (x.bytes = 512 => x = B!Item("data", Tag, 512,
        "none"))
  BY DEF B!Item, ItemSet
<1> HIDE DEF x
<1>2. IsReply(<<x>> \o B!Csw(st)) /\ <<x>> \o B!Csw(st) = <<x, B!Item("csw", Tag, 13, st)>>
  BY <1>1, PairReply
<1> QED BY <1>2 DEF B!Sends, x

LEMMA StallReply ==
  ASSUME Tag \in Nat, NEW st \in {"passed", "failed"}
  PROVE  IsReply(B!Stalls \o B!Csw(st))
<1> DEFINE x == B!Item("stall", Tag, 0, "none")
<1>1. x \in ItemSet /\ x.kind # "csw" /\ x.tag = Tag /\ x.bytes # 512
  BY DEF B!Item, ItemSet
<1> HIDE DEF x
<1>2. IsReply(<<x>> \o B!Csw(st))
  BY <1>1, PairReply
<1> QED BY <1>2 DEF B!Stalls, x

LEMMA GoodOnes ==
  ASSUME Tag \in Nat, cmd \in {"read", "tur", "sense"}, NEW r \in B!GoodReplies
  PROVE  IsReply(r) /\ (cmd # "sense" => r = GoodReply)
<1>1. CASE cmd = "tur"
  <2>1. r = B!Csw("passed")
    BY <1>1 DEF B!GoodReplies
  <2>2. GoodReply = B!Csw("passed")
    BY <1>1 DEF GoodReply, B!Csw, Passed
  <2> QED BY <2>1, <2>2, StatusReply
<1>2. CASE cmd = "read"
  <2>1. r = B!Sends(512, "none") \o B!Csw("passed")
    BY <1>2 DEF B!GoodReplies
  <2>2. r = GoodReply /\ IsReply(r)
    BY <1>2, <2>1, DataReply DEF GoodReply, Passed
  <2> QED BY <2>2
<1>3. CASE cmd = "sense"
  <2>1. PICK key \in {"attention", "noMedium", "other"} : r = B!Sends(18, key) \o B!Csw("passed")
    BY <1>3 DEF B!GoodReplies
  <2>2. IsReply(r)
    BY <2>1, DataReply
  <2> QED BY <1>3, <2>2
<1> QED BY <1>1, <1>2, <1>3

LEMMA OtherOnes ==
  ASSUME Tag \in Nat, cmd \in {"read", "tur", "sense"}, NEW r \in B!OtherReplies
  PROVE  IsReply(r)
<1>1. CASE r = B!Csw("failed") \/ r = B!Csw("phase")
  BY <1>1, StatusReply
<1>2. CASE r = B!Stalls \o B!Csw("failed") \/ r = B!Stalls \o B!Csw("passed")
  BY <1>2, StallReply
<1>3. CASE r = B!Sends(8, "none") \o B!Csw("passed")
  BY <1>3, DataReply
<1>4. CASE cmd # "tur" /\ r = B!Sends(B!Want[cmd], "none") \o B!Csw("phase")
  <2>1. B!Want[cmd] \in {8, 18, 512}
    BY <1>4 DEF B!Want
  <2> QED BY <1>4, <2>1, DataReply
<1> QED BY <1>1, <1>2, <1>3, <1>4 DEF B!OtherReplies

(* The drive takes a command.                                              *)
LEMMA Accepted ==
  ASSUME BotTypes, InPairs(out), OwnLast, Sending, NEW wrong \in BOOLEAN, B!Accepts(wrong)
  PROVE  /\ out' \in Seq(ItemSet) /\ Len(out') < 5 /\ InPairs(out')
         /\ \A i \in 1..Len(out') : out'[i].tag <= Tag /\ (out'[i].kind = "csw" /\ out'[i].tag = Tag
             => i = Len(out'))
         /\ "out" \notin halted /\ halted' = halted /\ clean' \in BOOLEAN
         /\ clean' => clean /\ ~wrong /\ (cmd # "sense" => out' = out \o GoodReply)
<1>0. /\ Tag \in Nat /\ cmd \in {"read", "tur", "sense"} /\ out \in Seq(ItemSet) /\ clean \in BOOLEAN
      /\ \A i \in 1..Len(out) : out[i].tag < Tag
  BY DEF BotTypes, OwnLast
<1>1. PICK r : IsReply(r) /\ out' = out \o r /\ clean' \in BOOLEAN
                /\ (clean' => clean /\ ~wrong /\ (cmd # "sense" => r = GoodReply))
  <2>1. CASE (\E r \in B!GoodReplies : out' = out \o r) /\ B!Unless(wrong)
    BY <1>0, <2>1, GoodOnes DEF B!Unless
  <2>2. CASE (\E r \in B!OtherReplies : out' = out \o r) /\ B!Unless(TRUE)
    BY <1>0, <2>2, OtherOnes DEF B!Unless
  <2> QED BY <2>1, <2>2 DEF B!Accepts
<1>2. Len(out) < 3 /\ "out" \notin halted /\ halted' = halted
  BY DEF B!Accepts
<1>3. /\ r \in Seq(ItemSet) /\ InPairs(r) /\ Len(r) \in {1, 2}
      /\ \A i \in 1..Len(r) : r[i].tag = Tag /\ (r[i].kind = "csw" => i = Len(r))
  BY <1>1 DEF IsReply
<1>4. /\ out' \in Seq(ItemSet) /\ Len(out') = Len(out) + Len(r) /\ Len(out) \in Nat
      /\ \A i \in 1..Len(out) : out'[i] = out[i]
      /\ \A i \in 1..Len(r) : out'[Len(out) + i] = r[i]
      /\ \A i \in 1..Len(out') : i \in 1..Len(out) \/ \E j \in 1..Len(r) : i = Len(out) + j
  BY <1>0, <1>1, <1>3, Behind
<1>5. InPairs(out')
  BY <1>0, <1>1, <1>3, PairsJoined
<1>6. ASSUME NEW i \in 1..Len(out')
      PROVE  out'[i].tag <= Tag /\ (out'[i].kind = "csw" /\ out'[i].tag = Tag => i = Len(out'))
  <2>1. CASE i \in 1..Len(out)
    <3>1. out[i].tag < Tag /\ out[i].tag \in Nat
      <4>1. out[i] \in ItemSet
        BY <1>0, <2>1
      <4> QED BY <1>0, <2>1, <4>1 DEF ItemSet
    <3> QED BY <1>0, <1>4, <2>1, <3>1
  <2>2. CASE \E j \in 1..Len(r) : i = Len(out) + j
    <3>1. PICK j \in 1..Len(r) : i = Len(out) + j
      BY <2>2
    <3>2. out'[i] = r[j]
      BY <1>4, <3>1
    <3> QED BY <1>0, <1>3, <1>4, <3>1, <3>2
  <2> QED BY <1>4, <2>1, <2>2
<1>7. Len(out') < 5
  <2>1. \A m \in Nat, k \in {1, 2} : m < 3 => m + k < 5
    OBVIOUS
  <2>2. Len(out') = Len(out) + Len(r) /\ Len(out) \in Nat /\ Len(r) \in {1, 2} /\ Len(out) < 3
    BY <1>2, <1>3, <1>4
  <2> QED BY <2>1, <2>2
<1> QED BY <1>1, <1>2, <1>4, <1>5, <1>6, <1>7

------------------------------------------------------------------------------
(* The driver stays behind the drive, or gets back in step with it. *)

LEMMA Parts ==
  ASSUME BotSafe
  PROVE  /\ BotTypes /\ InPairs(out) /\ OwnLast /\ DataKept /\ B!BackInStep /\ B!ReadIsOwn
         /\ out \in Seq(ItemSet) /\ Tag \in Nat /\ clean \in BOOLEAN /\ halted \subseteq {"in", "out"}
         /\ cmd \in {"read", "tur", "sense"} /\ Got = Data.bytes
BY DEF BotSafe, OtherStep, BotTypes

LEMMA NothingThere ==
  B!Nothing \in ItemSet /\ B!Nothing.bytes = 0
BY DEF B!Nothing, B!Item, ItemSet

(* One item less.                                                          *)
LEMMA Taken ==
  ASSUME BotSafe, Receiving, out # <<>>
  PROVE  /\ Tail(out) \in Seq(ItemSet) /\ Len(Tail(out)) < 5 /\ InPairs(Tail(out)) /\ Head(out) \in ItemSet
         /\ \A i \in 1..Len(Tail(out)) :
              /\ Tail(out)[i].tag <= Tag
              /\ Tail(out)[i].kind = "csw" /\ Tail(out)[i].tag = Tag => i = Len(Tail(out))
<1> DEFINE t == Tail(out)
<1>1. /\ 1 \in 1..Len(out) /\ Head(out) = out[1] /\ t \in Seq(ItemSet) /\ Len(t) = Len(out) - 1
      /\ Len(out) \in Nat
      /\ \A i \in 1..Len(t) : i + 1 \in 1..Len(out) /\ t[i] = out[i + 1]
  BY Parts, Front
<1>2. InPairs(t)
  BY Parts, PairsPopped
<1>3. \A i \in 1..Len(out) : out[i].tag <= Tag /\ (out[i].kind = "csw" /\ out[i].tag = Tag => i = Len(out))
  BY Parts DEF OwnLast
<1>4. Len(out) < 5 /\ out[1] \in ItemSet
  <2>1. out \in Seq(ItemSet)
    BY Parts
  <2> QED BY <1>1, <2>1, Parts DEF BotTypes
<1> HIDE DEF t
<1>5. \A i \in 1..Len(t) : i + 1 = Len(out) => i = Len(t)
  <2>1. \A n \in Nat : \A i \in 1..(n - 1) : i + 1 = n => i = n - 1
    OBVIOUS
  <2> QED BY <1>1, <2>1
<1>6. Len(t) < 5
  BY <1>1, <1>4
<1>7. \A i \in 1..Len(t) : t[i].tag <= Tag /\ (t[i].kind = "csw" /\ t[i].tag = Tag => i = Len(t))
  BY <1>1, <1>3, <1>5
<1> QED BY <1>1, <1>2, <1>4, <1>6, <1>7 DEF t

(* What stays the same while a command is under way.                       *)
LEMMA BotFrame ==
  ASSUME BotSafe, UNCHANGED <<B!caller, Tag>>, op # "none",
         step' \in {"cbw", "cbwAgain", "data", "csw", "cswAgain", "reset", "returned",
                    "clearOut", "clearIn", "clearInAgain"},
         step' \in {"data", "clearIn"} => cmd # "tur",
         Data' \in ItemSet, Got' = Data'.bytes, St' \in {"ok", "failed", "lost"},
         out' \in Seq(ItemSet), Len(out') < 5, halted' \subseteq {"in", "out"}, clean' \in BOOLEAN
  PROVE  BotTypes' /\ B!ReadIsOwn'
<1>1. BotTypes /\ UNCHANGED <<op, ops, cmd, Attempt, botRet, Tag>>
  BY Parts DEF B!caller
<1>2. B!Tries' = B!Tries
  BY DEF B!Tries
<1>3. BotTypes'
  BY <1>1, <1>2 DEF BotTypes
<1> QED BY <1>1, <1>3 DEF B!ReadIsOwn

LEMMA SendCbwSafe ==
  ASSUME BotSafe, B!SendCbw
  PROVE  BotSafe'
<1>1. /\ step \in {"cbw", "cbwAgain"} /\ UNCHANGED <<B!caller, Tag, Data, Got, St>>
      /\ Sending /\ op # "none" /\ Data = B!Nothing /\ Data \in ItemSet /\ Got = 0
  <2>1. step \in {"cbw", "cbwAgain"} /\ UNCHANGED <<B!caller, Tag, Data, Got, St>>
    BY DEF B!SendCbw
  <2>2. Sending
    BY <2>1 DEF Sending
  <2> QED BY <2>1, <2>2, Parts, NothingThere DEF DataKept, BotTypes
<1>2. St' \in {"ok", "failed", "lost"} /\ Got' = Data'.bytes /\ Data' \in ItemSet /\ cmd' = cmd
  BY <1>1, Parts DEF BotTypes, B!caller
<1>3. CASE B!CbwOk /\ step' = IF B!Want[cmd] = 0 THEN "csw" ELSE "data"
  <2>1. /\ out' \in Seq(ItemSet) /\ Len(out') < 5 /\ InPairs(out')
        /\ \A i \in 1..Len(out') : out'[i].tag <= Tag /\ (out'[i].kind = "csw" /\ out'[i].tag = Tag
            => i = Len(out'))
        /\ "out" \notin halted /\ halted' = halted /\ clean' \in BOOLEAN
    BY <1>1, <1>3, Accepted, Parts DEF B!CbwOk
  <2>2. step' = (IF cmd = "tur" THEN "csw" ELSE "data")
    BY <1>3, Parts DEF B!Want
  <2>3. BotTypes' /\ B!ReadIsOwn'
    BY <1>1, <1>2, <2>1, <2>2, BotFrame, Parts
  <2>4. OwnLast'
    BY <1>1, <2>1, <2>2 DEF OwnLast, Sending
  <2>5. DataKept'
    BY <1>1, <2>2 DEF DataKept, Sending, TakingStatus, B!Nothing, B!Item
  <2>6. B!BackInStep'
    BY <2>2 DEF B!BackInStep
  <2> QED BY <2>1, <2>3, <2>4, <2>5, <2>6 DEF BotSafe, OtherStep
<1>4. CASE B!CbwFail /\ step' = "reset"
  <2>1. /\ out' \in Seq(ItemSet) /\ Len(out') < 5 /\ InPairs(out')
        /\ \A i \in 1..Len(out') : out'[i].tag <= Tag
        /\ halted' = halted /\ clean' \in BOOLEAN
    <3>1. CASE B!Accepts(TRUE)
      BY <1>1, <3>1, Accepted, Parts
    <3>2. CASE B!Refuses("out") /\ UNCHANGED halted
      BY <3>2, Parts DEF B!Refuses, B!Unless, OwnLast, BotTypes
    <3> QED BY <1>4, <3>1, <3>2 DEF B!CbwFail
  <2>2. BotTypes' /\ B!ReadIsOwn'
    BY <1>1, <1>2, <1>4, <2>1, BotFrame, Parts
  <2>3. OwnLast'
    BY <1>1, <1>4, <2>1 DEF OwnLast, Sending, Receiving, TakingStatus
  <2>4. DataKept' /\ B!BackInStep'
    BY <1>1, <1>4 DEF DataKept, B!BackInStep, Sending, TakingStatus
  <2> QED BY <2>1, <2>2, <2>3, <2>4 DEF BotSafe, OtherStep
<1>5. CASE B!CbwStall /\ step' = IF step = "cbw" THEN "clearOut" ELSE "reset"
  <2>1. out' = out /\ halted' = halted \cup {"out"} /\ clean' \in BOOLEAN
    BY <1>5, Parts DEF B!CbwStall, B!Refuses, B!Unless
  <2>2. BotTypes' /\ B!ReadIsOwn'
    BY <1>1, <1>2, <1>5, <2>1, BotFrame, Parts DEF BotTypes
  <2>3. OwnLast'
    BY <1>1, <1>5, <2>1, Parts DEF OwnLast, Sending, Receiving, TakingStatus
  <2>4. DataKept' /\ B!BackInStep'
    BY <1>1, <1>5 DEF DataKept, B!BackInStep, Sending, TakingStatus
  <2> QED BY <2>1, <2>2, <2>3, <2>4, Parts DEF BotSafe, OtherStep
<1> QED BY <1>3, <1>4, <1>5 DEF B!SendCbw

LEMMA ReceiveDataSafe ==
  ASSUME BotSafe, B!ReceiveData
  PROVE  BotSafe'
<1>1. /\ step = "data" /\ UNCHANGED <<B!caller, Tag, St>> /\ cmd' = cmd
      /\ Receiving /\ op # "none" /\ cmd # "tur" /\ Data = B!Nothing /\ Data \in ItemSet /\ Got = 0
  <2>1. step = "data" /\ UNCHANGED <<B!caller, Tag, St>>
    BY DEF B!ReceiveData
  <2> QED BY <2>1, Parts, NothingThere DEF DataKept, BotTypes, Receiving, B!caller
<1>2. St' \in {"ok", "failed", "lost"}
  BY <1>1, Parts DEF BotTypes
<1>3. "out" \notin halted /\ halted \subseteq {"in", "out"}
  BY <1>1, Parts DEF OwnLast
<1>4. \A i \in 1..Len(out) : out[i].tag <= Tag /\ (out[i].kind = "csw" /\ out[i].tag = Tag => i = Len(out))
  BY <1>1, Parts DEF OwnLast
<1>5. CASE B!InOk(B!Want[cmd]) /\ Data' = Head(out) /\ Got' = Head(out).bytes /\ step' = "csw"
  <2>1. out # <<>> /\ out' = Tail(out) /\ halted' = halted /\ clean' \in BOOLEAN
    BY <1>5, Parts DEF B!InOk, B!Unless
  <2>2. /\ out' \in Seq(ItemSet) /\ Len(out') < 5 /\ InPairs(out') /\ Head(out) \in ItemSet
        /\ \A i \in 1..Len(out') : out'[i].tag <= Tag /\ (out'[i].kind = "csw" /\ out'[i].tag = Tag
            => i = Len(out'))
    BY <1>1, <2>1, Taken
  <2>3. BotTypes' /\ B!ReadIsOwn'
    BY <1>1, <1>2, <1>3, <1>5, <2>1, <2>2, BotFrame
  <2>4. OwnLast'
    BY <1>1, <1>3, <1>5, <2>1, <2>2 DEF OwnLast, Sending
  <2>5. Got' = 512 => DataIsOwn' \/ (out' # <<>> /\ Head(out').kind = "csw" /\ Head(out').tag # Tag)
    <3> SUFFICES ASSUME Got' = 512
                 PROVE  DataIsOwn' \/ (out' # <<>> /\ Head(out').kind = "csw" /\ Head(out').tag # Tag)
      OBVIOUS
    <3>1. Head(out) = B!Item("data", Head(out).tag, 512, "none")
      <4>1. 1 \in 1..Len(out) /\ Head(out) = out[1]
        BY <2>1, Front, Parts
      <4> QED BY <1>5, <4>1, Parts DEF InPairs
    <3>2. CASE Head(out).tag = Tag
      BY <1>1, <1>5, <3>1, <3>2 DEF DataIsOwn
    <3>3. CASE Head(out).tag # Tag
      <4>1. Head(out).kind # "csw"
        BY <3>1 DEF B!Item
      <4> QED BY <2>1, <3>3, <4>1, Parts, PairsPopped
    <3> QED BY <3>2, <3>3
  <2>6. DataKept'
    BY <1>1, <1>5, <2>5 DEF DataKept, Sending
  <2>7. B!BackInStep'
    BY <1>5 DEF B!BackInStep
  <2> QED BY <2>2, <2>3, <2>4, <2>6, <2>7 DEF BotSafe, OtherStep
<1>6. CASE B!InStall /\ step' = "clearIn" /\ UNCHANGED <<Data, Got>>
  <2>1. /\ halted' \subseteq {"in", "out"} /\ "out" \notin halted' /\ clean' \in BOOLEAN
        /\ out' = out \/ (out # <<>> /\ out' = Tail(out))
    BY <1>3, <1>6, Parts DEF B!InStall, B!Unless, B!drive
  <2>2. /\ out' \in Seq(ItemSet) /\ Len(out') < 5 /\ InPairs(out')
        /\ \A i \in 1..Len(out') : out'[i].tag <= Tag /\ (out'[i].kind = "csw" /\ out'[i].tag = Tag
            => i = Len(out'))
    <3>1. CASE out' = out
      BY <1>4, <3>1, Parts DEF BotTypes
    <3>2. CASE out # <<>> /\ out' = Tail(out)
      BY <1>1, <3>2, Taken
    <3> QED BY <2>1, <3>1, <3>2
  <2>3. BotTypes' /\ B!ReadIsOwn'
    BY <1>1, <1>2, <1>6, <2>1, <2>2, BotFrame, Parts
  <2>4. OwnLast'
    BY <1>1, <1>6, <2>1, <2>2 DEF OwnLast, Sending
  <2>5. DataKept' /\ B!BackInStep'
    BY <1>1, <1>6 DEF DataKept, B!BackInStep, Sending, TakingStatus, B!Nothing, B!Item
  <2> QED BY <2>2, <2>3, <2>4, <2>5 DEF BotSafe, OtherStep
<1>7. CASE B!InFail(B!Want[cmd]) /\ step' = "reset" /\ UNCHANGED <<Data, Got>>
  <2>1. /\ halted' = halted /\ clean' \in BOOLEAN
        /\ out' = out \/ (out # <<>> /\ out' = Tail(out))
    BY <1>7, Parts DEF B!InFail, B!Unless
  <2>2. /\ out' \in Seq(ItemSet) /\ Len(out') < 5 /\ InPairs(out')
        /\ \A i \in 1..Len(out') : out'[i].tag <= Tag
    <3>1. CASE out' = out
      BY <1>4, <3>1, Parts DEF BotTypes
    <3>2. CASE out # <<>> /\ out' = Tail(out)
      BY <1>1, <3>2, Taken
    <3> QED BY <2>1, <3>1, <3>2
  <2>3. BotTypes' /\ B!ReadIsOwn'
    BY <1>1, <1>2, <1>3, <1>7, <2>1, <2>2, BotFrame, Parts
  <2>4. OwnLast'
    BY <1>1, <1>7, <2>2 DEF OwnLast, Sending, Receiving, TakingStatus
  <2>5. DataKept' /\ B!BackInStep'
    BY <1>1, <1>7 DEF DataKept, B!BackInStep, Sending, TakingStatus
  <2> QED BY <2>2, <2>3, <2>4, <2>5 DEF BotSafe, OtherStep
<1> QED BY <1>5, <1>6, <1>7 DEF B!ReceiveData

LEMMA ReceiveCswSafe ==
  ASSUME BotSafe, B!ReceiveCsw
  PROVE  BotSafe'
<1>1. /\ step \in {"csw", "cswAgain"} /\ UNCHANGED <<B!caller, Tag, Data, Got>> /\ cmd' = cmd
      /\ TakingStatus /\ Receiving /\ op # "none"
  <2>1. step \in {"csw", "cswAgain"} /\ UNCHANGED <<B!caller, Tag, Data, Got>>
    BY DEF B!ReceiveCsw
  <2> QED BY <2>1, Parts DEF BotTypes, TakingStatus, Receiving, B!caller
<1>2. Data' \in ItemSet /\ Got' = Data'.bytes /\ St \in {"ok", "failed", "lost"}
  BY <1>1, Parts DEF BotTypes
<1>3. "out" \notin halted /\ halted \subseteq {"in", "out"}
  BY <1>1, Parts DEF OwnLast
<1>4. \A i \in 1..Len(out) : out[i].tag <= Tag /\ (out[i].kind = "csw" /\ out[i].tag = Tag => i = Len(out))
  BY <1>1, Parts DEF OwnLast
<1>5. Got = 512 => DataIsOwn \/ (out # <<>> /\ Head(out).kind = "csw" /\ Head(out).tag # Tag)
  BY <1>1, Parts DEF DataKept
<1>6. cmd = "tur" => Data = B!Nothing
  BY Parts DEF DataKept
<1>7. /\ halted' \subseteq {"in", "out"} /\ "out" \notin halted' /\ clean' \in BOOLEAN
      /\ out' = out \/ (out # <<>> /\ out' = Tail(out))
  BY <1>3, Parts DEF B!ReceiveCsw, B!InOk, B!InStall, B!InFail, B!Unless, B!drive
<1>8. /\ out' \in Seq(ItemSet) /\ Len(out') < 5 /\ InPairs(out')
      /\ \A i \in 1..Len(out') : out'[i].tag <= Tag /\ (out'[i].kind = "csw" /\ out'[i].tag = Tag
          => i = Len(out'))
  <2>1. CASE out' = out
    BY <1>4, <2>1, Parts DEF BotTypes
  <2>2. CASE out # <<>> /\ out' = Tail(out)
    BY <1>1, <2>2, Taken
  <2> QED BY <1>7, <2>1, <2>2
<1>9. step' \in {"returned", "reset", "clearInAgain"} /\ St' \in {"ok", "failed", "lost"}
  BY <1>2 DEF B!ReceiveCsw, B!Return
<1>10. BotTypes' /\ B!ReadIsOwn'
  BY <1>1, <1>2, <1>7, <1>8, <1>9, BotFrame
<1>11. OwnLast'
  BY <1>1, <1>7, <1>8, <1>9 DEF OwnLast, Sending
<1>12. CASE B!InOk(13) /\ B!OwnCsw(Head(out))
            /\ ((Head(out).info = "passed" /\ B!Return("ok")) \/ (Head(out).info = "failed"
                /\ B!Return("failed")))
  <2>1. out # <<>> /\ out' = Tail(out) /\ halted' = halted /\ "in" \notin halted
    BY <1>12 DEF B!InOk
  <2>2. Head(out).kind = "csw" /\ Head(out).tag = Tag /\ step' = "returned"
    BY <1>12 DEF B!OwnCsw, B!Return
  <2>3. out' = <<>>
    <3>1. 1 \in 1..Len(out) /\ Head(out) = out[1] /\ Len(Tail(out)) = Len(out) - 1
      BY <2>1, Front, Parts
    <3>2. 1 = Len(out)
      BY <1>4, <2>2, <3>1
    <3>3. Len(out) - 1 = 0
      BY <3>2
    <3>4. Len(out') = 0
      BY <2>1, <3>1, <3>3, Zenon
    <3> QED BY <1>8, <3>4, EmptySeq
  <2>4. halted' = {}
    BY <1>3, <2>1
  <2>5. Got = 512 => DataIsOwn'
    BY <1>1, <1>5, <2>2 DEF DataIsOwn
  <2>6. DataKept' /\ B!BackInStep'
    BY <1>1, <1>6, <2>2, <2>3, <2>4, <2>5 DEF DataKept, B!BackInStep, Sending, TakingStatus, B!Nothing, B!Item
  <2> QED BY <1>8, <1>10, <1>11, <2>6 DEF BotSafe, OtherStep
<1>13. CASE step' = "reset"
  <2>1. DataKept' /\ B!BackInStep'
    BY <1>1, <1>6, <1>13 DEF DataKept, B!BackInStep, Sending, TakingStatus, B!Nothing, B!Item
  <2> QED BY <1>8, <1>10, <1>11, <2>1 DEF BotSafe, OtherStep
<1>14. CASE B!InStall /\ step' = "clearInAgain"
  <2>1. out' = out \/ (out # <<>> /\ Head(out).kind = "stall")
    BY <1>14 DEF B!InStall, B!drive
  <2>2. Got' = 512 => DataIsOwn' \/ (out' # <<>> /\ Head(out').kind = "csw" /\ Head(out').tag # Tag')
    BY <1>1, <1>5, <2>1 DEF DataIsOwn
  <2>3. DataKept' /\ B!BackInStep'
    BY <1>1, <1>6, <1>14, <2>2 DEF DataKept, B!BackInStep, Sending, B!Nothing, B!Item
  <2> QED BY <1>8, <1>10, <1>11, <2>3 DEF BotSafe, OtherStep
<1> QED BY <1>12, <1>13, <1>14 DEF B!ReceiveCsw

LEMMA ClearHaltSafe ==
  ASSUME BotSafe, B!XhciClearHalt
  PROVE  BotSafe'
<1>1. /\ step \in {"clearOut", "clearIn", "clearInAgain"}
      /\ step' = (IF step = "clearOut" THEN "cbwAgain" ELSE IF step = "clearIn" THEN "csw" ELSE "cswAgain")
      /\ UNCHANGED <<B!caller, Tag, Data, Got, St, out>> /\ cmd' = cmd
      /\ clean' \in BOOLEAN /\ halted' \subseteq halted /\ op # "none"
  <2>1. step \in DOMAIN B!Cleared /\ step' = B!AfterClear[step] /\ UNCHANGED <<B!caller, Tag, Data, Got,
          St, out>>
        /\ (halted' = halted \ {B!Cleared[step]} \/ halted' = halted) /\ clean' \in BOOLEAN
    BY Parts DEF B!XhciClearHalt, B!Unless
  <2>2. DOMAIN B!Cleared = {"clearOut", "clearIn", "clearInAgain"}
    BY DEF B!Cleared
  <2>3. /\ B!AfterClear["clearOut"] = "cbwAgain" /\ B!AfterClear["clearIn"] = "csw"
        /\ B!AfterClear["clearInAgain"] = "cswAgain"
    BY DEF B!AfterClear
  <2>4. op # "none"
    BY <2>1, <2>2, Parts DEF BotTypes
  <2> QED BY <2>1, <2>2, <2>3, <2>4 DEF B!caller
<1>2. BotTypes /\ DataKept /\ OwnLast /\ InPairs(out)
  BY Parts
<1>3. BotTypes' /\ B!ReadIsOwn'
  BY <1>1, <1>2, BotFrame DEF BotTypes
<1>4. OwnLast'
  BY <1>1, <1>2 DEF OwnLast, Sending, Receiving, TakingStatus
<1>5. DataKept'
  <2>1. CASE step = "clearOut"
    BY <1>1, <1>2, <2>1 DEF DataKept, Sending, TakingStatus, B!Nothing, B!Item
  <2>2. CASE step = "clearIn"
    BY <1>1, <1>2, <2>2, NothingThere DEF DataKept, Sending, TakingStatus, BotTypes
  <2>3. CASE step = "clearInAgain"
    BY <1>1, <1>2, <2>3 DEF DataKept, Sending, TakingStatus, DataIsOwn, B!Nothing, B!Item
  <2> QED BY <1>1, <2>1, <2>2, <2>3
<1>6. B!BackInStep'
  BY <1>1 DEF B!BackInStep
<1> QED BY <1>1, <1>2, <1>3, <1>4, <1>5, <1>6 DEF BotSafe, OtherStep

LEMMA ResetSafe ==
  ASSUME BotSafe, B!ResetRecovery
  PROVE  BotSafe'
<1>1. /\ step = "reset" /\ step' = "returned" /\ St' = "lost" /\ UNCHANGED <<B!caller, Tag, Data, Got>>
          /\ cmd' = cmd
      /\ out' \in {out, <<>>} /\ halted' \subseteq halted /\ clean' \in BOOLEAN /\ op # "none"
  BY Parts DEF B!ResetRecovery, B!Return, B!Unless, BotTypes, B!caller
<1>2. BotTypes /\ DataKept /\ OwnLast /\ InPairs(out)
  BY Parts
<1>3. out' \in Seq(ItemSet) /\ Len(out') < 5 /\ InPairs(out') /\ \A i \in 1..Len(out') : out'[i].tag <= Tag
  <2>1. <<>> \in Seq(ItemSet) /\ Len(<<>>) = 0 /\ \A i \in 1..0 : FALSE
    OBVIOUS
  <2>2. InPairs(<<>>)
    BY <2>1 DEF InPairs
  <2>3. CASE out' = out
    BY <1>2, <2>3 DEF BotTypes, OwnLast
  <2>4. CASE out' = <<>>
    BY <2>1, <2>2, <2>4
  <2> QED BY <1>1, <2>3, <2>4
<1>4. BotTypes' /\ B!ReadIsOwn'
  BY <1>1, <1>2, <1>3, BotFrame DEF BotTypes
<1>5. OwnLast'
  BY <1>1, <1>3 DEF OwnLast, Sending, Receiving, TakingStatus
<1>6. DataKept' /\ B!BackInStep'
  BY <1>1, <1>2 DEF DataKept, B!BackInStep, Sending, TakingStatus, B!Nothing, B!Item
<1> QED BY <1>3, <1>4, <1>5, <1>6 DEF BotSafe, OtherStep

(* A new command has a tag that nothing in the drive has.                  *)
LEMMA NewCommand ==
  ASSUME BotSafe, NEW c \in {"read", "tur", "sense"}, B!StartBot(c), UNCHANGED <<St, B!drive>>,
         op' \in {"read", "ready"}, ops' \in 0..MaxOps, botRet' \in {0, 1}, clean' \in BOOLEAN,
         Attempt' \in Nat, Attempt' < B!Tries[op'],
         op' = "read" => c \in {"read", "sense"}, op' = "ready" => c \in {"tur", "sense"}
  PROVE  BotSafe'
<1>1. /\ Tag' = Tag + 1 /\ cmd' = c /\ step' = "cbw" /\ Got' = 0 /\ Data' = B!Nothing
      /\ UNCHANGED <<St, out, halted>>
  BY DEF B!StartBot, B!NextTag, B!drive
<1>2. BotTypes /\ OwnLast /\ InPairs(out)
  BY Parts
<1>3. B!Tries' = B!Tries
  BY DEF B!Tries
<1>4. BotTypes'
  BY <1>1, <1>2, <1>3, NothingThere DEF BotTypes
<1>5. OwnLast'
  <2>1. ASSUME NEW i \in 1..Len(out) PROVE out[i].tag <= Tag + 1 /\ out[i].tag < Tag + 1
    <3>1. out \in Seq(ItemSet) /\ out[i].tag <= Tag /\ Tag \in Nat
      BY <1>2 DEF OwnLast, BotTypes
    <3>2. out[i].tag \in Nat
      <4>1. out[i] \in ItemSet
        BY <3>1
      <4> QED BY <4>1 DEF ItemSet
    <3> QED BY <3>1, <3>2
  <2> QED BY <1>1, <2>1 DEF OwnLast, Receiving, TakingStatus
<1>6. DataKept' /\ B!BackInStep' /\ B!ReadIsOwn'
  BY <1>1 DEF DataKept, B!BackInStep, B!ReadIsOwn, Sending, TakingStatus, B!Nothing, B!Item
<1> QED BY <1>1, <1>2, <1>4, <1>5, <1>6 DEF BotSafe, OtherStep

LEMMA CallSafe ==
  ASSUME B!BotConstants, BotSafe, NEW o \in {"read", "ready"}, B!Call(o)
  PROVE  BotSafe'
<1>1. /\ op' = o /\ ops' = ops + 1 /\ Attempt' = 0 /\ ops < MaxOps /\ UNCHANGED <<botRet, St, B!drive>>
          /\ clean' = TRUE
      /\ B!StartBot(IF o = "read" THEN "read" ELSE "tur")
  BY DEF B!Call
<1>2. ops \in 0..MaxOps /\ MaxOps \in Nat /\ botRet \in {0, 1}
  BY Parts DEF BotTypes, B!BotConstants
<1>3. ops' \in 0..MaxOps /\ botRet' \in {0, 1}
  BY <1>1, <1>2
<1>4. Attempt' < B!Tries[op']
  BY <1>1 DEF B!Tries, B!BotConstants
<1> QED BY <1>1, <1>3, <1>4, NewCommand

LEMMA DoneSafe ==
  ASSUME BotSafe, NEW r \in {0, 1}, B!Done(r), UNCHANGED <<ops, St, B!drive, clean>>,
         r = 1 /\ cmd = "read" => DataIsOwn
  PROVE  BotSafe'
<1>1. /\ op' = "none" /\ step' = "idle" /\ botRet' = r
      /\ UNCHANGED <<cmd, Attempt, Tag, Data, Got, ops, St, out, halted, clean>>
  BY DEF B!Done, B!drive
<1>2. BotTypes /\ OwnLast /\ InPairs(out) /\ DataKept
  BY Parts
<1>3. BotTypes'
  BY <1>1, <1>2 DEF BotTypes
<1>4. OwnLast'
  BY <1>1, <1>2 DEF OwnLast, Sending, Receiving, TakingStatus
<1>5. DataKept' /\ B!BackInStep' /\ B!ReadIsOwn'
  BY <1>1, <1>2 DEF DataKept, B!BackInStep, B!ReadIsOwn, Sending, TakingStatus, DataIsOwn, B!Nothing, B!Item
<1> QED BY <1>1, <1>2, <1>3, <1>4, <1>5 DEF BotSafe, OtherStep

LEMMA AgainSafe ==
  ASSUME B!BotConstants, BotSafe, step = "returned", B!Again, UNCHANGED <<ops, St, B!drive, clean>>
  PROVE  BotSafe'
<1>1. BotTypes /\ op \in {"read", "ready"}
  BY Parts DEF BotTypes
<1>2. CASE Attempt + 1 = B!Tries[op]
  <2>1. B!Done(0)
    BY <1>2 DEF B!Again
  <2> QED BY <2>1, DoneSafe
<1>3. CASE Attempt + 1 # B!Tries[op]
  <2>1. /\ B!StartBot(IF op = "read" THEN "read" ELSE "tur")
        /\ Attempt' = Attempt + 1 /\ UNCHANGED <<op, botRet>>
    BY <1>3 DEF B!Again
  <2>2. /\ Attempt \in Nat /\ Attempt < B!Tries[op] /\ ops' \in 0..MaxOps /\ botRet' \in {0, 1}
            /\ clean' \in BOOLEAN
    BY <1>1, <2>1 DEF BotTypes
  <2>3. B!Tries[op] \in Nat
    BY <1>1 DEF B!Tries, B!BotConstants
  <2>4. Attempt' \in Nat /\ Attempt' < B!Tries[op']
    BY <1>3, <2>1, <2>2, <2>3
  <2> QED BY <1>1, <2>1, <2>2, <2>4, NewCommand
<1> QED BY <1>2, <1>3

LEMMA ReturnedSafe ==
  ASSUME B!BotConstants, BotSafe, B!Returned
  PROVE  BotSafe'
<1>1. step = "returned" /\ UNCHANGED <<ops, St, B!drive, clean>>
  BY DEF B!Returned
<1>2. BotTypes /\ op \in {"read", "ready"} /\ DataKept
  BY <1>1, Parts DEF BotTypes
<1>3. CASE B!Again
  BY <1>1, <1>3, AgainSafe
<1>4. CASE B!Done(0)
  BY <1>1, <1>4, DoneSafe
<1>5. CASE cmd # "sense" /\ B!Complete /\ B!Done(1)
  <2>1. cmd = "read" => DataIsOwn
    BY <1>1, <1>2, <1>5 DEF B!Complete, DataKept, B!Want
  <2> QED BY <1>1, <1>5, <2>1, DoneSafe
<1>6. CASE B!Sense
  <2>1. B!StartBot("sense") /\ UNCHANGED <<op, Attempt, botRet>>
    BY <1>6 DEF B!Sense
  <2>2. /\ Attempt' \in Nat /\ Attempt' < B!Tries[op'] /\ ops' \in 0..MaxOps /\ botRet' \in {0, 1}
            /\ clean' \in BOOLEAN
    BY <1>1, <1>2, <2>1 DEF BotTypes
  <2> QED BY <1>1, <1>2, <2>1, <2>2, NewCommand
<1>7. B!Again \/ B!Done(0) \/ (cmd # "sense" /\ B!Complete /\ B!Done(1)) \/ B!Sense
  BY <1>2 DEF B!Returned
<1> QED BY <1>3, <1>4, <1>5, <1>6, <1>7

------------------------------------------------------------------------------
(* A call during which nothing goes wrong. *)

Own512 == B!Item("data", Tag, 512, "none")

LEMMA ItemFacts ==
  /\ Passed.kind = "csw" /\ Passed.bytes = 13 /\ Passed.info = "passed" /\ Passed.tag = Tag
  /\ Own512.kind = "data" /\ Own512.bytes = 512 /\ Own512 # Passed
BY DEF Passed, Own512, B!Item

LEMMA Enough ==
  ASSUME B!BotConstants, ReadyTries > 1, op \in {"read", "ready"}
  PROVE  B!Tries[op] # 0 + 1
BY DEF B!Tries, B!BotConstants

(* The end of what the drive sends stays there.                            *)
LEMMA LastStays ==
  ASSUME out \in Seq(ItemSet), out # <<>>, Len(out) > 1
  PROVE  /\ Tail(out) # <<>> /\ Len(Tail(out)) = Len(out) - 1 /\ Len(out) \in Nat /\ Head(out) = out[1]
         /\ Tail(out)[Len(Tail(out))] = out[Len(out)]
         /\ Len(out) > 2 => Tail(out)[Len(Tail(out)) - 1] = out[Len(out) - 1]
<1> DEFINE t == Tail(out)
<1>1. /\ 1 \in 1..Len(out) /\ Head(out) = out[1] /\ t \in Seq(ItemSet) /\ Len(t) = Len(out) - 1
      /\ Len(out) \in Nat
      /\ \A i \in 1..Len(t) : i + 1 \in 1..Len(out) /\ t[i] = out[i + 1]
  BY Front
<1> HIDE DEF t
<1>2. t # <<>>
  <2>1. Len(t) # 0
    BY <1>1
  <2> QED BY <2>1
<1>3. t[Len(t)] = out[Len(out)]
  <2>1. Len(t) \in 1..Len(t) /\ Len(t) + 1 = Len(out)
    BY <1>1
  <2> QED BY <1>1, <2>1
<1>4. ASSUME Len(out) > 2 PROVE t[Len(t) - 1] = out[Len(out) - 1]
  <2>1. Len(t) - 1 \in 1..Len(t) /\ Len(t) - 1 + 1 = Len(out) - 1
    BY <1>1, <1>4
  <2> QED BY <1>1, <2>1
<1> QED BY <1>1, <1>2, <1>3, <1>4 DEF t

LEMMA SendCbwClean ==
  ASSUME BotSafe, GoesRight, B!SendCbw, op' # "none", clean'
  PROVE  GoesRight'
<1>1. /\ step \in {"cbw", "cbwAgain"} /\ UNCHANGED <<B!caller, Tag, Data, Got, St>>
      /\ Sending /\ op # "none" /\ Got = 0
  <2>1. step \in {"cbw", "cbwAgain"} /\ UNCHANGED <<B!caller, Tag, Data, Got, St>>
    BY DEF B!SendCbw
  <2>2. Sending
    BY <2>1 DEF Sending
  <2> QED BY <2>1, <2>2, Parts, NothingThere DEF DataKept, BotTypes
<1>2. UNCHANGED <<op, ops, cmd, Attempt, botRet>>
  BY <1>1 DEF B!caller
<1>3. out \in Seq(ItemSet) /\ halted \subseteq {"in", "out"} /\ cmd \in {"read", "tur", "sense"}
  BY Parts
<1>4. CASE B!CbwOk /\ step' = IF B!Want[cmd] = 0 THEN "csw" ELSE "data"
  <2>1. clean /\ (cmd # "sense" => out' = out \o GoodReply) /\ halted' = halted
    BY <1>1, <1>4, Accepted, Parts DEF B!CbwOk
  <2>2. cmd # "sense" /\ (Attempt = 0 \/ Straight)
    BY <1>1, <2>1 DEF GoesRight
  <2>3. step' = (IF cmd = "tur" THEN "csw" ELSE "data") /\ cmd \in {"read", "tur"}
    BY <1>3, <1>4, <2>2 DEF B!Want
  <2> DEFINE r == GoodReply
  <2>4. r \in Seq(ItemSet) /\ r = IF cmd = "read" THEN <<Own512, Passed>> ELSE <<Passed>>
    <3>1. Own512 \in ItemSet /\ Passed \in ItemSet
      BY Parts DEF Own512, Passed, B!Item, ItemSet
    <3>2. r = IF cmd = "read" THEN <<Own512, Passed>> ELSE <<Passed>>
      BY DEF GoodReply, Own512
    <3> QED BY <3>1, <3>2
  <2>5. /\ Len(r) = (IF cmd = "read" THEN 2 ELSE 1) /\ r[Len(r)] = Passed
        /\ cmd = "read" => r[1] = Own512
    BY <2>4
  <2> HIDE DEF r
  <2>6. /\ out' \in Seq(ItemSet) /\ Len(out') = Len(out) + Len(r) /\ Len(out) \in Nat
        /\ out'[Len(out) + Len(r)] = r[Len(r)] /\ out'[Len(out) + 1] = r[1]
    <3>1. out' = out \o r
      BY <2>1, <2>2 DEF r
    <3>2. 1 \in 1..Len(r) /\ Len(r) \in 1..Len(r)
      BY <2>5
    <3> QED BY <1>3, <2>4, <3>1, <3>2, Behind
  <2>7. out' # <<>> /\ out'[Len(out')] = Passed
    <3>1. Len(out') # 0
      BY <2>5, <2>6
    <3> QED BY <2>5, <2>6, <3>1
  <2>8. cmd = "read" => Len(out') > 1 /\ out'[Len(out') - 1] = Own512
    <3> SUFFICES ASSUME cmd = "read" PROVE Len(out') > 1 /\ out'[Len(out') - 1] = Own512
      OBVIOUS
    <3>1. Len(out') - 1 = Len(out) + 1 /\ Len(out') > 1
      BY <2>5, <2>6
    <3> QED BY <2>5, <2>6, <3>1
  <2>9. Coming'
    BY <1>1, <1>2, <2>7, <2>8 DEF Coming, Passed, Own512
  <2>10. ASSUME Straight PROVE Straight'
    <3>1. out = <<>> /\ halted = {}
      BY <1>1, <2>10 DEF Straight
    <3>2. out' = r
      <4>1. out' = <<>> \o r
        BY <2>1, <2>2, <3>1 DEF r
      <4> QED BY <2>4, <4>1
    <3>3. cmd = "tur" => B!Want'[cmd'] = 0
      BY <1>2 DEF B!Want
    <3> QED BY <1>1, <1>2, <2>1, <2>3, <2>4, <3>1, <3>2, <3>3 DEF Straight, Own512, Passed
  <2> QED BY <1>2, <2>2, <2>3, <2>9, <2>10 DEF GoesRight
<1>5. CASE step' \in {"clearOut", "reset"} /\ clean /\ ~Straight
  <2>1. cmd # "sense" /\ Attempt = 0
    BY <1>1, <1>5 DEF GoesRight
  <2> QED BY <1>2, <1>5, <2>1 DEF GoesRight, Receiving, TakingStatus
<1>6. CASE B!CbwStall /\ step' = IF step = "cbw" THEN "clearOut" ELSE "reset"
  <2>1. clean /\ (out # <<>> \/ "out" \in halted)
    BY <1>6 DEF B!CbwStall, B!Refuses, B!Unless, B!OutOfStep
  <2>2. ~Straight
    BY <1>1, <2>1 DEF Straight
  <2> QED BY <1>5, <1>6, <2>1, <2>2
<1>7. CASE B!CbwFail /\ step' = "reset"
  <2>1. ~B!Accepts(TRUE)
    BY <1>1, Accepted, Parts
  <2>2. clean /\ (out # <<>> \/ "out" \in halted)
    BY <1>7, <2>1 DEF B!CbwFail, B!Refuses, B!Unless, B!OutOfStep
  <2>3. ~Straight
    BY <1>1, <2>2 DEF Straight
  <2> QED BY <1>5, <1>7, <2>2, <2>3
<1> QED BY <1>4, <1>6, <1>7 DEF B!SendCbw

LEMMA ReceiveDataClean ==
  ASSUME BotSafe, GoesRight, B!ReceiveData, op' # "none", clean'
  PROVE  GoesRight'
<1>1. /\ step = "data" /\ UNCHANGED <<B!caller, Tag, St>> /\ UNCHANGED <<op, ops, cmd, Attempt, botRet>>
      /\ Receiving /\ op # "none" /\ cmd # "tur"
  <2>1. step = "data" /\ UNCHANGED <<B!caller, Tag, St>>
    BY DEF B!ReceiveData
  <2> QED BY <2>1, Parts DEF BotTypes, Receiving, B!caller
<1>2. clean
  BY DEF B!ReceiveData, B!InOk, B!InStall, B!InFail, B!Unless
<1>3. cmd = "read" /\ (Attempt = 0 \/ Straight) /\ Coming
  BY <1>1, <1>2, Parts DEF GoesRight
<1>4. /\ out \in Seq(ItemSet) /\ out # <<>> /\ Len(out) > 1
      /\ out[Len(out)] = Passed /\ out[Len(out) - 1] = Own512
  BY <1>1, <1>3, Parts DEF Coming, Own512
<1>5. /\ Tail(out) # <<>> /\ Len(Tail(out)) = Len(out) - 1 /\ Len(out) \in Nat /\ Head(out) = out[1]
      /\ Tail(out)[Len(Tail(out))] = out[Len(out)]
      /\ Len(out) > 2 => Tail(out)[Len(Tail(out)) - 1] = out[Len(out) - 1]
  BY <1>4, LastStays
<1>6. Head(out).bytes # 512 => Len(out) > 2
  <2>1. Len(out) = 2 => Head(out) = Own512
    BY <1>4, <1>5
  <2> QED BY <1>4, <1>5, <2>1, ItemFacts
<1>7. Straight => halted = {} /\ Head(out) = Own512 /\ Tail(out) = <<Passed>>
  <2> SUFFICES ASSUME Straight PROVE halted = {} /\ Head(out) = Own512 /\ Tail(out) = <<Passed>>
    OBVIOUS
  <2>1. halted = {} /\ out = <<Own512, Passed>>
    BY <1>1 DEF Straight, Own512
  <2> QED BY <2>1
<1>8. CASE B!InOk(B!Want[cmd]) /\ Data' = Head(out) /\ Got' = Head(out).bytes /\ step' = "csw"
  <2>1. out' = Tail(out) /\ halted' = halted
    BY <1>8 DEF B!InOk
  <2>2. Got' # 512 => Len(out') > 1 /\ out'[Len(out') - 1] = Own512
    BY <1>4, <1>5, <1>6, <1>8, <2>1
  <2>3. Coming'
    BY <1>1, <1>4, <1>5, <1>8, <2>1, <2>2 DEF Coming, Passed, Own512
  <2>4. Straight => Straight'
    <3>1. B!Want'[cmd'] = 512
      BY <1>1, <1>3 DEF B!Want
    <3> QED BY <1>1, <1>7, <1>8, <2>1, <3>1, ItemFacts DEF Straight, Passed
  <2> QED BY <1>1, <1>3, <1>8, <2>3, <2>4 DEF GoesRight
<1>9. CASE B!InStall /\ step' = "clearIn" /\ UNCHANGED <<Data, Got>>
  <2>1. out' = out \/ (Head(out).kind = "stall" /\ out' = Tail(out))
    BY <1>9 DEF B!InStall, B!drive
  <2>2. ~Straight
    BY <1>7, <1>9, ItemFacts DEF B!InStall
  <2>3. Coming'
    <3>1. CASE out' = out
      BY <1>1, <1>4, <3>1 DEF Coming, Passed, Own512
    <3>2. CASE Head(out).kind = "stall" /\ out' = Tail(out)
      <4>1. Len(out) > 2
        <5>1. Len(out) = 2 => Head(out) = Own512
          BY <1>4, <1>5
        <5> QED BY <1>4, <1>5, <3>2, <5>1, ItemFacts
      <4>2. Len(out') > 1 /\ out'[Len(out') - 1] = Own512
        BY <1>4, <1>5, <3>2, <4>1
      <4> QED BY <1>1, <1>4, <1>5, <3>2, <4>2 DEF Coming, Passed, Own512
    <3> QED BY <2>1, <3>1, <3>2
  <2> QED BY <1>1, <1>3, <1>9, <2>2, <2>3 DEF GoesRight
<1>10. CASE B!InFail(B!Want[cmd])
  <2>1. B!Want[cmd] = 512
    BY <1>3 DEF B!Want
  <2>2. ~(Head(out).bytes <= 512)
    BY <1>4, <1>10, <2>1 DEF B!InFail, B!Unless
  <2>3. Head(out) \in ItemSet
    BY <1>4
  <2> QED BY <2>2, <2>3 DEF ItemSet
<1> QED BY <1>8, <1>9, <1>10 DEF B!ReceiveData

LEMMA ReceiveCswClean ==
  ASSUME BotSafe, BotSafe', GoesRight, B!ReceiveCsw, op' # "none", clean'
  PROVE  GoesRight'
<1>1. /\ step \in {"csw", "cswAgain"} /\ UNCHANGED <<B!caller, Tag, Data, Got>> /\ UNCHANGED <<op, ops,
          cmd, Attempt, botRet>>
      /\ TakingStatus /\ Receiving /\ op # "none"
  <2>1. step \in {"csw", "cswAgain"} /\ UNCHANGED <<B!caller, Tag, Data, Got>>
    BY DEF B!ReceiveCsw
  <2> QED BY <2>1, Parts DEF BotTypes, TakingStatus, Receiving, B!caller
<1>2. clean
  BY DEF B!ReceiveCsw, B!InOk, B!InStall, B!InFail, B!Unless
<1>3. cmd \in {"read", "tur"} /\ (Attempt = 0 \/ Straight) /\ Coming
  BY <1>1, <1>2, Parts DEF GoesRight
<1>4. /\ out \in Seq(ItemSet) /\ out # <<>> /\ out[Len(out)] = Passed
      /\ cmd = "read" /\ Got # 512 => Len(out) > 1 /\ out[Len(out) - 1] = Own512
      /\ Len(out) \in Nat /\ 1 \in 1..Len(out) /\ Head(out) = out[1]
  BY <1>1, <1>3, Parts, Front DEF Coming, Own512
<1>5. Straight => halted = {} /\ Head(out) = Passed /\ step = "csw"
  <2> SUFFICES ASSUME Straight PROVE halted = {} /\ Head(out) = Passed /\ step = "csw"
    OBVIOUS
  <2>1. halted = {} /\ out = <<Passed>> /\ step = "csw"
    BY <1>1 DEF Straight
  <2> QED BY <2>1
<1>6. cmd = "tur" => Got = 0
  BY Parts, NothingThere DEF DataKept
<1>7. B!Want[cmd] = (IF cmd = "read" THEN 512 ELSE 0) /\ B!Want' = B!Want
  BY <1>3 DEF B!Want
<1>8. CASE B!InOk(13) /\ B!OwnCsw(Head(out)) /\ B!Return("ok")
  <2>1. Len(out) = 1
    BY <1>1, <1>4, <1>8, Parts DEF OwnLast, B!OwnCsw
  <2>2. Got = B!Want[cmd]
    BY <1>3, <1>4, <1>6, <1>7, <2>1
  <2>3. step' = "returned" /\ St' = "ok"
    BY <1>8 DEF B!Return
  <2>4. out' = <<>> /\ halted' = {}
    BY <2>3 DEF BotSafe, OtherStep, B!BackInStep
  <2>5. Got' = B!Want'[cmd']
    BY <1>1, <1>7, <2>2
  <2>6. Straight'
    BY <2>3, <2>4, <2>5 DEF Straight
  <2> QED BY <1>1, <1>3, <2>3, <2>4, <2>5, <2>6 DEF GoesRight, Receiving, TakingStatus
<1>9. CASE B!InOk(13) /\ B!OwnCsw(Head(out)) /\ Head(out).info = "failed"
  <2>1. Len(out) = 1
    BY <1>1, <1>4, <1>9, Parts DEF OwnLast, B!OwnCsw
  <2> QED BY <1>4, <1>9, <2>1, ItemFacts
<1>10. CASE step' = "reset" /\ ~Straight
  BY <1>1, <1>3, <1>10 DEF GoesRight, Receiving, TakingStatus
<1>11. CASE B!InOk(13) /\ ~(B!OwnCsw(Head(out)) /\ Head(out).info = "passed") /\ step' = "reset"
  <2>1. B!OwnCsw(Passed) /\ Passed.info = "passed"
    BY ItemFacts DEF B!OwnCsw
  <2>2. ~Straight
    BY <1>5, <1>11, <2>1
  <2> QED BY <1>10, <1>11, <2>2
<1>12. CASE B!InFail(13) /\ step' = "reset"
  <2>1. ~(Head(out).bytes <= 13)
    BY <1>4, <1>12 DEF B!InFail, B!Unless
  <2>2. ~Straight
    BY <1>5, <2>1, ItemFacts
  <2> QED BY <1>10, <1>12, <2>2
<1>13. CASE B!InStall /\ step' = (IF step = "csw" THEN "clearInAgain" ELSE "reset")
  <2>1. ~Straight
    BY <1>5, <1>13, ItemFacts DEF B!InStall
  <2>2. out' = out \/ (Head(out).kind = "stall" /\ out' = Tail(out))
    BY <1>13 DEF B!InStall, B!drive
  <2>3. Coming'
    <3>0. step' \notin {"data", "clearIn"}
      BY <1>13
    <3>1. CASE out' = out
      BY <1>1, <1>4, <3>0, <3>1 DEF Coming, Passed, Own512
    <3>2. CASE Head(out).kind = "stall" /\ out' = Tail(out)
      <4>1. Len(out) > 1
        <5>1. Len(out) # 1
          BY <1>4, <3>2, ItemFacts
        <5>2. \A n \in Nat : 1 \in 1..n /\ n # 1 => n > 1
          OBVIOUS
        <5> QED BY <1>4, <5>1, <5>2
      <4>2. /\ Tail(out) # <<>> /\ Len(Tail(out)) = Len(out) - 1
            /\ Tail(out)[Len(Tail(out))] = out[Len(out)]
            /\ Len(out) > 2 => Tail(out)[Len(Tail(out)) - 1] = out[Len(out) - 1]
        BY <1>4, <4>1, LastStays
      <4>3. cmd = "read" /\ Got # 512 => Len(out) > 2
        <5>1. cmd = "read" /\ Got # 512 /\ Len(out) = 2 => Head(out) = Own512
          BY <1>4
        <5> QED BY <1>4, <3>2, <4>1, <5>1, ItemFacts
      <4>4. cmd = "read" /\ Got # 512 => Len(out') > 1 /\ out'[Len(out') - 1] = Own512
        BY <1>4, <3>2, <4>2, <4>3
      <4> QED BY <1>1, <1>4, <3>0, <3>2, <4>2, <4>4 DEF Coming, Passed, Own512
    <3> QED BY <2>2, <3>1, <3>2
  <2> QED BY <1>1, <1>3, <1>13, <2>1, <2>3 DEF GoesRight, Receiving, TakingStatus
<1> QED BY <1>8, <1>9, <1>11, <1>12, <1>13 DEF B!ReceiveCsw, B!Return

LEMMA ClearHaltClean ==
  ASSUME BotSafe, GoesRight, B!XhciClearHalt, clean'
  PROVE  GoesRight'
<1>1. /\ step \in {"clearOut", "clearIn", "clearInAgain"}
      /\ step' = (IF step = "clearOut" THEN "cbwAgain" ELSE IF step = "clearIn" THEN "csw" ELSE "cswAgain")
      /\ UNCHANGED <<B!caller, Tag, Data, Got, St, out>> /\ clean /\ op # "none"
  <2>1. step \in DOMAIN B!Cleared /\ step' = B!AfterClear[step] /\ UNCHANGED <<B!caller, Tag, Data, Got,
          St, out>> /\ clean
    BY DEF B!XhciClearHalt, B!Unless
  <2>2. DOMAIN B!Cleared = {"clearOut", "clearIn", "clearInAgain"}
    BY DEF B!Cleared
  <2>3. /\ B!AfterClear["clearOut"] = "cbwAgain" /\ B!AfterClear["clearIn"] = "csw"
        /\ B!AfterClear["clearInAgain"] = "cswAgain"
    BY DEF B!AfterClear
  <2> QED BY <2>1, <2>2, <2>3, Parts DEF BotTypes
<1>2. UNCHANGED <<op, ops, cmd, Attempt, botRet>>
  BY <1>1 DEF B!caller
<1>3. cmd # "sense" /\ Attempt = 0 /\ (Receiving => Coming)
  BY <1>1 DEF GoesRight, Straight
<1>4. Receiving' => Coming'
  <2>1. CASE step = "clearOut"
    BY <1>1, <2>1 DEF Receiving, TakingStatus
  <2>2. CASE step # "clearOut"
    <3>1. Receiving /\ Coming
      BY <1>1, <1>3, <2>2 DEF Receiving, TakingStatus
    <3>2. step = "csw" => FALSE
      BY <1>1
    <3>3. step' \in {"csw", "cswAgain"}
      BY <1>1, <2>2
    <3> QED BY <1>1, <1>2, <3>1, <3>3 DEF Coming, Passed
  <2> QED BY <2>1, <2>2
<1> QED BY <1>1, <1>2, <1>3, <1>4 DEF GoesRight

LEMMA ResetClean ==
  ASSUME BotSafe, GoesRight, B!ResetRecovery, clean'
  PROVE  GoesRight'
<1>1. /\ step = "reset" /\ step' = "returned" /\ St' = "lost" /\ UNCHANGED <<B!caller, Tag, Data, Got>>
      /\ out' = <<>> /\ halted' = {} /\ clean /\ op # "none"
  <2>1. PICK lost \in SUBSET {"reset", "in", "out"} :
          /\ B!Unless(lost # {})
          /\ out' = IF "reset" \in lost THEN out ELSE <<>>
          /\ halted' = halted \cap lost
    BY DEF B!ResetRecovery
  <2>2. lost = {} /\ clean
    BY <2>1 DEF B!Unless
  <2> QED BY <2>1, <2>2, Parts DEF B!ResetRecovery, B!Return, BotTypes
<1>2. UNCHANGED <<op, ops, cmd, Attempt, botRet>>
  BY <1>1 DEF B!caller
<1>3. cmd # "sense" /\ Attempt = 0
  BY <1>1 DEF GoesRight, Straight
<1> QED BY <1>1, <1>2, <1>3 DEF GoesRight, Receiving, TakingStatus

LEMMA CallClean ==
  ASSUME NEW o \in {"read", "ready"}, B!Call(o)
  PROVE  GoesRight' /\ B!CleanCallSucceeds'
<1>1. op' = o /\ Attempt' = 0 /\ B!StartBot(IF o = "read" THEN "read" ELSE "tur")
  BY DEF B!Call
<1>2. step' = "cbw" /\ cmd' # "sense"
  BY <1>1 DEF B!StartBot
<1> QED BY <1>1, <1>2 DEF GoesRight, B!CleanCallSucceeds, Receiving, TakingStatus

LEMMA ReturnedClean ==
  ASSUME B!BotConstants, ReadyTries > 1, BotSafe, GoesRight, B!Returned
  PROVE  GoesRight' /\ B!CleanCallSucceeds'
<1>1. step = "returned" /\ UNCHANGED <<ops, St, out, halted, clean>> /\ op \in {"read", "ready"}
  BY Parts DEF B!Returned, B!drive, BotTypes
<1>2. SUFFICES ASSUME clean PROVE GoesRight' /\ B!CleanCallSucceeds'
  BY <1>1 DEF GoesRight, B!CleanCallSucceeds
<1>3. /\ cmd # "sense" /\ (Attempt = 0 \/ Straight) /\ out = <<>> /\ halted = {}
      /\ St = "lost" \/ (St = "ok" /\ Got = B!Want[cmd])
  BY <1>1, <1>2 DEF GoesRight
<1>4. IF B!Complete THEN B!Done(1) ELSE IF St = "failed" THEN B!Sense ELSE B!Again
  BY <1>3 DEF B!Returned
<1>5. CASE St = "ok" /\ Got = B!Want[cmd]
  <2>1. B!Done(1)
    BY <1>4, <1>5 DEF B!Complete
  <2> QED BY <2>1 DEF B!Done, GoesRight, B!CleanCallSucceeds
<1>6. CASE St = "lost"
  <2>1. B!Again /\ Attempt = 0
    BY <1>1, <1>3, <1>4, <1>6 DEF B!Complete, Straight
  <2>2. Attempt + 1 # B!Tries[op]
    <3>1. B!Tries[op] # 0 + 1
      BY <1>1, Enough
    <3> QED BY <2>1, <3>1
  <2>3. B!StartBot(IF op = "read" THEN "read" ELSE "tur") /\ UNCHANGED op
    BY <2>1, <2>2 DEF B!Again
  <2>4. step' = "cbw" /\ cmd' # "sense"
    BY <2>3 DEF B!StartBot
  <2>5. Straight'
    BY <1>1, <1>3, <2>4 DEF Straight
  <2> QED BY <1>1, <2>3, <2>4, <2>5 DEF GoesRight, B!CleanCallSucceeds, Receiving, TakingStatus
<1> QED BY <1>3, <1>5, <1>6

------------------------------------------------------------------------------
(* Every step. *)

LEMMA BotStarts ==
  ASSUME B!BotConstants, B!Init
  PROVE  BotSafe /\ BotClean
<1>1. /\ op = "none" /\ ops = 0 /\ cmd = "read" /\ Attempt = 0 /\ botRet = 0
      /\ step = "idle" /\ Tag = 0 /\ Data = B!Nothing /\ Got = 0 /\ St = "ok"
      /\ out = <<>> /\ halted = {} /\ clean = TRUE
  BY DEF B!Init
<1>2. BotTypes
  BY <1>1, NothingThere DEF BotTypes, B!BotConstants
<1>3. InPairs(out) /\ OwnLast
  <2>1. 1..Len(out) = {}
    BY <1>1
  <2> QED BY <1>1, <2>1 DEF InPairs, OwnLast, Receiving, TakingStatus
<1>4. DataKept /\ B!BackInStep /\ B!ReadIsOwn
  BY <1>1 DEF DataKept, B!BackInStep, B!ReadIsOwn, Sending, TakingStatus
<1>5. GoesRight /\ B!CleanCallSucceeds
  BY <1>1 DEF GoesRight, B!CleanCallSucceeds
<1> QED BY <1>2, <1>3, <1>4, <1>5 DEF BotSafe, OtherStep, BotClean

LEMMA BotRests ==
  ASSUME BotSafe /\ BotClean, UNCHANGED B!vars
  PROVE  BotSafe' /\ BotClean'
<1>1. UNCHANGED <<op, ops, cmd, Attempt, botRet, step, Tag, Data, Got, St, out, halted, clean>>
  BY DEF B!vars, B!caller, B!drive
<1>2. BotTypes'
  BY <1>1, Parts DEF BotTypes, B!Tries
<1>3. InPairs(out') /\ OwnLast'
  BY <1>1, Parts DEF OwnLast, Sending, Receiving, TakingStatus
<1>4. DataKept' /\ B!BackInStep' /\ B!ReadIsOwn'
  BY <1>1, Parts DEF DataKept, B!BackInStep, B!ReadIsOwn, Sending, TakingStatus, DataIsOwn
<1>5. B!CleanCallSucceeds => B!CleanCallSucceeds'
  BY <1>1 DEF B!CleanCallSucceeds
<1>6. Coming => Coming'
  BY <1>1 DEF Coming, Passed
<1>7. Straight => Straight'
  BY <1>1 DEF Straight, Passed, B!Want
<1>8. GoesRight => GoesRight'
  <2>1. Receiving' = Receiving
    BY <1>1 DEF Receiving, TakingStatus
  <2>2. B!Want'[cmd'] = B!Want[cmd]
    BY <1>1 DEF B!Want
  <2> QED BY <1>1, <1>6, <1>7, <2>1, <2>2 DEF GoesRight
<1> QED BY <1>2, <1>3, <1>4, <1>5, <1>8 DEF BotSafe, OtherStep, BotClean

LEMMA BotSteps ==
  ASSUME B!BotConstants, BotSafe /\ BotClean, [B!Next]_(B!vars)
  PROVE  BotSafe' /\ BotClean'
<1>1. CASE \E o \in {"read", "ready"} : B!Call(o)
  BY <1>1, CallSafe, CallClean DEF BotClean
<1>2. CASE B!Returned
  BY <1>2, ReturnedSafe, ReturnedClean DEF BotClean
<1>3. ASSUME BotSafe', op # "none", UNCHANGED op, (GoesRight /\ clean' => GoesRight')
      PROVE  BotClean'
  BY <1>3 DEF BotClean, GoesRight, B!CleanCallSucceeds
<1>4. ASSUME B!SendCbw \/ B!ReceiveData \/ B!ReceiveCsw \/ B!XhciClearHalt \/ B!ResetRecovery
      PROVE  op # "none" /\ UNCHANGED op
  <2>1. step # "idle" /\ UNCHANGED op
    BY <1>4 DEF B!SendCbw, B!ReceiveData, B!ReceiveCsw, B!XhciClearHalt, B!ResetRecovery, B!caller, B!Cleared
  <2> QED BY <2>1, Parts DEF BotTypes
<1>5. CASE B!SendCbw
  BY <1>3, <1>4, <1>5, SendCbwSafe, SendCbwClean
<1>6. CASE B!ReceiveData
  BY <1>3, <1>4, <1>6, ReceiveDataSafe, ReceiveDataClean
<1>7. CASE B!ReceiveCsw
  BY <1>3, <1>4, <1>7, ReceiveCswSafe, ReceiveCswClean
<1>8. CASE B!XhciClearHalt
  BY <1>3, <1>4, <1>8, ClearHaltSafe, ClearHaltClean
<1>9. CASE B!ResetRecovery
  BY <1>3, <1>4, <1>9, ResetSafe, ResetClean
<1>10. CASE UNCHANGED B!vars
  BY <1>10, BotRests
<1> QED BY <1>1, <1>2, <1>5, <1>6, <1>7, <1>8, <1>9, <1>10 DEF B!Next, B!Work

LEMMA BotMeans ==
  ASSUME B!BotConstants, BotSafe
  PROVE  B!TypeOK /\ B!BackInStep /\ B!ReadIsOwn
<1>1. DOMAIN B!Want = {"read", "tur", "sense"} /\ DOMAIN B!Cleared = {"clearOut", "clearIn", "clearInAgain"}
  BY DEF B!Want, B!Cleared
<1>2. B!TypeOK
  BY <1>1, Parts DEF B!TypeOK, BotTypes
<1> QED BY <1>2, Parts

------------------------------------------------------------------------------
(* The devices. *)

(* Endpoints that some configuration describes, and what a device may own. *)
Parses == {E!ParseConfig(<<>>)} \cup {E!ParseConfig(g.config) : g \in Gadgets}
Endpoints == {E!NoEndpoint} \cup {s.BulkIn : s \in Parses} \cup {s.BulkOut : s \in Parses}
Pages == E!Contexts \cup {ep.addr : ep \in Endpoints}
Speeds == {"low", "full", "high", "super"}

DeviceSet ==
  [Used : BOOLEAN, Port : Ports \cup {0}, Slot : 0..MaxSlots, Speed : Speeds, owns : SUBSET Pages,
   Ep0Mps : Nat, HubSeen : BOOLEAN, IsMass : BOOLEAN, BulkIn : Endpoints, BulkOut : Endpoints]
SlotSet == [enabled : BOOLEAN, device : 0..USB_MAX_DEVICES, ep0 : Nat, bulk : SUBSET Endpoints]
CommandSet ==
  [kind : {"enable", "address", "evaluate", "configure", "disable"}, slot : 0..MaxSlots,
   device : E!Table, port : Ports, mps : Nat, bulk : SUBSET Endpoints]

(* The steps in which the device at hand has a slot; those in which it has *)
(* its contexts and its ring too.                                          *)
WithContexts ==
  {"address", "descriptor8", "evaluate", "descriptor18", "config9", "config", "rings", "configure", "set"}
WithSlot == WithContexts \cup {"memory"}

DriverTypes ==
  /\ Devices \in [E!Table -> DeviceSet] /\ D \in 0..USB_MAX_DEVICES
  /\ enumPc \in WithSlot \cup {"idle", "enable", "release"}
  /\ Dcbaa \in [1..MaxSlots -> 0..USB_MAX_DEVICES]
  /\ NewMps \in Nat /\ calls \in 0..MaxCalls /\ faults \in 0..MaxFaults
  /\ enumPc # "idle" => D \in E!Table /\ Devices[D].Used
  /\ \A i \in E!Table : Devices[i].Used => Devices[i].Port \in Ports

ScratchTypes ==
  /\ Scratch.kind = "device" => Scratch.mps \in Nat /\ Scratch.hub \in BOOLEAN
  /\ Scratch.kind = "config" => \E g \in Gadgets : Scratch.config = g.config

BoardTypes ==
  /\ enumSlots \in [1..MaxSlots -> SlotSet] /\ late \in Seq(CommandSet)
  /\ gadget \in [Ports -> Gadgets] /\ configured \subseteq Ports /\ gaveUp \in BOOLEAN

EnumTypes == DriverTypes /\ ScratchTypes /\ BoardTypes

(* What a device needs is held for it.                                     *)
HasSlot == enumPc \in WithSlot => Devices[D].Slot \in 1..MaxSlots /\ late = <<>>

OwnSlots ==
  \A i \in E!Table : Devices[i].Used /\ (i = D => enumPc # "enable") =>
    /\ Devices[i].Slot \in 1..MaxSlots /\ enumSlots[Devices[i].Slot].enabled
    /\ \A j \in E!Table : Devices[j].Used /\ Devices[j].Slot = Devices[i].Slot => i = j

NoSlotYet == enumPc = "enable" => Devices[D].Slot = 0

MemoryReady ==
  /\ enumPc \in {"memory", "address"} => enumSlots[Devices[D].Slot].device = 0
      /\ enumSlots[Devices[D].Slot].bulk = {}
  /\ enumPc \in {"descriptor8", "evaluate"} => enumSlots[Devices[D].Slot].device # 0
  /\ enumPc \in WithContexts => Dcbaa[Devices[D].Slot] = D /\ E!Contexts \subseteq Devices[D].owns
  /\ enumPc = "configure" => {Devices[D].BulkIn.addr, Devices[D].BulkOut.addr} \subseteq Devices[D].owns

HeldFor(s, i) ==
  /\ Devices[i].Used /\ Devices[i].Slot = s
  /\ enumSlots[s].device # 0 =>
       /\ enumSlots[s].device = i /\ Dcbaa[s] = i
       /\ E!Contexts \cup {ep.addr : ep \in enumSlots[s].bulk} \subseteq Devices[i].owns

SlotsHeld == \A s \in 1..MaxSlots : enumSlots[s].enabled => \E i \in E!Table : HeldFor(s, i)

Holds == ~gaveUp => late = <<>> /\ OwnSlots /\ MemoryReady /\ SlotsHeld

(* What the controller is told of packet sizes.                            *)
SizeKnown ==
  LET g == gadget[Devices[D].Port]
      told == enumSlots[Devices[D].Slot].ep0
  IN  /\ enumPc \in WithSlot \cup {"enable"} => Devices[D].Speed = g.speed
      /\ enumPc = "address" => Devices[D].Ep0Mps = E!FirstMps(g.speed)
      /\ enumPc = "descriptor8" => told = E!FirstMps(g.speed)
      /\ enumPc = "evaluate" /\ ~g.short => NewMps = g.mps0
      /\ enumPc \in {"descriptor18", "config9", "config", "rings", "configure", "set"} /\ ~g.short
          => told = g.mps0

SuperIsFixed == \A g \in Gadgets : g.speed = "super" => g.mps0 = 512

DeviceInv == EnumTypes /\ HasSlot /\ NoSlotYet /\ Holds /\ (SuperIsFixed => SizeKnown)

------------------------------------------------------------------------------
(* Numbers, and the records the model is built from.                       *)
LEMMA Smallest ==
  ASSUME NEW T, T \subseteq Nat, T # {}
  PROVE  \E x \in T : \A y \in T : x <= y
<1>1. IsWellFoundedOn(OpToRel(<, Nat), Nat)
  BY ZenonT(40), NatLessThanWellFounded
<1>2. PICK x \in T : \A y \in T : ~(<<y, x>> \in OpToRel(<, Nat))
  BY ZenonT(40), <1>1, WFMin
<1>3. \A y \in T : ~(y < x)
  BY ZenonT(40), <1>2 DEF OpToRel
<1> QED BY <1>3

LEMMA SlotFound ==
  ASSUME E!EnumerateConstants
  PROVE  /\ E!FreeSlot \in 0..MaxSlots
         /\ E!FreeSlots # {} => E!FreeSlot \in E!FreeSlots
<1>1. CASE E!FreeSlots = {}
  BY <1>1 DEF E!FreeSlot, E!EnumerateConstants
<1>2. CASE E!FreeSlots # {}
  <2>1. E!FreeSlots \subseteq 1..MaxSlots /\ E!FreeSlots \subseteq Nat /\ MaxSlots \in Nat
    BY DEF E!FreeSlots, E!EnumerateConstants
  <2>2. \E x \in E!FreeSlots : \A y \in E!FreeSlots : x <= y
    BY <1>2, <2>1, Smallest
  <2>3. E!FreeSlot \in E!FreeSlots
    BY <1>2, <2>2 DEF E!FreeSlot, E!Min
  <2> QED BY <2>1, <2>3
<1> QED BY <1>1, <1>2

LEMMA EntryFound ==
  ASSUME E!EnumerateConstants, \E i \in E!Table : ~Devices[i].Used
  PROVE  E!FindFreeDevice \in E!Table /\ ~Devices[E!FindFreeDevice].Used
<1> DEFINE T == {i \in E!Table : ~Devices[i].Used}
<1>1. T \subseteq Nat /\ T # {}
  BY DEF E!Table
<1>2. PICK x \in T : \A y \in T : x <= y
  <2> HIDE DEF T
  <2> QED BY <1>1, Smallest
<1>3. \A j \in 1..(x - 1) : j \in E!Table /\ ~(x <= j)
  BY <1>2 DEF E!Table, E!EnumerateConstants
<1>4. \A j \in 1..(x - 1) : Devices[j].Used
  BY <1>2, <1>3
<1>5. \E i \in E!Table : ~Devices[i].Used /\ \A j \in 1..(i - 1) : Devices[j].Used
  BY <1>2, <1>4
<1> QED BY <1>5 DEF E!FindFreeDevice

LEMMA FreshRecords ==
  ASSUME E!EnumerateConstants
  PROVE  /\ E!Unused \in DeviceSet /\ E!Unused.Used = FALSE /\ E!Unused.Slot = 0
         /\ E!DisabledSlot \in SlotSet /\ E!DisabledSlot.enabled = FALSE /\ E!DisabledSlot.device = 0
         /\ E!DisabledSlot.bulk = {}
<1>1. E!NoEndpoint \in Endpoints
  BY DEF Endpoints
<1>2. /\ E!Unused = [Used |-> FALSE, Port |-> 0, Slot |-> 0, Speed |-> "full", owns |-> {}, Ep0Mps |-> 0,
                   HubSeen |-> FALSE, IsMass |-> FALSE, BulkIn |-> E!NoEndpoint, BulkOut |-> E!NoEndpoint]
      /\ E!DisabledSlot = [enabled |-> FALSE, device |-> 0, ep0 |-> 0, bulk |-> {}]
  BY DEF E!Unused, E!DisabledSlot
<1>3. 0 \in 0..MaxSlots /\ 0 \in 0..USB_MAX_DEVICES
  BY DEF E!EnumerateConstants
<1> QED BY <1>1, <1>2, <1>3 DEF DeviceSet, SlotSet, Speeds

LEMMA EnabledSlot ==
  ASSUME E!EnumerateConstants
  PROVE  LET e == [E!DisabledSlot EXCEPT !.enabled = TRUE]
         IN  e \in SlotSet /\ e.enabled = TRUE /\ e.device = 0 /\ e.bulk = {}
<1>1. \A d \in SlotSet : LET e == [d EXCEPT !.enabled = TRUE]
                         IN  e \in SlotSet /\ e.enabled = TRUE /\ e.device = d.device /\ e.bulk = d.bulk
  BY DEF SlotSet
<1> QED BY <1>1, FreshRecords

LEMMA NewDevice ==
  ASSUME E!EnumerateConstants, NEW p \in Ports, NEW sp \in Speeds
  PROVE  LET e == [E!Unused EXCEPT !.Used = TRUE, !.Port = p, !.Speed = sp]
         IN  e \in DeviceSet /\ e.Used = TRUE /\ e.Port = p /\ e.Speed = sp /\ e.Slot = 0
<1>1. \A d \in DeviceSet : LET e == [d EXCEPT !.Used = TRUE, !.Port = p, !.Speed = sp]
                           IN  e \in DeviceSet /\ e.Used = TRUE /\ e.Port = p /\ e.Speed = sp
                             /\ e.Slot = d.Slot
  BY DEF DeviceSet
<1> QED BY <1>1, FreshRecords

LEMMA CmdFacts ==
  ASSUME E!EnumerateConstants, EnumTypes, enumPc # "idle",
         NEW kind \in {"enable", "address", "evaluate", "configure", "disable"}, NEW s \in 0..MaxSlots
  PROVE  /\ E!Cmd(kind, s) \in CommandSet
         /\ E!Cmd(kind, s).kind = kind /\ E!Cmd(kind, s).slot = s /\ E!Cmd(kind, s).device = D
<1>1. D \in E!Table /\ Devices[D].Port \in Ports
  BY DEF EnumTypes, DriverTypes
<1> QED BY <1>1 DEF E!Cmd, CommandSet, E!Here

LEMMA CmdWith ==
  ASSUME NEW c \in CommandSet, NEW m \in Nat, NEW b \in SUBSET Endpoints
  PROVE  /\ LET e == [c EXCEPT !.mps = m]
            IN  e \in CommandSet /\ e.kind = c.kind /\ e.slot = c.slot /\ e.device = c.device /\ e.mps = m
         /\ LET e == [c EXCEPT !.bulk = b]
            IN  e \in CommandSet /\ e.kind = c.kind /\ e.slot = c.slot /\ e.device = c.device /\ e.bulk = b
BY DEF CommandSet

(* A command changes its own slot, and that in the fields it is about.     *)
LEMMA Executed ==
  ASSUME E!EnumerateConstants, EnumTypes, NEW c \in CommandSet, E!Execute(c)
  PROVE  /\ enumSlots' \in [1..MaxSlots -> SlotSet]
         /\ \A s \in 1..MaxSlots : s # c.slot => enumSlots'[s] = enumSlots[s]
         /\ c.slot \in 1..MaxSlots =>
              LET a == enumSlots[c.slot]
                  b == enumSlots'[c.slot]
              IN  /\ c.kind = "enable" => b.enabled = TRUE /\ b.device = 0 /\ b.bulk = {}
                  /\ c.kind = "address" =>
                       b.enabled = a.enabled /\ b.device = c.device /\ b.ep0 = c.mps /\ b.bulk = a.bulk
                  /\ c.kind = "evaluate" =>
                       b.enabled = a.enabled /\ b.device = a.device /\ b.ep0 = c.mps /\ b.bulk = a.bulk
                  /\ c.kind = "configure" =>
                       b.enabled = a.enabled /\ b.device = a.device /\ b.ep0 = a.ep0 /\ b.bulk = c.bulk
                  /\ c.kind = "disable" => b.enabled = FALSE
<1> DEFINE new == CASE c.kind = "enable"    -> [E!DisabledSlot EXCEPT !.enabled = TRUE]
                    [] c.kind = "address"   -> [enumSlots[c.slot] EXCEPT !.device = c.device, !.ep0 = c.mps]
                    [] c.kind = "evaluate"  -> [enumSlots[c.slot] EXCEPT !.ep0 = c.mps]
                    [] c.kind = "configure" -> [enumSlots[c.slot] EXCEPT !.bulk = c.bulk]
                    [] c.kind = "disable"   -> E!DisabledSlot
<1>1. enumSlots \in [1..MaxSlots -> SlotSet] /\ enumSlots' = [enumSlots EXCEPT ![c.slot] = new]
  BY DEF EnumTypes, BoardTypes, E!Execute
<1>2. /\ c.kind \in {"enable", "address", "evaluate", "configure", "disable"} /\ c.slot \in 0..MaxSlots
      /\ c.device \in E!Table /\ c.mps \in Nat /\ c.bulk \in SUBSET Endpoints
      /\ c.device \in 0..USB_MAX_DEVICES
  BY DEF CommandSet, E!Table
<1>3. ASSUME c.slot \in 1..MaxSlots
      PROVE  /\ new \in SlotSet
             /\ c.kind = "enable" => new.enabled = TRUE /\ new.device = 0 /\ new.bulk = {}
             /\ c.kind = "disable" => new.enabled = FALSE
             /\ c.kind = "address" => new = [enumSlots[c.slot] EXCEPT !.device = c.device, !.ep0 = c.mps]
             /\ c.kind = "evaluate" => new = [enumSlots[c.slot] EXCEPT !.ep0 = c.mps]
             /\ c.kind = "configure" => new = [enumSlots[c.slot] EXCEPT !.bulk = c.bulk]
  <2>1. enumSlots[c.slot] \in SlotSet
    BY <1>1, <1>3
  <2>2. \A d \in SlotSet :
          /\ [d EXCEPT !.device = c.device, !.ep0 = c.mps] \in SlotSet
          /\ [d EXCEPT !.ep0 = c.mps] \in SlotSet
          /\ [d EXCEPT !.bulk = c.bulk] \in SlotSet
    BY <1>2 DEF SlotSet
  <2> QED BY <1>2, <2>1, <2>2, FreshRecords, EnabledSlot
<1>4. ASSUME NEW d \in SlotSet, NEW dev, NEW m, NEW q
      PROVE  LET x == [d EXCEPT !.device = dev, !.ep0 = m]
                 y == [d EXCEPT !.ep0 = m]
                 z == [d EXCEPT !.bulk = q]
             IN  /\ x.enabled = d.enabled /\ x.device = dev /\ x.ep0 = m /\ x.bulk = d.bulk
                 /\ y.enabled = d.enabled /\ y.device = d.device /\ y.ep0 = m /\ y.bulk = d.bulk
                 /\ z.enabled = d.enabled /\ z.device = d.device /\ z.ep0 = d.ep0 /\ z.bulk = q
  BY DEF SlotSet
<1>5. c.slot \in 1..MaxSlots => enumSlots'[c.slot] = new /\ enumSlots[c.slot] \in SlotSet
  <2> HIDE DEF new
  <2> QED BY <1>1
<1>6. /\ enumSlots' \in [1..MaxSlots -> SlotSet]
      /\ \A s \in 1..MaxSlots : s # c.slot => enumSlots'[s] = enumSlots[s]
  <2> HIDE DEF new
  <2> QED BY <1>1, <1>3
<1> HIDE DEF new
<1>7. ASSUME c.slot \in 1..MaxSlots, c.kind \in {"enable", "disable"}
      PROVE  /\ c.kind = "enable" => enumSlots'[c.slot].enabled = TRUE /\ enumSlots'[c.slot].device = 0
                 /\ enumSlots'[c.slot].bulk = {}
             /\ c.kind = "disable" => enumSlots'[c.slot].enabled = FALSE
  BY <1>3, <1>5, <1>7
<1>8. ASSUME c.slot \in 1..MaxSlots, c.kind = "address"
      PROVE  LET a == enumSlots[c.slot]
                 b == enumSlots'[c.slot]
             IN  b.enabled = a.enabled /\ b.device = c.device /\ b.ep0 = c.mps /\ b.bulk = a.bulk
  <2> PICK d \in SlotSet : d = enumSlots[c.slot]
    BY <1>5, <1>8
  <2>1. enumSlots'[c.slot] = [d EXCEPT !.device = c.device, !.ep0 = c.mps]
    BY <1>3, <1>5, <1>8
  <2> PICK e : e = enumSlots'[c.slot]
    OBVIOUS
  <2>2. e = [d EXCEPT !.device = c.device, !.ep0 = c.mps]
    BY <2>1
  <2> QED BY <1>4, <2>2
<1>9. ASSUME c.slot \in 1..MaxSlots, c.kind = "evaluate"
      PROVE  LET a == enumSlots[c.slot]
                 b == enumSlots'[c.slot]
             IN  b.enabled = a.enabled /\ b.device = a.device /\ b.ep0 = c.mps /\ b.bulk = a.bulk
  <2> PICK d \in SlotSet : d = enumSlots[c.slot]
    BY <1>5, <1>9
  <2>1. enumSlots'[c.slot] = [d EXCEPT !.ep0 = c.mps]
    BY <1>3, <1>5, <1>9
  <2> PICK e : e = enumSlots'[c.slot]
    OBVIOUS
  <2>2. e = [d EXCEPT !.ep0 = c.mps]
    BY <2>1
  <2> QED BY <1>4, <2>2
<1>10. ASSUME c.slot \in 1..MaxSlots, c.kind = "configure"
      PROVE  LET a == enumSlots[c.slot]
                 b == enumSlots'[c.slot]
             IN  b.enabled = a.enabled /\ b.device = a.device /\ b.ep0 = a.ep0 /\ b.bulk = c.bulk
  <2> PICK d \in SlotSet : d = enumSlots[c.slot]
    BY <1>5, <1>10
  <2>1. enumSlots'[c.slot] = [d EXCEPT !.bulk = c.bulk]
    BY <1>3, <1>5, <1>10
  <2> PICK e : e = enumSlots'[c.slot]
    OBVIOUS
  <2>2. e = [d EXCEPT !.bulk = c.bulk]
    BY <2>1
  <2> QED BY <1>4, <2>2
<1> QED BY <1>6, <1>7, <1>8, <1>9, <1>10
(* What becomes of a command.                                              *)
LEMMA Commanded ==
  ASSUME E!EnumerateConstants, EnumTypes, NEW c \in CommandSet, E!Succeeds(c) \/ E!Refused(c)
           \/ E!GivenUp(c)
  PROVE  /\ enumSlots' \in [1..MaxSlots -> SlotSet] /\ late' \in Seq(CommandSet)
         /\ faults' \in 0..MaxFaults /\ gaveUp' \in BOOLEAN
         /\ E!Succeeds(c) => late = <<>> /\ late' = <<>> /\ gaveUp' = gaveUp /\ E!Execute(c)
         /\ ~E!Succeeds(c) => enumSlots' = enumSlots
         /\ ~gaveUp' => ~gaveUp /\ late' = late
<1>1. enumSlots \in [1..MaxSlots -> SlotSet] /\ late \in Seq(CommandSet) /\ gaveUp \in BOOLEAN
        /\ faults \in 0..MaxFaults
  BY DEF EnumTypes, BoardTypes, DriverTypes
<1>2. E!Fault => faults' \in 0..MaxFaults
  BY <1>1 DEF E!Fault, E!EnumerateConstants
<1>3. CASE E!Succeeds(c)
  <2>1. E!Execute(c) /\ late = <<>> /\ UNCHANGED <<faults, late, gaveUp>>
    BY <1>3 DEF E!Succeeds
  <2>2. enumSlots' \in [1..MaxSlots -> SlotSet]
    BY <2>1, Executed
  <2> QED BY <1>1, <1>3, <2>1, <2>2
<1>4. CASE ~E!Succeeds(c) /\ E!Refused(c)
  <2>1. UNCHANGED <<enumSlots, late, gaveUp>> /\ faults' \in 0..MaxFaults
    BY <1>1, <1>2, <1>4 DEF E!Refused
  <2> QED BY <1>1, <1>4, <2>1
<1>5. CASE ~E!Succeeds(c) /\ E!GivenUp(c)
  <2>1. enumSlots' = enumSlots /\ gaveUp' = TRUE /\ faults' \in 0..MaxFaults /\ late' = Append(late, c)
    BY <1>1, <1>2, <1>5 DEF E!GivenUp
  <2>2. late' \in Seq(CommandSet)
    BY <1>1, <2>1
  <2> QED BY <1>1, <1>5, <2>1, <2>2
<1> QED BY <1>3, <1>4, <1>5

(* The slot of the device at hand is its own, and the other devices have   *)
(* theirs, whatever becomes of it.                                         *)
LEMMA Mine ==
  ASSUME EnumTypes, OwnSlots, SlotsHeld, enumPc \notin {"idle", "enable"}
  PROVE  LET s == Devices[D].Slot
         IN  /\ D \in E!Table /\ Devices[D].Used /\ s \in 1..MaxSlots /\ enumSlots[s].enabled
             /\ enumSlots[s].device # 0 =>
                  /\ enumSlots[s].device = D /\ Dcbaa[s] = D
                  /\ E!Contexts \cup {ep.addr : ep \in enumSlots[s].bulk} \subseteq Devices[D].owns
<1>1. /\ D \in E!Table /\ Devices[D].Used
  BY DEF EnumTypes, DriverTypes
<1>2. /\ Devices[D].Slot \in 1..MaxSlots /\ enumSlots[Devices[D].Slot].enabled
      /\ \A j \in E!Table : Devices[j].Used /\ Devices[j].Slot = Devices[D].Slot => D = j
  BY <1>1 DEF OwnSlots
<1>3. PICK i \in E!Table : HeldFor(Devices[D].Slot, i)
  BY <1>2 DEF SlotsHeld
<1>4. i = D
  BY <1>2, <1>3 DEF HeldFor
<1>5. HeldFor(Devices[D].Slot, D)
  BY <1>3, <1>4
<1> QED BY <1>1, <1>2, <1>5 DEF HeldFor

LEMMA OthersStay ==
  ASSUME EnumTypes, OwnSlots, SlotsHeld, enumPc \notin {"idle", "enable"},
         D' = D, enumPc' # "enable",
         \A i \in E!Table : i # D => Devices'[i] = Devices[i],
         Devices'[D].Used, Devices'[D].Slot = Devices[D].Slot,
         \A s \in 1..MaxSlots : s # Devices[D].Slot => enumSlots'[s] = enumSlots[s] /\ Dcbaa'[s] = Dcbaa[s],
         LET s == Devices[D].Slot
         IN  /\ enumSlots'[s].enabled
             /\ enumSlots'[s].device # 0 =>
                  /\ enumSlots'[s].device = D /\ Dcbaa'[s] = D
                  /\ E!Contexts \cup {ep.addr : ep \in enumSlots'[s].bulk} \subseteq Devices'[D].owns
  PROVE  OwnSlots' /\ SlotsHeld'
<1>1. D \in E!Table /\ Devices[D].Used /\ Devices[D].Slot \in 1..MaxSlots
  BY Mine
<1>2. \A i \in E!Table : (Devices'[i].Used <=> Devices[i].Used) /\ Devices'[i].Slot = Devices[i].Slot
  BY <1>1
<1>3. OwnSlots'
  <2> SUFFICES ASSUME NEW i \in E!Table, Devices'[i].Used
               PROVE  /\ Devices'[i].Slot \in 1..MaxSlots /\ enumSlots'[Devices'[i].Slot].enabled
                      /\ \A j \in E!Table : Devices'[j].Used /\ Devices'[j].Slot = Devices'[i].Slot => i = j
    BY DEF OwnSlots, E!Table
  <2>1. /\ Devices[i].Slot \in 1..MaxSlots /\ enumSlots[Devices[i].Slot].enabled
        /\ \A j \in E!Table : Devices[j].Used /\ Devices[j].Slot = Devices[i].Slot => i = j
    BY <1>2 DEF OwnSlots
  <2>2. enumSlots'[Devices[i].Slot].enabled
    BY <2>1
  <2> QED BY <1>2, <2>1, <2>2
<1>4. SlotsHeld'
  <2> SUFFICES ASSUME NEW s \in 1..MaxSlots, enumSlots'[s].enabled
               PROVE  \E i \in E!Table : HeldFor(s, i)'
    BY DEF SlotsHeld, E!Table
  <2>1. CASE s = Devices[D].Slot
    BY <1>1, <2>1 DEF HeldFor
  <2>2. CASE s # Devices[D].Slot
    <3>1. enumSlots'[s] = enumSlots[s] /\ Dcbaa'[s] = Dcbaa[s]
      BY <2>2
    <3>2. PICK i \in E!Table : HeldFor(s, i)
      BY <3>1 DEF SlotsHeld
    <3>3. i # D
      BY <2>2, <3>2 DEF HeldFor
    <3>4. Devices'[i] = Devices[i]
      BY <3>3
    <3> QED BY <3>1, <3>2, <3>4 DEF HeldFor
  <2> QED BY <2>1, <2>2
<1> QED BY <1>3, <1>4

(* A step that leaves the slots alone, and of the devices changes but the  *)
(* one at hand.                                                            *)
LEMMA OnlyThis ==
  ASSUME EnumTypes, OwnSlots, SlotsHeld, enumPc \notin {"idle", "enable"},
         D' = D, enumPc' # "enable", enumSlots' = enumSlots, Dcbaa' = Dcbaa,
         \A i \in E!Table : i # D => Devices'[i] = Devices[i],
         Devices'[D].Used, Devices'[D].Slot = Devices[D].Slot, Devices[D].owns \subseteq Devices'[D].owns
  PROVE  OwnSlots' /\ SlotsHeld'
<1> DEFINE s == Devices[D].Slot
<1>1. /\ enumSlots[s].enabled
      /\ enumSlots[s].device # 0 =>
           /\ enumSlots[s].device = D /\ Dcbaa[s] = D
           /\ E!Contexts \cup {ep.addr : ep \in enumSlots[s].bulk} \subseteq Devices[D].owns
  BY Mine
<1> QED BY <1>1, OthersStay

(* A step that goes on with the device at hand, or ends with it.           *)
LEMMA Proceeds ==
  ASSUME EnumTypes, HasSlot, Holds, enumPc \in WithContexts,
         D' = D, enumSlots' = enumSlots, Dcbaa' = Dcbaa,
         \A i \in E!Table : i # D => Devices'[i] = Devices[i],
         Devices'[D].Used, Devices'[D].Slot = Devices[D].Slot, Devices[D].owns \subseteq Devices'[D].owns,
         ~gaveUp' => ~gaveUp /\ late' = late,
         enumPc' \in (WithContexts \ {"address", "descriptor8"}) \cup {"release", "idle"},
         enumPc' = "evaluate" => enumPc = "descriptor8", enumPc' \in WithContexts => late' = late,
         enumPc' = "configure" => {Devices'[D].BulkIn.addr,
           Devices'[D].BulkOut.addr} \subseteq Devices'[D].owns
  PROVE  HasSlot' /\ NoSlotYet' /\ Holds'
<1>1. /\ enumPc \notin {"idle", "enable"} /\ enumPc \in WithSlot
      /\ enumPc' \in WithSlot => enumPc' \in WithContexts
      /\ enumPc' \notin {"enable", "memory", "address", "descriptor8"}
  BY DEF WithContexts, WithSlot
<1>2. HasSlot' /\ NoSlotYet'
  BY <1>1 DEF HasSlot, NoSlotYet
<1>3. ASSUME ~gaveUp' PROVE late' = <<>> /\ OwnSlots' /\ SlotsHeld' /\ MemoryReady'
  <2>1. late = <<>> /\ OwnSlots /\ SlotsHeld /\ MemoryReady /\ late' = late
    BY <1>3 DEF Holds
  <2>2. OwnSlots' /\ SlotsHeld'
    BY <1>1, <2>1, OnlyThis
  <2>3. MemoryReady'
    BY <1>1, <2>1 DEF MemoryReady
  <2> QED BY <2>1, <2>2, <2>3
<1> QED BY <1>2, <1>3 DEF Holds

(* A command about the slot of the device at hand succeeds.                *)
LEMMA ProceedsBy ==
  ASSUME EnumTypes, HasSlot, Holds, enumPc \in {"address", "evaluate", "configure"},
         D' = D, Dcbaa' = Dcbaa, late' = late, gaveUp' = gaveUp,
         enumPc' \in {"descriptor8", "descriptor18", "set"},
         \A i \in E!Table : i # D => Devices'[i] = Devices[i],
         Devices'[D].Used, Devices'[D].Slot = Devices[D].Slot, Devices'[D].owns = Devices[D].owns,
         \A s \in 1..MaxSlots : s # Devices[D].Slot => enumSlots'[s] = enumSlots[s],
         LET a == enumSlots[Devices[D].Slot]
             b == enumSlots'[Devices[D].Slot]
         IN  /\ b.enabled = a.enabled /\ b.device \in {a.device, D}
             /\ enumPc' = "descriptor8" => b.device # 0
             /\ ~gaveUp => {ep.addr : ep \in b.bulk} \subseteq Devices[D].owns
  PROVE  HasSlot' /\ NoSlotYet' /\ Holds'
<1>1. /\ enumPc \notin {"idle", "enable"} /\ enumPc \in WithSlot /\ enumPc \in WithContexts
      /\ enumPc' \notin {"enable", "memory", "address", "evaluate", "configure"}
  BY DEF WithContexts, WithSlot
<1>2. HasSlot' /\ NoSlotYet'
  BY <1>1 DEF HasSlot, NoSlotYet
<1>3. ASSUME ~gaveUp' PROVE late' = <<>> /\ OwnSlots' /\ SlotsHeld' /\ MemoryReady'
  <2>1. ~gaveUp /\ late = <<>> /\ OwnSlots /\ SlotsHeld /\ MemoryReady
    BY <1>3 DEF Holds
  <2>2. Dcbaa[Devices[D].Slot] = D /\ E!Contexts \subseteq Devices[D].owns
    BY <1>1, <2>1 DEF MemoryReady
  <2>3. enumSlots[Devices[D].Slot].enabled /\ enumSlots[Devices[D].Slot].device \in {0, D} /\ D \in E!Table
    BY <1>1, <2>1, Mine
  <2>4. OwnSlots' /\ SlotsHeld'
    <3>1. LET s == Devices[D].Slot
          IN  /\ enumSlots'[s].enabled
              /\ enumSlots'[s].device # 0 =>
                   /\ enumSlots'[s].device = D /\ Dcbaa'[s] = D
                   /\ E!Contexts \cup {ep.addr : ep \in enumSlots'[s].bulk} \subseteq Devices'[D].owns
      BY <2>1, <2>2, <2>3
    <3> QED BY <1>1, <2>1, <3>1, OthersStay
  <2>5. MemoryReady'
    BY <1>1, <2>1, <2>2 DEF MemoryReady
  <2> QED BY <2>1, <2>4, <2>5
<1> QED BY <1>2, <1>3 DEF Holds

LEMMA BulkRingsRight ==
  ASSUME E!EnumerateConstants, DeviceInv, E!BulkRings
  PROVE  DeviceInv'
<1>1. /\ EnumTypes /\ HasSlot /\ Holds
      /\ enumPc = "rings" /\ D \in E!Table /\ Devices[D] \in DeviceSet /\ Devices[D].Used
      /\ Devices \in [E!Table -> DeviceSet]
  BY DEF DeviceInv, E!BulkRings, EnumTypes, DriverTypes
<1>2. enumPc \in WithContexts /\ enumPc \in WithSlot /\ enumPc \notin {"idle", "enable"}
  BY <1>1 DEF WithContexts, WithSlot
<1>3. PICK had : /\ had \in {{Devices[D].BulkIn.addr, Devices[D].BulkOut.addr}, {Devices[D].BulkIn.addr},
                     {}}
                 /\ Devices' = [Devices EXCEPT ![D].owns = @ \cup had]
                 /\ IF had = {Devices[D].BulkIn.addr, Devices[D].BulkOut.addr}
                      THEN enumPc' = "configure" /\ UNCHANGED <<faults, enumClean>>
                      ELSE enumPc' = "release" /\ E!Fault /\ enumClean' = FALSE
  BY DEF E!BulkRings, E!Here, E!Fails
<1>4. UNCHANGED <<D, Scratch, Dcbaa, NewMps, calls, enumSlots, named, late, gadget, enabled, configured,
        gaveUp>>
  BY DEF E!BulkRings, E!devices
<1>5. had \subseteq Pages
  BY <1>1, <1>3 DEF DeviceSet, Pages
<1>6. /\ Devices' \in [E!Table -> DeviceSet]
      /\ \A i \in E!Table : i # D => Devices'[i] = Devices[i]
      /\ Devices'[D] = [Devices[D] EXCEPT !.owns = Devices[D].owns \cup had]
  <2>1. Devices[D].owns \cup had \in SUBSET Pages
    BY <1>1, <1>5 DEF DeviceSet
  <2>2. [Devices[D] EXCEPT !.owns = Devices[D].owns \cup had] \in DeviceSet
    BY <1>1, <2>1 DEF DeviceSet
  <2> QED BY <1>1, <1>3, <2>2
<1>7. /\ Devices'[D].Used /\ Devices'[D].Slot = Devices[D].Slot /\ Devices'[D].Port = Devices[D].Port
      /\ Devices'[D].owns = Devices[D].owns \cup had /\ Devices'[D].Speed = Devices[D].Speed
      /\ Devices'[D].BulkIn = Devices[D].BulkIn /\ Devices'[D].BulkOut = Devices[D].BulkOut
  BY <1>1, <1>6 DEF DeviceSet
<1>8. enumPc' \in {"configure", "release"} /\ faults' \in 0..MaxFaults
  BY <1>1, <1>3 DEF EnumTypes, DriverTypes, E!Fault, E!EnumerateConstants
<1>9. EnumTypes'
  <2>1. DriverTypes'
    BY <1>1, <1>4, <1>6, <1>7, <1>8 DEF EnumTypes, DriverTypes, E!Table, WithSlot, WithContexts
  <2>2. ScratchTypes' /\ BoardTypes'
    BY <1>1, <1>4 DEF EnumTypes, ScratchTypes, BoardTypes, E!Table
  <2> QED BY <2>1, <2>2 DEF EnumTypes
<1>10. HasSlot' /\ NoSlotYet' /\ Holds'
  <2>1. enumPc' = "configure" => {Devices'[D].BulkIn.addr,
          Devices'[D].BulkOut.addr} \subseteq Devices'[D].owns
    BY <1>3, <1>7
  <2>2. enumPc' \in (WithContexts \ {"address", "descriptor8"}) \cup {"release", "idle"}
          /\ enumPc' # "evaluate"
    BY <1>8 DEF WithContexts
  <2> QED BY <1>1, <1>2, <1>4, <1>6, <1>7, <2>1, <2>2, Proceeds
<1>11. SuperIsFixed => SizeKnown'
  BY <1>1, <1>2, <1>4, <1>7, <1>8 DEF DeviceInv, SizeKnown, WithSlot, WithContexts
<1> QED BY <1>9, <1>10, <1>11 DEF DeviceInv

(* A control transfer, done or not, leaves the slots alone.                *)
LEMMA GoesOn ==
  ASSUME E!EnumerateConstants, DeviceInv, enumPc \in WithContexts,
         UNCHANGED <<D, Dcbaa, calls, enumSlots, late, gadget, gaveUp>>,
         Devices' \in [E!Table -> DeviceSet], \A i \in E!Table : i # D => Devices'[i] = Devices[i],
         Devices'[D].Used, Devices'[D].Slot = Devices[D].Slot, Devices'[D].Port = Devices[D].Port,
         Devices'[D].owns = Devices[D].owns, Devices'[D].Speed = Devices[D].Speed,
         faults' \in 0..MaxFaults, NewMps' \in Nat, ScratchTypes', configured' \subseteq Ports,
         enumPc' \in {"evaluate", "descriptor18", "config9", "config", "rings", "release", "idle"},
         enumPc' = "evaluate" => enumPc = "descriptor8",
         SuperIsFixed => SizeKnown'
  PROVE  DeviceInv'
<1>1. /\ EnumTypes /\ HasSlot /\ Holds
      /\ enumPc # "idle" /\ D \in E!Table /\ Devices[D].Used /\ Devices[D].Port \in Ports
  BY DEF DeviceInv, EnumTypes, DriverTypes, WithContexts
<1>2. /\ enumPc' \in WithSlot \cup {"idle", "enable", "release"} /\ enumPc' # "configure"
      /\ enumPc' \in (WithContexts \ {"address", "descriptor8"}) \cup {"release", "idle"}
  BY DEF WithContexts, WithSlot
<1>3. EnumTypes'
  <2>1. DriverTypes'
    BY <1>1, <1>2 DEF EnumTypes, DriverTypes, E!Table
  <2>2. BoardTypes'
    BY <1>1 DEF EnumTypes, BoardTypes, E!Table
  <2> QED BY <2>1, <2>2 DEF EnumTypes
<1>4. HasSlot' /\ NoSlotYet' /\ Holds'
  BY <1>1, <1>2, Proceeds
<1> QED BY <1>3, <1>4 DEF DeviceInv

LEMMA DeviceFacts ==
  ASSUME E!EnumerateConstants, DeviceInv, enumPc # "idle"
  PROVE  /\ EnumTypes /\ HasSlot /\ Holds /\ NoSlotYet
         /\ D \in E!Table /\ Devices[D] \in DeviceSet /\ Devices[D].Used /\ Devices[D].Port \in Ports
         /\ Devices \in [E!Table -> DeviceSet] /\ gadget[Devices[D].Port] \in Gadgets
         /\ faults \in 0..MaxFaults /\ (E!Fault => faults' \in 0..MaxFaults)
         /\ Devices[D].Slot \in 0..MaxSlots /\ NewMps \in Nat /\ configured \subseteq Ports
         /\ Scratch.kind = "device" => Scratch.mps \in Nat /\ Scratch.hub \in BOOLEAN
         /\ Scratch.kind = "config" => \E g \in Gadgets : Scratch.config = g.config
<1>1. EnumTypes /\ HasSlot /\ Holds /\ NoSlotYet
  BY DEF DeviceInv
<1>2. /\ D \in E!Table /\ Devices[D] \in DeviceSet /\ Devices[D].Used /\ Devices[D].Port \in Ports
      /\ Devices \in [E!Table -> DeviceSet] /\ faults \in 0..MaxFaults /\ NewMps \in Nat
  BY <1>1 DEF EnumTypes, DriverTypes
<1>3. gadget[Devices[D].Port] \in Gadgets /\ configured \subseteq Ports
  BY <1>1, <1>2 DEF EnumTypes, BoardTypes
<1>4. E!Fault => faults' \in 0..MaxFaults
  BY <1>2 DEF E!Fault, E!EnumerateConstants
<1>5. Devices[D].Slot \in 0..MaxSlots
  BY <1>2 DEF DeviceSet
<1> QED BY <1>1, <1>2, <1>3, <1>4, <1>5 DEF EnumTypes, ScratchTypes

LEMMA GadgetFacts ==
  ASSUME E!EnumerateConstants, NEW g \in Gadgets
  PROVE  /\ g.speed \in Speeds /\ g.mps0 \in Nat /\ g.mps0 >= 8 /\ g.hub \in BOOLEAN
         /\ E!FirstMps(g.speed) \in Nat /\ (g.speed = "super" => E!FirstMps(g.speed) = 512)
BY DEF E!EnumerateConstants, Speeds, E!FirstMps

LEMMA Descriptor8Right ==
  ASSUME E!EnumerateConstants, DeviceInv, E!GetDescriptor8
  PROVE  DeviceInv'
<1>1. enumPc = "descriptor8" /\ enumPc # "idle" /\ enumPc \in WithContexts /\ enumPc \in WithSlot
  BY DEF E!GetDescriptor8, E!Reads, WithContexts, WithSlot
<1>2. UNCHANGED <<D, Dcbaa, calls, enumSlots, late, gadget, gaveUp, configured>> /\ Devices' = Devices
  BY DEF E!GetDescriptor8, E!Reads, E!devices
<1> DEFINE g == gadget[Devices[D].Port]
<1>3. g \in Gadgets
  BY <1>1, DeviceFacts
<1>4. \/ /\ Scratch' = E!DeviceDescriptor \/ (g.short /\ Scratch' = Scratch)
         /\ NewMps' \in E!PacketSizes(Scratch')
         /\ enumPc' = IF E!Differs(NewMps') THEN "evaluate" ELSE "descriptor18"
         /\ faults' = faults \/ E!Fault
      \/ E!Fault /\ enumPc' = "release" /\ Scratch' = Scratch /\ NewMps' = NewMps
  BY DEF E!GetDescriptor8, E!Reads, E!There, E!Here, E!Fails
<1>5. ScratchTypes' /\ faults' \in 0..MaxFaults
  <2>1. E!DeviceDescriptor.kind = "device" /\ E!DeviceDescriptor.mps = g.mps0
          /\ E!DeviceDescriptor.hub = g.hub
    BY DEF E!DeviceDescriptor, E!There, E!Here
  <2> QED BY <1>1, <1>3, <1>4, <2>1, DeviceFacts, GadgetFacts DEF ScratchTypes
<1>6. NewMps' \in Nat
  <2>1. E!PacketSizes(Scratch') \subseteq Nat
    BY <1>5 DEF E!PacketSizes, ScratchTypes
  <2> QED BY <1>1, <1>4, <2>1, DeviceFacts
<1>7. enumPc' \in {"evaluate", "descriptor18", "release"}
  BY <1>4
<1>8. ASSUME SuperIsFixed PROVE SizeKnown'
  <2>1. CASE enumPc' = "release"
    BY <2>1 DEF SizeKnown, WithSlot, WithContexts
  <2>2. CASE enumPc' # "release"
    <3>1. Devices[D].Speed = g.speed /\ enumSlots[Devices[D].Slot].ep0 = E!FirstMps(g.speed)
      BY <1>1, <1>8 DEF DeviceInv, SizeKnown
    <3>2. /\ ~g.short => NewMps' = g.mps0
          /\ enumPc' = IF E!Differs(NewMps') THEN "evaluate" ELSE "descriptor18"
      <4>1. E!DeviceDescriptor.kind = "device" /\ E!DeviceDescriptor.mps = g.mps0
        BY DEF E!DeviceDescriptor, E!There, E!Here
      <4>2. E!PacketSizes(E!DeviceDescriptor) = {g.mps0}
        BY <4>1 DEF E!PacketSizes
      <4> QED BY <1>4, <2>2, <4>2
    <3>3. enumPc' = "descriptor18" /\ ~g.short => g.mps0 = E!FirstMps(g.speed)
      <4> SUFFICES ASSUME enumPc' = "descriptor18", ~g.short PROVE g.mps0 = E!FirstMps(g.speed)
        OBVIOUS
      <4>1. ~E!Differs(g.mps0)
        BY <3>2
      <4>2. g.mps0 = E!FirstMps(g.speed) \/ ~(g.mps0 >= 8) \/ g.speed = "super"
        BY <3>1, <4>1 DEF E!Differs, E!Here
      <4> QED BY <1>3, <1>8, <4>2, GadgetFacts DEF SuperIsFixed
    <3> QED BY <1>2, <1>7, <3>1, <3>2, <3>3 DEF SizeKnown
  <2> QED BY <2>1, <2>2
<1> QED BY <1>1, <1>2, <1>5, <1>6, <1>7, <1>8, DeviceFacts, GoesOn

(* The steps after the packet size is known.                               *)
LEMMA SizeStays ==
  ASSUME DeviceInv, SuperIsFixed, enumPc \in {"descriptor18", "config9", "config"},
         UNCHANGED <<D, enumSlots, gadget>>,
         Devices'[D].Slot = Devices[D].Slot, Devices'[D].Port = Devices[D].Port,
         Devices'[D].Speed = Devices[D].Speed,
         enumPc' \in {"config9", "config", "rings", "release", "idle"}
  PROVE  SizeKnown'
BY DEF DeviceInv, SizeKnown, WithSlot, WithContexts

LEMMA Descriptor18Right ==
  ASSUME E!EnumerateConstants, DeviceInv, E!GetDescriptor18
  PROVE  DeviceInv'
<1>1. enumPc = "descriptor18" /\ enumPc # "idle" /\ enumPc \in WithContexts
  BY DEF E!GetDescriptor18, E!Reads, WithContexts, WithSlot
<1>2. UNCHANGED <<D, Dcbaa, calls, enumSlots, late, gadget, gaveUp, configured>> /\ NewMps' = NewMps
  BY DEF E!GetDescriptor18, E!Reads, E!devices
<1>3. gadget[Devices[D].Port] \in Gadgets /\ Devices \in [E!Table -> DeviceSet] /\ D \in E!Table
  BY <1>1, DeviceFacts
<1>4. \/ /\ Scratch' = E!DeviceDescriptor \/ Scratch' = Scratch
         /\ \E hub \in (IF Scratch'.kind = "device" THEN {Scratch'.hub} ELSE BOOLEAN) :
              Devices' = [Devices EXCEPT ![D].HubSeen = hub]
         /\ enumPc' = "config9" /\ (faults' = faults \/ E!Fault)
      \/ E!Fault /\ enumPc' = "release" /\ Scratch' = Scratch /\ Devices' = Devices
  BY DEF E!GetDescriptor18, E!Reads, E!Fails
<1>5. ScratchTypes' /\ faults' \in 0..MaxFaults
  <2>1. /\ E!DeviceDescriptor.kind = "device" /\ E!DeviceDescriptor.mps = gadget[Devices[D].Port].mps0
        /\ E!DeviceDescriptor.hub = gadget[Devices[D].Port].hub
    BY DEF E!DeviceDescriptor, E!There, E!Here
  <2> QED BY <1>1, <1>3, <1>4, <2>1, DeviceFacts, GadgetFacts DEF ScratchTypes
<1>6. /\ Devices' \in [E!Table -> DeviceSet] /\ \A i \in E!Table : i # D => Devices'[i] = Devices[i]
      /\ Devices'[D].Used = Devices[D].Used /\ Devices'[D].Slot = Devices[D].Slot
      /\ Devices'[D].Port = Devices[D].Port
      /\ Devices'[D].owns = Devices[D].owns /\ Devices'[D].Speed = Devices[D].Speed
  <2>1. CASE Devices' = Devices
    BY <1>3, <2>1
  <2>2. CASE Devices' # Devices
    <3>1. PICK hub \in BOOLEAN : Devices' = [Devices EXCEPT ![D].HubSeen = hub]
      BY <1>4, <1>5, <2>2 DEF ScratchTypes
    <3>2. [Devices[D] EXCEPT !.HubSeen = hub] \in DeviceSet
      BY <1>3 DEF DeviceSet
    <3>3. /\ Devices' \in [E!Table -> DeviceSet] /\ \A i \in E!Table : i # D => Devices'[i] = Devices[i]
          /\ Devices'[D] = [Devices[D] EXCEPT !.HubSeen = hub]
      BY <1>3, <3>1, <3>2
    <3> QED BY <1>3, <3>3 DEF DeviceSet
  <2> QED BY <2>1, <2>2
<1>7. enumPc' \in {"config9", "release"}
  BY <1>4
<1>8. SuperIsFixed => SizeKnown'
  BY <1>1, <1>2, <1>6, <1>7, SizeStays
<1> QED BY <1>1, <1>2, <1>5, <1>6, <1>7, <1>8, DeviceFacts, GoesOn

LEMMA Config9Right ==
  ASSUME E!EnumerateConstants, DeviceInv, E!GetConfig9
  PROVE  DeviceInv'
<1>1. enumPc = "config9" /\ enumPc # "idle" /\ enumPc \in WithContexts
  BY DEF E!GetConfig9, E!Reads, WithContexts, WithSlot
<1>2. /\ UNCHANGED <<D, Dcbaa, calls, enumSlots, late, gadget, gaveUp, configured>>
      /\ NewMps' = NewMps /\ Devices' = Devices
  BY DEF E!GetConfig9, E!Reads, E!devices
<1>3. gadget[Devices[D].Port] \in Gadgets
  BY <1>1, DeviceFacts
<1>4. \/ /\ Scratch' = E!ConfigDescriptor \/ Scratch' = Scratch
         /\ enumPc' = "config" /\ (faults' = faults \/ E!Fault)
      \/ E!Fault /\ enumPc' = "release" /\ Scratch' = Scratch
  BY DEF E!GetConfig9, E!Reads, E!Fails
<1>5. ScratchTypes' /\ faults' \in 0..MaxFaults
  <2>1. E!ConfigDescriptor.kind = "config" /\ E!ConfigDescriptor.config = gadget[Devices[D].Port].config
    BY DEF E!ConfigDescriptor, E!There, E!Here
  <2> QED BY <1>1, <1>3, <1>4, <2>1, DeviceFacts DEF ScratchTypes
<1>7. enumPc' \in {"config", "release"}
  BY <1>4
<1>8. SuperIsFixed => SizeKnown'
  BY <1>1, <1>2, <1>7, SizeStays
<1> QED BY <1>1, <1>2, <1>5, <1>7, <1>8, DeviceFacts, GoesOn

LEMMA ParsedRight ==
  ASSUME NEW data, data.kind = "config" => \E g \in Gadgets : data.config = g.config
  PROVE  E!Parsed(data).BulkIn \in Endpoints /\ E!Parsed(data).BulkOut \in Endpoints
<1>1. E!Parsed(data) \in Parses
  <2>1. CASE data.kind = "config"
    BY <2>1 DEF E!Parsed, Parses
  <2>2. CASE data.kind # "config"
    BY <2>2 DEF E!Parsed, Parses
  <2> QED BY <2>1, <2>2
<1> QED BY <1>1 DEF Endpoints

LEMMA ConfigRight ==
  ASSUME E!EnumerateConstants, DeviceInv, E!GetConfig
  PROVE  DeviceInv'
<1>1. enumPc = "config" /\ enumPc # "idle" /\ enumPc \in WithContexts
  BY DEF E!GetConfig, E!Reads, WithContexts, WithSlot
<1>2. UNCHANGED <<D, Dcbaa, calls, enumSlots, late, gadget, gaveUp, configured>> /\ NewMps' = NewMps
  BY DEF E!GetConfig, E!Reads, E!devices
<1>3. gadget[Devices[D].Port] \in Gadgets /\ Devices \in [E!Table -> DeviceSet] /\ D \in E!Table
  BY <1>1, DeviceFacts
<1> DEFINE s == E!Parsed(Scratch')
           hub == Devices[D].HubSeen \/ s.HubSeen
<1>4. \/ /\ Scratch' = E!ConfigDescriptor \/ Scratch' = Scratch
         /\ Devices' = [Devices EXCEPT ![D].HubSeen = hub, ![D].IsMass = s.IsMass /\ ~hub,
                                       ![D].BulkIn = s.BulkIn, ![D].BulkOut = s.BulkOut]
         /\ enumPc' \in {"rings", "idle"} /\ (faults' = faults \/ E!Fault)
      \/ E!Fault /\ enumPc' = "release" /\ Scratch' = Scratch /\ Devices' = Devices
  BY DEF E!GetConfig, E!Reads, E!Fails, E!Here
<1>5. ScratchTypes' /\ faults' \in 0..MaxFaults
  <2>1. E!ConfigDescriptor.kind = "config" /\ E!ConfigDescriptor.config = gadget[Devices[D].Port].config
    BY DEF E!ConfigDescriptor, E!There, E!Here
  <2> QED BY <1>1, <1>3, <1>4, <2>1, DeviceFacts DEF ScratchTypes
<1>6. /\ Devices' \in [E!Table -> DeviceSet] /\ \A i \in E!Table : i # D => Devices'[i] = Devices[i]
      /\ Devices'[D].Used = Devices[D].Used /\ Devices'[D].Slot = Devices[D].Slot
      /\ Devices'[D].Port = Devices[D].Port
      /\ Devices'[D].owns = Devices[D].owns /\ Devices'[D].Speed = Devices[D].Speed
  <2>1. CASE Devices' = Devices
    BY <1>3, <2>1
  <2>2. CASE Devices' # Devices
    <3>1. PICK h \in BOOLEAN, ms \in BOOLEAN, a \in Endpoints, b \in Endpoints :
            Devices' = [Devices EXCEPT ![D].HubSeen = h, ![D].IsMass = ms, ![D].BulkIn = a,
              ![D].BulkOut = b]
      <4>1. s.BulkIn \in Endpoints /\ s.BulkOut \in Endpoints
        <5>1. PICK data : data = Scratch'
          OBVIOUS
        <5>2. data.kind = "config" => \E g \in Gadgets : data.config = g.config
          BY <1>5, <5>1 DEF ScratchTypes
        <5> QED BY <5>1, <5>2, ParsedRight
      <4> QED BY <1>4, <2>2, <4>1
    <3>2. [Devices[D] EXCEPT !.HubSeen = h, !.IsMass = ms, !.BulkIn = a, !.BulkOut = b] \in DeviceSet
      BY <1>3 DEF DeviceSet
    <3>3. /\ Devices' \in [E!Table -> DeviceSet] /\ \A i \in E!Table : i # D => Devices'[i] = Devices[i]
          /\ Devices'[D] = [Devices[D] EXCEPT !.HubSeen = h, !.IsMass = ms, !.BulkIn = a, !.BulkOut = b]
      BY <1>3, <3>1, <3>2
    <3> QED BY <1>3, <3>3 DEF DeviceSet
  <2> QED BY <2>1, <2>2
<1>7. enumPc' \in {"rings", "idle", "release"}
  BY <1>4
<1>8. SuperIsFixed => SizeKnown'
  BY <1>1, <1>2, <1>6, <1>7, SizeStays
<1> QED BY <1>1, <1>2, <1>5, <1>6, <1>7, <1>8, DeviceFacts, GoesOn

LEMMA ConfigurationRight ==
  ASSUME E!EnumerateConstants, DeviceInv, E!SetConfiguration
  PROVE  DeviceInv'
<1>1. enumPc = "set" /\ enumPc # "idle" /\ enumPc \in WithContexts
  BY DEF E!SetConfiguration, WithContexts, WithSlot
<1>2. UNCHANGED <<D, Dcbaa, calls, enumSlots, late, gadget, gaveUp, NewMps, Scratch, Devices>>
  BY DEF E!SetConfiguration
<1>3. enumPc' \in {"idle", "release"} /\ faults' \in 0..MaxFaults /\ configured' \subseteq Ports
  BY <1>1, DeviceFacts DEF E!SetConfiguration, E!Fails, E!Here
<1>4. ScratchTypes'
  BY <1>1, <1>2, DeviceFacts DEF ScratchTypes
<1>5. SizeKnown'
  BY <1>3 DEF SizeKnown, WithSlot, WithContexts
<1> QED BY <1>1, <1>2, <1>3, <1>4, <1>5, DeviceFacts, GoesOn

LEMMA MemoryRight ==
  ASSUME E!EnumerateConstants, DeviceInv, E!Memory
  PROVE  DeviceInv'
<1>1. enumPc = "memory" /\ enumPc # "idle" /\ enumPc \in WithSlot /\ enumPc # "enable"
  BY DEF E!Memory, WithSlot
<1>2. UNCHANGED <<D, Scratch, NewMps, calls, enumSlots, late, gadget, configured, gaveUp>>
  BY DEF E!Memory, E!devices
<1> DEFINE s == Devices[D].Slot
<1>3. /\ D \in E!Table /\ Devices[D] \in DeviceSet /\ Devices \in [E!Table -> DeviceSet]
      /\ gadget[Devices[D].Port] \in Gadgets /\ s \in 1..MaxSlots /\ late = <<>>
  BY <1>1, DeviceFacts DEF HasSlot
<1>4. PICK had \in {E!Contexts, {"out", "in"}, {"in"}, {"out"}, {}} :
        IF had = E!Contexts
          THEN /\ Devices' = [Devices EXCEPT ![D].owns = had, ![D].Ep0Mps = E!FirstMps(Devices[D].Speed)]
               /\ Dcbaa' = [Dcbaa EXCEPT ![s] = D]
               /\ enumPc' = "address" /\ faults' = faults
          ELSE /\ Devices' = [Devices EXCEPT ![D].owns = had]
               /\ enumPc' = "release" /\ E!Fault /\ Dcbaa' = Dcbaa
  BY DEF E!Memory, E!Here, E!Fails
<1>5. had \subseteq Pages
  BY DEF Pages, E!Contexts
<1>6. /\ Devices' \in [E!Table -> DeviceSet] /\ \A i \in E!Table : i # D => Devices'[i] = Devices[i]
      /\ Devices'[D].Used = Devices[D].Used /\ Devices'[D].Slot = s
      /\ Devices'[D].Port = Devices[D].Port
      /\ Devices'[D].owns = had /\ Devices'[D].Speed = Devices[D].Speed
      /\ had = E!Contexts => Devices'[D].Ep0Mps = E!FirstMps(Devices[D].Speed)
  <2>1. PICK m \in Nat : had = E!Contexts => m = E!FirstMps(Devices[D].Speed)
    <3>1. E!FirstMps(Devices[D].Speed) \in Nat
      BY <1>3 DEF DeviceSet, Speeds, E!FirstMps
    <3> QED BY <3>1
  <2>2. CASE had = E!Contexts
    <3>1. [Devices[D] EXCEPT !.owns = had, !.Ep0Mps = m] \in DeviceSet
      BY <1>3, <1>5 DEF DeviceSet
    <3>2. /\ Devices' \in [E!Table -> DeviceSet] /\ \A i \in E!Table : i # D => Devices'[i] = Devices[i]
          /\ Devices'[D] = [Devices[D] EXCEPT !.owns = had, !.Ep0Mps = m]
      BY ZenonT(80), <1>3, <1>4, <2>1, <2>2, <3>1
    <3> QED BY <1>3, <2>1, <3>2 DEF DeviceSet
  <2>3. CASE had # E!Contexts
    <3>1. [Devices[D] EXCEPT !.owns = had] \in DeviceSet
      BY <1>3, <1>5 DEF DeviceSet
    <3>2. /\ Devices' \in [E!Table -> DeviceSet] /\ \A i \in E!Table : i # D => Devices'[i] = Devices[i]
          /\ Devices'[D] = [Devices[D] EXCEPT !.owns = had]
      BY <1>3, <1>4, <2>3, <3>1
    <3> QED BY <1>3, <2>3, <3>2 DEF DeviceSet
  <2> QED BY <2>2, <2>3
<1>7. /\ enumPc' \in {"address", "release"} /\ faults' \in 0..MaxFaults
      /\ Dcbaa' \in [1..MaxSlots -> 0..USB_MAX_DEVICES]
      /\ \A t \in 1..MaxSlots : t # s => Dcbaa'[t] = Dcbaa[t]
      /\ enumPc' = "address" => Dcbaa'[s] = D /\ had = E!Contexts
  <2>1. faults' \in 0..MaxFaults /\ enumPc' \in {"address", "release"}
    BY <1>1, <1>4, DeviceFacts
  <2>2. D \in 0..USB_MAX_DEVICES /\ Dcbaa \in [1..MaxSlots -> 0..USB_MAX_DEVICES]
    BY <1>1, DeviceFacts DEF EnumTypes, DriverTypes
  <2> QED BY <1>3, <1>4, <2>1, <2>2
<1>8. EnumTypes'
  <2>1. EnumTypes /\ Devices[D].Used /\ Devices[D].Port \in Ports
    BY <1>1, DeviceFacts
  <2>2. DriverTypes'
    BY <1>2, <1>3, <1>6, <1>7, <2>1 DEF EnumTypes, DriverTypes, E!Table, WithSlot, WithContexts
  <2>3. ScratchTypes' /\ BoardTypes'
    BY <1>2, <2>1 DEF EnumTypes, ScratchTypes, BoardTypes, E!Table
  <2> QED BY <2>2, <2>3 DEF EnumTypes
<1>9. HasSlot' /\ NoSlotYet'
  BY <1>2, <1>3, <1>6, <1>7 DEF HasSlot, NoSlotYet
<1>10. ASSUME ~gaveUp' PROVE OwnSlots' /\ SlotsHeld' /\ MemoryReady'
  <2>1. OwnSlots /\ SlotsHeld /\ MemoryReady /\ EnumTypes
    BY <1>1, <1>2, <1>10, DeviceFacts DEF Holds
  <2>2. enumSlots[s].device = 0 /\ enumSlots[s].bulk = {} /\ enumSlots[s].enabled
    BY <1>1, <2>1, Mine DEF MemoryReady
  <2>3. OwnSlots' /\ SlotsHeld'
    BY <1>1, <1>2, <1>6, <1>7, <2>1, <2>2, DeviceFacts, OthersStay
  <2>4. MemoryReady'
    BY <1>2, <1>6, <1>7, <2>2 DEF MemoryReady, WithContexts
  <2> QED BY <2>3, <2>4
<1>11. Holds'
  BY <1>2, <1>3, <1>10 DEF Holds
<1>12. SuperIsFixed => SizeKnown'
  BY <1>1, <1>2, <1>6, <1>7 DEF DeviceInv, SizeKnown, WithSlot, WithContexts
<1> QED BY <1>8, <1>9, <1>11, <1>12 DEF DeviceInv

LEMMA OneOutcome ==
  ASSUME E!EnumerateConstants, EnumTypes, NEW c, E!Succeeds(c)
  PROVE  ~E!Refused(c) /\ ~E!GivenUp(c)
<1>1. faults \in Nat
  BY DEF EnumTypes, DriverTypes, E!EnumerateConstants
<1>2. E!Possible(c) /\ faults' = faults
  BY DEF E!Succeeds
<1>3. ~E!Fault
  BY <1>1, <1>2 DEF E!Fault
<1> QED BY <1>2, <1>3 DEF E!Refused, E!GivenUp

(* A command that does not succeed ends the bringing up.                   *)
LEMMA StepFails ==
  ASSUME E!EnumerateConstants, DeviceInv, enumPc \in WithContexts, NEW c \in CommandSet, ~E!Succeeds(c),
         E!Refused(c) \/ E!GivenUp(c), enumPc' = "release",
         UNCHANGED <<Devices, D, Scratch, Dcbaa, NewMps, calls, gadget, configured>>
  PROVE  DeviceInv'
<1>1. /\ EnumTypes /\ HasSlot /\ Holds
      /\ enumPc # "idle" /\ D \in E!Table /\ Devices[D].Used
  BY DeviceFacts DEF WithContexts
<1>2. /\ enumSlots' = enumSlots /\ late' \in Seq(CommandSet) /\ faults' \in 0..MaxFaults
          /\ gaveUp' \in BOOLEAN
      /\ ~gaveUp' => ~gaveUp /\ late' = late
  BY <1>1, Commanded
<1>3. EnumTypes'
  <2>1. DriverTypes'
    BY <1>1, <1>2 DEF EnumTypes, DriverTypes, E!Table, WithSlot, WithContexts
  <2>2. ScratchTypes' /\ BoardTypes'
    BY <1>1, <1>2 DEF EnumTypes, ScratchTypes, BoardTypes, E!Table
  <2> QED BY <2>1, <2>2 DEF EnumTypes
<1>4. HasSlot' /\ NoSlotYet' /\ Holds'
  <2>1. enumPc' \in (WithContexts \ {"address", "descriptor8"}) \cup {"release", "idle"}
          /\ enumPc' # "evaluate" /\ enumPc' \notin WithContexts
    BY DEF WithContexts
  <2> QED BY <1>1, <1>2, <2>1, Proceeds
<1>5. SizeKnown'
  BY DEF SizeKnown, WithSlot, WithContexts
<1> QED BY <1>3, <1>4, <1>5 DEF DeviceInv

(* One that succeeds changes the slot of the device at hand.               *)
LEMMA StepDone ==
  ASSUME E!EnumerateConstants, DeviceInv, enumPc \in WithContexts, NEW c \in CommandSet, E!Succeeds(c),
         c.slot = Devices[D].Slot, c.device = D,
         UNCHANGED <<D, Scratch, Dcbaa, NewMps, calls, gadget, configured>>,
         enumPc' \in {"descriptor8", "descriptor18", "set"},
         Devices' \in [E!Table -> DeviceSet], \A i \in E!Table : i # D => Devices'[i] = Devices[i],
         Devices'[D].Used, Devices'[D].Slot = Devices[D].Slot, Devices'[D].Port = Devices[D].Port,
         Devices'[D].owns = Devices[D].owns,
         \/ enumPc = "address" /\ c.kind = "address"
         \/ enumPc = "evaluate" /\ c.kind = "evaluate"
         \/ enumPc = "configure" /\ c.kind = "configure" /\ c.bulk = {Devices[D].BulkIn,
             Devices[D].BulkOut},
         enumPc' = "descriptor8" => enumPc = "address", SuperIsFixed => SizeKnown'
  PROVE  DeviceInv'
<1>1. /\ EnumTypes /\ HasSlot /\ Holds
      /\ enumPc # "idle" /\ D \in E!Table /\ Devices[D].Used /\ Devices[D].Port \in Ports
      /\ Devices[D].Slot \in 1..MaxSlots /\ enumPc \notin {"idle", "enable"}
  BY DeviceFacts DEF HasSlot, WithContexts, WithSlot
<1>2. /\ enumSlots' \in [1..MaxSlots -> SlotSet] /\ late' \in Seq(CommandSet) /\ faults' \in 0..MaxFaults
      /\ gaveUp' = gaveUp /\ gaveUp' \in BOOLEAN /\ late' = late /\ E!Execute(c)
  BY <1>1, Commanded
<1>3. EnumTypes'
  <2>1. enumPc' \in WithSlot
    BY DEF WithContexts, WithSlot
  <2>2. DriverTypes'
    BY <1>1, <1>2, <2>1 DEF EnumTypes, DriverTypes, E!Table
  <2>3. ScratchTypes' /\ BoardTypes'
    BY <1>1, <1>2 DEF EnumTypes, ScratchTypes, BoardTypes, E!Table
  <2> QED BY <2>2, <2>3 DEF EnumTypes
<1>4. HasSlot' /\ NoSlotYet' /\ Holds'
  <2> DEFINE a == enumSlots[Devices[D].Slot]
             b == enumSlots'[Devices[D].Slot]
  <2>1. /\ \A s \in 1..MaxSlots : s # Devices[D].Slot => enumSlots'[s] = enumSlots[s]
        /\ c.kind = "address" => b.enabled = a.enabled /\ b.device = D /\ b.bulk = a.bulk
        /\ c.kind = "evaluate" => b.enabled = a.enabled /\ b.device = a.device /\ b.bulk = a.bulk
        /\ c.kind = "configure" => b.enabled = a.enabled /\ b.device = a.device /\ b.bulk = c.bulk
    <3>1. c.slot \in 1..MaxSlots
      BY <1>1
    <3>2. PICK s : s = c.slot
      OBVIOUS
    <3>3. \A t \in 1..MaxSlots : t # s => enumSlots'[t] = enumSlots[t]
      BY <1>1, <1>2, <3>2, Executed
    <3>4. c.kind = "address" => enumSlots'[s].enabled = enumSlots[s].enabled
            /\ enumSlots'[s].device = c.device /\ enumSlots'[s].bulk = enumSlots[s].bulk
      BY <1>1, <1>2, <3>1, <3>2, Executed
    <3>5. c.kind = "evaluate" => enumSlots'[s].enabled = enumSlots[s].enabled
            /\ enumSlots'[s].device = enumSlots[s].device /\ enumSlots'[s].bulk = enumSlots[s].bulk
      BY <1>1, <1>2, <3>1, <3>2, Executed
    <3>6. c.kind = "configure" => enumSlots'[s].enabled = enumSlots[s].enabled
            /\ enumSlots'[s].device = enumSlots[s].device /\ enumSlots'[s].bulk = c.bulk
      BY <1>1, <1>2, <3>1, <3>2, Executed
    <3> QED BY <3>2, <3>3, <3>4, <3>5, <3>6
  <2>2. /\ b.enabled = a.enabled /\ b.device \in {a.device, D}
        /\ b.bulk = a.bulk \/ (enumPc = "configure" /\ b.bulk = {Devices[D].BulkIn, Devices[D].BulkOut})
        /\ enumPc \in {"address", "evaluate", "configure"}
        /\ enumPc' = "descriptor8" => b.device # 0
    BY <1>1, <2>1 DEF E!Table
  <2>3. ASSUME ~gaveUp PROVE {ep.addr : ep \in b.bulk} \subseteq Devices[D].owns
    <3>1. MemoryReady /\ OwnSlots /\ SlotsHeld
      BY <1>1, <2>3 DEF Holds
    <3>2. CASE enumPc = "configure"
      <4>1. {Devices[D].BulkIn.addr, Devices[D].BulkOut.addr} \subseteq Devices[D].owns
        BY <3>1, <3>2 DEF MemoryReady
      <4>3. b.bulk = {Devices[D].BulkIn, Devices[D].BulkOut}
        BY <2>1, <3>2
      <4> QED BY <4>1, <4>3
    <3>3. CASE enumPc = "address"
      BY <2>1, <3>1, <3>3 DEF MemoryReady
    <3>4. CASE enumPc = "evaluate"
      <4>1. a.device # 0
        BY <3>1, <3>4 DEF MemoryReady
      <4>2. {ep.addr : ep \in a.bulk} \subseteq Devices[D].owns
        BY <1>1, <3>1, <4>1, Mine
      <4> QED BY <2>1, <3>4, <4>2
    <3> QED BY <2>2, <3>2, <3>3, <3>4
  <2> HIDE DEF a, b
  <2>4. /\ enumSlots'[Devices[D].Slot].enabled = enumSlots[Devices[D].Slot].enabled
        /\ enumSlots'[Devices[D].Slot].device \in {enumSlots[Devices[D].Slot].device, D}
        /\ enumPc' = "descriptor8" => enumSlots'[Devices[D].Slot].device # 0
        /\ ~gaveUp => {ep.addr : ep \in enumSlots'[Devices[D].Slot].bulk} \subseteq Devices[D].owns
    BY <2>2, <2>3 DEF a, b
  <2> QED BY <1>1, <1>2, <2>1, <2>2, <2>4, ProceedsBy
<1> QED BY <1>3, <1>4 DEF DeviceInv

LEMMA AddressRight ==
  ASSUME E!EnumerateConstants, DeviceInv, E!AddressDevice
  PROVE  DeviceInv'
<1>1. enumPc = "address" /\ enumPc # "idle" /\ enumPc \in WithContexts /\ enumPc \in WithSlot
  BY DEF E!AddressDevice, WithContexts, WithSlot
<1> DEFINE g == gadget[Devices[D].Port]
<1>2. /\ D \in E!Table /\ Devices[D] \in DeviceSet /\ Devices \in [E!Table -> DeviceSet] /\ Devices[D].Used
      /\ Devices[D].Slot \in 0..MaxSlots /\ Devices[D].Slot \in 1..MaxSlots /\ EnumTypes
  BY <1>1, DeviceFacts DEF HasSlot
<1>3. PICK c \in CommandSet : /\ c = [E!Cmd("address", Devices[D].Slot) EXCEPT !.mps = Devices[D].Ep0Mps]
                              /\ c.kind = "address" /\ c.slot = Devices[D].Slot /\ c.device = D
                              /\ c.mps = Devices[D].Ep0Mps
  <2>1. E!Cmd("address", Devices[D].Slot) \in CommandSet
    BY <1>1, <1>2, CmdFacts
  <2>2. Devices[D].Ep0Mps \in Nat /\ {} \in SUBSET Endpoints
    BY <1>2 DEF DeviceSet
  <2>3. PICK k \in CommandSet : k = E!Cmd("address", Devices[D].Slot)
    BY <2>1
  <2>4. k.kind = "address" /\ k.slot = Devices[D].Slot /\ k.device = D
    BY <1>1, <1>2, <2>3, CmdFacts
  <2>5. PICK e : e = [k EXCEPT !.mps = Devices[D].Ep0Mps]
    OBVIOUS
  <2>6. e \in CommandSet /\ e.kind = k.kind /\ e.slot = k.slot /\ e.device = k.device
          /\ e.mps = Devices[D].Ep0Mps
    BY <2>2, <2>5, CmdWith
  <2> QED BY <2>3, <2>4, <2>5, <2>6
<1>4. /\ \/ E!Succeeds(c) /\ enumPc' = "descriptor8" /\ Devices' = Devices
         \/ (E!Refused(c) \/ E!GivenUp(c)) /\ enumPc' = "release" /\ Devices' = Devices
      /\ UNCHANGED <<D, Scratch, Dcbaa, NewMps, calls, gadget, configured>>
  BY <1>3 DEF E!AddressDevice, E!CommandStep, E!Fails, E!Here, E!devices
<1>5. CASE E!Succeeds(c)
  <2>1. enumPc' = "descriptor8"
    BY <1>2, <1>4, <1>5, OneOutcome
  <2>2. SuperIsFixed => SizeKnown'
    <3>1. enumSlots'[Devices[D].Slot].ep0 = c.mps
      <4>1. E!Execute(c) /\ c.slot \in 1..MaxSlots
        BY <1>2, <1>3, <1>5 DEF E!Succeeds
      <4>2. PICK s : s = c.slot
        OBVIOUS
      <4>3. enumSlots'[s].ep0 = c.mps
        BY <1>2, <1>3, <4>1, <4>2, Executed
      <4> QED BY <1>3, <4>2, <4>3
    <3>2. SuperIsFixed => Devices[D].Ep0Mps = E!FirstMps(g.speed) /\ Devices[D].Speed = g.speed
      BY <1>1 DEF DeviceInv, SizeKnown
    <3> QED BY <1>3, <1>4, <2>1, <3>1, <3>2 DEF SizeKnown
  <2> QED BY <1>1, <1>2, <1>3, <1>4, <1>5, <2>1, <2>2, StepDone
<1>6. CASE ~E!Succeeds(c)
  BY <1>1, <1>4, <1>6, StepFails
<1> QED BY <1>5, <1>6

LEMMA EvaluateRight ==
  ASSUME E!EnumerateConstants, DeviceInv, E!EvaluateContext
  PROVE  DeviceInv'
<1>1. enumPc = "evaluate" /\ enumPc # "idle" /\ enumPc \in WithContexts /\ enumPc \in WithSlot
  BY DEF E!EvaluateContext, WithContexts, WithSlot
<1> DEFINE g == gadget[Devices[D].Port]
<1>2. /\ D \in E!Table /\ Devices[D] \in DeviceSet /\ Devices \in [E!Table -> DeviceSet] /\ Devices[D].Used
      /\ Devices[D].Slot \in 0..MaxSlots /\ Devices[D].Slot \in 1..MaxSlots /\ EnumTypes
  BY <1>1, DeviceFacts DEF HasSlot
<1>3. PICK c \in CommandSet : /\ c = [E!Cmd("evaluate", Devices[D].Slot) EXCEPT !.mps = NewMps]
                              /\ c.kind = "evaluate" /\ c.slot = Devices[D].Slot /\ c.device = D
                              /\ c.mps = NewMps
  <2>1. E!Cmd("evaluate", Devices[D].Slot) \in CommandSet
    BY <1>1, <1>2, CmdFacts
  <2>2. NewMps \in Nat /\ {} \in SUBSET Endpoints
    BY <1>1, DeviceFacts
  <2>3. PICK k \in CommandSet : k = E!Cmd("evaluate", Devices[D].Slot)
    BY <2>1
  <2>4. k.kind = "evaluate" /\ k.slot = Devices[D].Slot /\ k.device = D
    BY <1>1, <1>2, <2>3, CmdFacts
  <2>5. PICK e : e = [k EXCEPT !.mps = NewMps]
    OBVIOUS
  <2>6. e \in CommandSet /\ e.kind = k.kind /\ e.slot = k.slot /\ e.device = k.device /\ e.mps = NewMps
    BY <2>2, <2>5, CmdWith
  <2> QED BY <2>3, <2>4, <2>5, <2>6
<1>4. /\ \/ /\ E!Succeeds(c) /\ enumPc' = "descriptor18"
            /\ Devices' = [Devices EXCEPT ![D].Ep0Mps = NewMps]
         \/ (E!Refused(c) \/ E!GivenUp(c)) /\ enumPc' = "release" /\ Devices' = Devices
      /\ UNCHANGED <<D, Scratch, Dcbaa, NewMps, calls, gadget, configured>>
  BY <1>3 DEF E!EvaluateContext, E!CommandStep, E!Fails, E!Here, E!devices
<1>5. CASE E!Succeeds(c)
  <2>1. enumPc' = "descriptor18" /\ Devices' = [Devices EXCEPT ![D].Ep0Mps = NewMps]
    BY <1>2, <1>4, <1>5, OneOutcome
  <2>2. /\ Devices' \in [E!Table -> DeviceSet] /\ \A i \in E!Table : i # D => Devices'[i] = Devices[i]
        /\ Devices'[D].Used /\ Devices'[D].Slot = Devices[D].Slot /\ Devices'[D].Port = Devices[D].Port
        /\ Devices'[D].owns = Devices[D].owns /\ Devices'[D].Speed = Devices[D].Speed
    <3>1. [Devices[D] EXCEPT !.Ep0Mps = NewMps] \in DeviceSet
      BY <1>1, <1>2, DeviceFacts DEF DeviceSet
    <3>2. /\ Devices' \in [E!Table -> DeviceSet] /\ \A i \in E!Table : i # D => Devices'[i] = Devices[i]
          /\ Devices'[D] = [Devices[D] EXCEPT !.Ep0Mps = NewMps]
      BY <1>2, <2>1, <3>1
    <3> QED BY <1>2, <3>2 DEF DeviceSet
  <2>3. SuperIsFixed => SizeKnown'
    <3>1. enumSlots'[Devices[D].Slot].ep0 = c.mps
      <4>1. E!Execute(c) /\ c.slot \in 1..MaxSlots
        BY <1>2, <1>3, <1>5 DEF E!Succeeds
      <4>2. PICK s : s = c.slot
        OBVIOUS
      <4>3. enumSlots'[s].ep0 = c.mps
        BY <1>2, <1>3, <4>1, <4>2, Executed
      <4> QED BY <1>3, <4>2, <4>3
    <3>2. SuperIsFixed => (~g.short => NewMps = g.mps0) /\ Devices[D].Speed = g.speed
      BY <1>1 DEF DeviceInv, SizeKnown
    <3> QED BY <1>3, <1>4, <2>1, <2>2, <3>1, <3>2 DEF SizeKnown
  <2> QED BY <1>1, <1>2, <1>3, <1>4, <1>5, <2>1, <2>2, <2>3, StepDone
<1>6. CASE ~E!Succeeds(c)
  BY <1>1, <1>4, <1>6, StepFails
<1> QED BY <1>5, <1>6

LEMMA ConfigureRight ==
  ASSUME E!EnumerateConstants, DeviceInv, E!ConfigureEndpoints
  PROVE  DeviceInv'
<1>1. enumPc = "configure" /\ enumPc # "idle" /\ enumPc \in WithContexts /\ enumPc \in WithSlot
  BY DEF E!ConfigureEndpoints, WithContexts, WithSlot
<1> DEFINE g == gadget[Devices[D].Port]
<1>2. /\ D \in E!Table /\ Devices[D] \in DeviceSet /\ Devices \in [E!Table -> DeviceSet] /\ Devices[D].Used
      /\ Devices[D].Slot \in 0..MaxSlots /\ Devices[D].Slot \in 1..MaxSlots /\ EnumTypes
  BY <1>1, DeviceFacts DEF HasSlot
<1>3. PICK c \in CommandSet : /\ c = [E!Cmd("configure", Devices[D].Slot)
                                  EXCEPT !.bulk = {Devices[D].BulkIn, Devices[D].BulkOut}]
                              /\ c.kind = "configure" /\ c.slot = Devices[D].Slot /\ c.device = D
                              /\ c.bulk = {Devices[D].BulkIn, Devices[D].BulkOut}
  <2>1. E!Cmd("configure", Devices[D].Slot) \in CommandSet
    BY <1>1, <1>2, CmdFacts
  <2>2. 0 \in Nat /\ {Devices[D].BulkIn, Devices[D].BulkOut} \in SUBSET Endpoints
    BY <1>2 DEF DeviceSet
  <2>3. PICK k \in CommandSet : k = E!Cmd("configure", Devices[D].Slot)
    BY <2>1
  <2>4. k.kind = "configure" /\ k.slot = Devices[D].Slot /\ k.device = D
    BY <1>1, <1>2, <2>3, CmdFacts
  <2>5. PICK e : e = [k EXCEPT !.bulk = {Devices[D].BulkIn, Devices[D].BulkOut}]
    OBVIOUS
  <2>6. e \in CommandSet /\ e.kind = k.kind /\ e.slot = k.slot /\ e.device = k.device
          /\ e.bulk = {Devices[D].BulkIn, Devices[D].BulkOut}
    BY <2>2, <2>5, CmdWith
  <2> QED BY <2>3, <2>4, <2>5, <2>6
<1>4. /\ \/ E!Succeeds(c) /\ enumPc' = "set" /\ Devices' = Devices
         \/ (E!Refused(c) \/ E!GivenUp(c)) /\ enumPc' = "release" /\ Devices' = Devices
      /\ UNCHANGED <<D, Scratch, Dcbaa, NewMps, calls, gadget, configured>>
  BY <1>3 DEF E!ConfigureEndpoints, E!CommandStep, E!Fails, E!Here, E!devices
<1>5. CASE E!Succeeds(c)
  <2>1. enumPc' = "set"
    BY <1>2, <1>4, <1>5, OneOutcome
  <2>2. SuperIsFixed => SizeKnown'
    <3>1. enumSlots'[Devices[D].Slot].ep0 = enumSlots[Devices[D].Slot].ep0
      <4>1. E!Execute(c) /\ c.slot \in 1..MaxSlots
        BY <1>2, <1>3, <1>5 DEF E!Succeeds
      <4>2. PICK s : s = c.slot
        OBVIOUS
      <4>3. c.kind = "configure" => enumSlots'[s].ep0 = enumSlots[s].ep0
        BY <1>2, <4>1, <4>2, Executed
      <4> QED BY <1>3, <4>2, <4>3
    <3>2. SuperIsFixed => (~g.short => enumSlots[Devices[D].Slot].ep0 = g.mps0)
            /\ Devices[D].Speed = g.speed
      BY <1>1 DEF DeviceInv, SizeKnown
    <3> QED BY <1>3, <1>4, <2>1, <3>1, <3>2 DEF SizeKnown
  <2> QED BY <1>1, <1>2, <1>3, <1>4, <1>5, <2>1, <2>2, StepDone
<1>6. CASE ~E!Succeeds(c)
  BY <1>1, <1>4, <1>6, StepFails
<1> QED BY <1>5, <1>6

LEMMA EnableRight ==
  ASSUME E!EnumerateConstants, DeviceInv, E!EnableSlot
  PROVE  DeviceInv'
<1>1. enumPc = "enable" /\ enumPc # "idle"
  BY DEF E!EnableSlot
<1>2. /\ D \in E!Table /\ Devices[D] \in DeviceSet /\ Devices \in [E!Table -> DeviceSet] /\ Devices[D].Used
      /\ Devices[D].Port \in Ports /\ EnumTypes /\ Holds /\ Devices[D].Slot = 0
  BY <1>1, DeviceFacts DEF NoSlotYet
<1>3. PICK c \in CommandSet : c = E!Cmd("enable", E!FreeSlot) /\ c.kind = "enable" /\ c.slot = E!FreeSlot
  BY <1>1, <1>2, CmdFacts, SlotFound
<1>4. /\ \/ /\ E!Succeeds(c) /\ Devices' = [Devices EXCEPT ![D].Slot = E!FreeSlot] /\ enumPc' = "memory"
         \/ /\ E!Refused(c) \/ E!GivenUp(c)
            /\ Devices' = [Devices EXCEPT ![D].Used = FALSE] /\ enumPc' = "idle"
      /\ UNCHANGED <<D, Scratch, Dcbaa, NewMps, calls, gadget, configured>>
  BY <1>3 DEF E!EnableSlot, E!devices
<1>5. /\ enumSlots' \in [1..MaxSlots -> SlotSet] /\ late' \in Seq(CommandSet) /\ faults' \in 0..MaxFaults
      /\ gaveUp' \in BOOLEAN /\ (~gaveUp' => ~gaveUp /\ late' = late)
      /\ E!Succeeds(c) => late' = <<>> /\ gaveUp' = gaveUp /\ E!Execute(c)
      /\ ~E!Succeeds(c) => enumSlots' = enumSlots
  BY <1>2, <1>4, Commanded
<1>6. enumPc' \in {"memory", "idle"} /\ (enumPc' = "memory" <=> E!Succeeds(c))
  BY <1>2, <1>4, OneOutcome
<1>7. E!Succeeds(c) => E!FreeSlot \in 1..MaxSlots /\ ~enumSlots[E!FreeSlot].enabled
  BY <1>3, SlotFound DEF E!Succeeds, E!Possible, E!FreeSlots
<1>8. /\ Devices' \in [E!Table -> DeviceSet] /\ \A i \in E!Table : i # D => Devices'[i] = Devices[i]
      /\ Devices'[D].Port = Devices[D].Port /\ Devices'[D].Speed = Devices[D].Speed
      /\ enumPc' = "memory" => Devices'[D].Slot = E!FreeSlot /\ Devices'[D].Used
      /\ enumPc' = "idle" => Devices'[D].Slot = 0 /\ ~Devices'[D].Used
  <2>1. CASE enumPc' = "memory"
    <3>1. [Devices[D] EXCEPT !.Slot = E!FreeSlot] \in DeviceSet
      BY <1>2, SlotFound DEF DeviceSet
    <3>2. /\ Devices' \in [E!Table -> DeviceSet] /\ \A i \in E!Table : i # D => Devices'[i] = Devices[i]
          /\ Devices'[D] = [Devices[D] EXCEPT !.Slot = E!FreeSlot]
      BY <1>2, <1>4, <2>1, <3>1
    <3> QED BY <1>2, <2>1, <3>2 DEF DeviceSet
  <2>2. CASE enumPc' = "idle"
    <3>1. [Devices[D] EXCEPT !.Used = FALSE] \in DeviceSet
      BY <1>2 DEF DeviceSet
    <3>2. /\ Devices' \in [E!Table -> DeviceSet] /\ \A i \in E!Table : i # D => Devices'[i] = Devices[i]
          /\ Devices'[D] = [Devices[D] EXCEPT !.Used = FALSE]
      BY <1>2, <1>4, <2>2, <3>1
    <3> QED BY <1>2, <2>2, <3>2 DEF DeviceSet
  <2> QED BY <1>6, <2>1, <2>2
<1>9. EnumTypes'
  <2>1. DriverTypes'
    BY <1>2, <1>4, <1>5, <1>6, <1>8 DEF EnumTypes, DriverTypes, E!Table, WithSlot
  <2>2. ScratchTypes' /\ BoardTypes'
    BY <1>2, <1>4, <1>5 DEF EnumTypes, ScratchTypes, BoardTypes, E!Table
  <2> QED BY <2>1, <2>2 DEF EnumTypes
<1>10. HasSlot' /\ NoSlotYet'
  BY <1>4, <1>5, <1>6, <1>7, <1>8 DEF HasSlot, NoSlotYet, WithSlot, WithContexts
<1>11. ASSUME ~gaveUp' PROVE late' = <<>> /\ OwnSlots' /\ SlotsHeld' /\ MemoryReady'
  <2>1. OwnSlots /\ SlotsHeld /\ late' = <<>>
    BY <1>2, <1>5, <1>11 DEF Holds
  <2>2. \A i \in E!Table : i # D /\ Devices[i].Used =>
          /\ Devices[i].Slot \in 1..MaxSlots /\ enumSlots[Devices[i].Slot].enabled
          /\ \A j \in E!Table : Devices[j].Used /\ Devices[j].Slot = Devices[i].Slot => i = j
    BY <2>1 DEF OwnSlots
  <2>3. \A s \in 1..MaxSlots : enumSlots[s].enabled =>
          \E i \in E!Table : i # D /\ HeldFor(s, i)
    <3> SUFFICES ASSUME NEW s \in 1..MaxSlots, enumSlots[s].enabled
                 PROVE  \E i \in E!Table : i # D /\ HeldFor(s, i)
      OBVIOUS
    <3>1. PICK i \in E!Table : HeldFor(s, i)
      BY <2>1 DEF SlotsHeld
    <3>2. i # D
      BY <1>2, <3>1 DEF HeldFor
    <3> QED BY <3>1, <3>2
  <2>4. CASE E!Succeeds(c)
    <3>1. /\ enumSlots'[E!FreeSlot].enabled = TRUE /\ enumSlots'[E!FreeSlot].device = 0
              /\ enumSlots'[E!FreeSlot].bulk = {}
          /\ \A s \in 1..MaxSlots : s # E!FreeSlot => enumSlots'[s] = enumSlots[s]
      <4>1. PICK t : t = E!FreeSlot
        OBVIOUS
      <4>2. E!Execute(c) /\ t \in 1..MaxSlots /\ c.slot = t
        BY <1>3, <1>5, <1>7, <2>4, <4>1
      <4>3. /\ enumSlots'[t].enabled = TRUE /\ enumSlots'[t].device = 0 /\ enumSlots'[t].bulk = {}
        BY <1>2, <1>3, <4>2, Executed
      <4>4. \A s \in 1..MaxSlots : s # t => enumSlots'[s] = enumSlots[s]
        BY <1>2, <4>2, Executed
      <4> QED BY <4>1, <4>3, <4>4
    <3>2. OwnSlots'
      <4> SUFFICES ASSUME NEW i \in E!Table, Devices'[i].Used
                   PROVE  /\ Devices'[i].Slot \in 1..MaxSlots /\ enumSlots'[Devices'[i].Slot].enabled
                          /\ \A j \in E!Table : Devices'[j].Used /\ Devices'[j].Slot = Devices'[i].Slot
                              => i = j
        BY DEF OwnSlots, E!Table
      <4>1. CASE i = D
        BY <1>6, <1>7, <1>8, <2>2, <2>4, <3>1, <4>1
      <4>2. CASE i # D
        BY <1>6, <1>7, <1>8, <2>2, <2>4, <3>1, <4>2
      <4> QED BY <4>1, <4>2
    <3>3. SlotsHeld'
      <4> SUFFICES ASSUME NEW s \in 1..MaxSlots, enumSlots'[s].enabled
                   PROVE  \E i \in E!Table : HeldFor(s, i)'
        BY DEF SlotsHeld, E!Table
      <4>1. CASE s = E!FreeSlot
        BY <1>2, <1>6, <1>8, <2>4, <3>1, <4>1 DEF HeldFor
      <4>2. CASE s # E!FreeSlot
        BY <1>4, <1>8, <2>3, <3>1, <4>2 DEF HeldFor
      <4> QED BY <4>1, <4>2
    <3>4. MemoryReady'
      BY <1>4, <1>6, <1>8, <2>4, <3>1 DEF MemoryReady, WithContexts
    <3> QED BY <2>1, <3>2, <3>3, <3>4
  <2>5. CASE ~E!Succeeds(c)
    <3>1. enumSlots' = enumSlots /\ Dcbaa' = Dcbaa /\ enumPc' = "idle"
      BY <1>4, <1>5, <1>6, <2>5
    <3>2. OwnSlots'
      <4> SUFFICES ASSUME NEW i \in E!Table, Devices'[i].Used
                   PROVE  /\ Devices'[i].Slot \in 1..MaxSlots /\ enumSlots'[Devices'[i].Slot].enabled
                          /\ \A j \in E!Table : Devices'[j].Used /\ Devices'[j].Slot = Devices'[i].Slot
                              => i = j
        BY DEF OwnSlots, E!Table
      <4>1. i # D
        BY <1>8, <3>1
      <4> QED BY <1>8, <2>2, <3>1, <4>1
    <3>3. SlotsHeld'
      <4> SUFFICES ASSUME NEW s \in 1..MaxSlots, enumSlots'[s].enabled
                   PROVE  \E i \in E!Table : HeldFor(s, i)'
        BY DEF SlotsHeld, E!Table
      <4> QED BY <1>8, <2>3, <3>1 DEF HeldFor
    <3>4. MemoryReady'
      BY <3>1 DEF MemoryReady, WithContexts
    <3> QED BY <2>1, <3>2, <3>3, <3>4
  <2> QED BY <2>4, <2>5
<1>12. SuperIsFixed => SizeKnown'
  BY <1>1, <1>4, <1>6, <1>8 DEF DeviceInv, SizeKnown, WithSlot, WithContexts
<1> QED BY <1>9, <1>10, <1>11, <1>12 DEF DeviceInv, Holds

LEMMA ReleaseRight ==
  ASSUME E!EnumerateConstants, DeviceInv, E!XhciRelease
  PROVE  DeviceInv'
<1>1. enumPc = "release" /\ enumPc # "idle" /\ enumPc # "enable" /\ enumPc' = "idle"
  BY DEF E!XhciRelease
<1> DEFINE s == Devices[D].Slot
<1>2. /\ D \in E!Table /\ Devices \in [E!Table -> DeviceSet] /\ Devices[D].Used
      /\ s \in 0..MaxSlots /\ EnumTypes /\ Holds
  BY <1>1, DeviceFacts
<1>3. PICK c \in CommandSet : c = E!Cmd("disable", s) /\ c.kind = "disable" /\ c.slot = s
  BY <1>1, <1>2, CmdFacts
<1>4. /\ E!Succeeds(c) \/ E!GivenUp(c)
      /\ Devices' = [Devices EXCEPT ![D] = E!Unused] /\ Dcbaa' = [Dcbaa EXCEPT ![s] = 0]
      /\ UNCHANGED <<D, Scratch, NewMps, calls, gadget, configured>>
  BY <1>3 DEF E!XhciRelease, E!Here, E!devices
<1>5. /\ enumSlots' \in [1..MaxSlots -> SlotSet] /\ late' \in Seq(CommandSet) /\ faults' \in 0..MaxFaults
      /\ gaveUp' \in BOOLEAN /\ (~gaveUp' => ~gaveUp /\ late' = late)
      /\ E!Succeeds(c) => late' = <<>> /\ E!Execute(c)
  BY <1>2, <1>4, Commanded
<1>6. /\ Devices' \in [E!Table -> DeviceSet] /\ ~Devices'[D].Used
      /\ \A i \in E!Table : i # D => Devices'[i] = Devices[i]
  BY <1>2, <1>4, FreshRecords
<1>7. /\ Dcbaa' \in [1..MaxSlots -> 0..USB_MAX_DEVICES]
      /\ \A t \in 1..MaxSlots : t # s => Dcbaa'[t] = Dcbaa[t]
  <2>1. Dcbaa \in [1..MaxSlots -> 0..USB_MAX_DEVICES] /\ 0 \in 0..USB_MAX_DEVICES
    BY <1>2 DEF EnumTypes, DriverTypes, E!EnumerateConstants
  <2> QED BY <1>4, <2>1
<1>8. EnumTypes'
  <2>1. DriverTypes'
    BY <1>1, <1>2, <1>4, <1>5, <1>6, <1>7 DEF EnumTypes, DriverTypes, E!Table
  <2>2. ScratchTypes' /\ BoardTypes'
    BY <1>2, <1>4, <1>5 DEF EnumTypes, ScratchTypes, BoardTypes, E!Table
  <2> QED BY <2>1, <2>2 DEF EnumTypes
<1>9. HasSlot' /\ NoSlotYet' /\ SizeKnown'
  BY <1>1 DEF HasSlot, NoSlotYet, SizeKnown, WithSlot, WithContexts
<1>10. ASSUME ~gaveUp' PROVE late' = <<>> /\ OwnSlots' /\ SlotsHeld' /\ MemoryReady'
  <2>1. OwnSlots /\ SlotsHeld /\ late' = <<>>
    BY <1>2, <1>5, <1>10 DEF Holds
  <2>2. E!Succeeds(c) /\ E!Execute(c)
    BY <1>4, <1>5, <1>10 DEF E!GivenUp
  <2>3. PICK t \in 1..MaxSlots : t = s
    BY <1>1, <1>2, <2>1, Mine
  <2>4. /\ enumSlots'[t].enabled = FALSE
        /\ \A r \in 1..MaxSlots : r # t => enumSlots'[r] = enumSlots[r]
    BY <1>2, <1>3, <2>2, <2>3, Executed
  <2>5. OwnSlots'
    <3> SUFFICES ASSUME NEW i \in E!Table, Devices'[i].Used
                 PROVE  /\ Devices'[i].Slot \in 1..MaxSlots /\ enumSlots'[Devices'[i].Slot].enabled
                        /\ \A j \in E!Table : Devices'[j].Used /\ Devices'[j].Slot = Devices'[i].Slot
                            => i = j
      BY DEF OwnSlots, E!Table
    <3>1. i # D /\ Devices'[i] = Devices[i]
      BY <1>6
    <3>2. /\ Devices[i].Slot \in 1..MaxSlots /\ enumSlots[Devices[i].Slot].enabled
          /\ \A j \in E!Table : Devices[j].Used /\ Devices[j].Slot = Devices[i].Slot => i = j
      BY <2>1, <3>1 DEF OwnSlots
    <3>3. Devices[i].Slot # t
      BY <1>2, <2>3, <3>1, <3>2
    <3> QED BY <1>6, <2>4, <3>1, <3>2, <3>3
  <2>6. SlotsHeld'
    <3> SUFFICES ASSUME NEW r \in 1..MaxSlots, enumSlots'[r].enabled
                 PROVE  \E i \in E!Table : HeldFor(r, i)'
      BY DEF SlotsHeld, E!Table
    <3>1. r # t /\ enumSlots'[r] = enumSlots[r] /\ Dcbaa'[r] = Dcbaa[r]
      BY <1>7, <2>3, <2>4
    <3>2. PICK i \in E!Table : HeldFor(r, i)
      BY <2>1, <3>1 DEF SlotsHeld
    <3>3. i # D
      BY <2>3, <3>1, <3>2 DEF HeldFor
    <3> QED BY <1>6, <3>1, <3>2, <3>3 DEF HeldFor
  <2>7. MemoryReady'
    BY <1>1 DEF MemoryReady, WithContexts
  <2> QED BY <2>1, <2>5, <2>6, <2>7
<1> QED BY <1>8, <1>9, <1>10 DEF DeviceInv, Holds

LEMMA UnpluggedRight ==
  ASSUME E!EnumerateConstants, DeviceInv, E!Unplugged
  PROVE  DeviceInv'
<1>1. enumPc = "idle" /\ calls < MaxCalls /\ calls' = calls + 1
  BY DEF E!Unplugged
<1>2. PICK i \in E!Table, g \in Gadgets :
        /\ Devices[i].Used /\ D' = i /\ enumPc' = "release"
        /\ gadget' = [gadget EXCEPT ![Devices[i].Port] = g]
        /\ configured' = configured \ {Devices[i].Port}
  BY DEF E!Unplugged
<1>3. UNCHANGED <<Devices, Scratch, Dcbaa, NewMps, faults, enumSlots, late, gaveUp>>
  BY DEF E!Unplugged
<1>4. EnumTypes'
  <2>1. DriverTypes /\ ScratchTypes /\ BoardTypes
    BY DEF DeviceInv, EnumTypes
  <2>2. calls' \in 0..MaxCalls
    BY <1>1, <2>1 DEF DriverTypes, E!EnumerateConstants
  <2>3. DriverTypes'
    BY <1>2, <1>3, <2>1, <2>2 DEF DriverTypes, E!Table
  <2>4. ScratchTypes' /\ BoardTypes'
    BY <1>2, <1>3, <2>1 DEF ScratchTypes, BoardTypes, E!Table
  <2> QED BY <2>3, <2>4 DEF EnumTypes
<1>5. HasSlot' /\ NoSlotYet' /\ SizeKnown'
  BY <1>2 DEF HasSlot, NoSlotYet, SizeKnown, WithSlot, WithContexts
<1>6. Holds'
  <2>1. ASSUME ~gaveUp' PROVE late' = <<>> /\ OwnSlots /\ SlotsHeld
    BY <1>3, <2>1 DEF DeviceInv, Holds
  <2>2. OwnSlots => OwnSlots'
    BY <1>1, <1>2, <1>3 DEF OwnSlots, E!Table
  <2>3. SlotsHeld => SlotsHeld'
    BY <1>3 DEF SlotsHeld, HeldFor, E!Table
  <2>4. MemoryReady'
    BY <1>2 DEF MemoryReady, WithContexts
  <2> QED BY <2>1, <2>2, <2>3, <2>4 DEF Holds
<1> QED BY <1>4, <1>5, <1>6 DEF DeviceInv

LEMMA BroughtUpRight ==
  ASSUME E!EnumerateConstants, DeviceInv, E!PortBroughtUp
  PROVE  DeviceInv'
<1>1. enumPc = "idle" /\ calls < MaxCalls /\ calls' = calls + 1 /\ enumPc' = "enable"
  BY DEF E!PortBroughtUp
<1> DEFINE F == E!FindFreeDevice
<1>2. F \in E!Table /\ ~Devices[F].Used
  BY EntryFound DEF E!PortBroughtUp
<1>3. PICK p \in Ports :
        /\ D' = F /\ configured' \in {configured, configured \ {p}}
        /\ Devices' = [Devices EXCEPT ![F] = [E!Unused EXCEPT !.Used = TRUE, !.Port = p,
            !.Speed = gadget[p].speed]]
  BY DEF E!PortBroughtUp, E!ResetPort
<1>4. UNCHANGED <<Scratch, Dcbaa, NewMps, faults, enumSlots, late, gadget, gaveUp>>
  BY DEF E!PortBroughtUp
<1>5. DriverTypes /\ ScratchTypes /\ BoardTypes
  BY DEF DeviceInv, EnumTypes
<1>6. /\ Devices' \in [E!Table -> DeviceSet] /\ \A i \in E!Table : i # F => Devices'[i] = Devices[i]
      /\ Devices'[F].Used /\ Devices'[F].Slot = 0 /\ Devices'[F].Port = p
      /\ Devices'[F].Speed = gadget[p].speed
  <2>1. gadget[p].speed \in Speeds
    <3>1. gadget[p] \in Gadgets
      BY <1>5 DEF BoardTypes
    <3> QED BY <3>1, GadgetFacts
  <2>2. PICK e \in DeviceSet :
          /\ e = [E!Unused EXCEPT !.Used = TRUE, !.Port = p, !.Speed = gadget[p].speed]
          /\ e.Used = TRUE /\ e.Port = p /\ e.Speed = gadget[p].speed /\ e.Slot = 0
    <3>1. PICK sp \in Speeds : sp = gadget[p].speed
      BY <2>1
    <3>2. PICK e : e = [E!Unused EXCEPT !.Used = TRUE, !.Port = p, !.Speed = sp]
      OBVIOUS
    <3>3. e \in DeviceSet /\ e.Used = TRUE /\ e.Port = p /\ e.Speed = sp /\ e.Slot = 0
      BY <3>2, NewDevice
    <3> QED BY <3>1, <3>2, <3>3
  <2>3. Devices' = [Devices EXCEPT ![F] = e] /\ Devices \in [E!Table -> DeviceSet]
    BY <1>3, <1>5, <2>2 DEF DriverTypes
  <2> HIDE DEF F
  <2>4. /\ Devices' \in [E!Table -> DeviceSet] /\ Devices'[F] = e
        /\ \A i \in E!Table : i # F => Devices'[i] = Devices[i]
    BY <1>2, <2>3
  <2> QED BY <2>2, <2>4
<1> HIDE DEF F
<1>7. EnumTypes'
  <2>1. calls' \in 0..MaxCalls
    BY <1>1, <1>5 DEF DriverTypes, E!EnumerateConstants
  <2>2. F \in 0..USB_MAX_DEVICES
    BY <1>2 DEF E!Table
  <2>3. DriverTypes'
    BY <1>1, <1>2, <1>3, <1>4, <1>5, <1>6, <2>1, <2>2 DEF DriverTypes, E!Table
  <2>4. ScratchTypes' /\ BoardTypes'
    BY <1>3, <1>4, <1>5 DEF ScratchTypes, BoardTypes, E!Table
  <2> QED BY <2>3, <2>4 DEF EnumTypes
<1>8. HasSlot' /\ NoSlotYet' /\ SizeKnown'
  BY <1>1, <1>2, <1>3, <1>4, <1>6 DEF HasSlot, NoSlotYet, SizeKnown, WithSlot, WithContexts
<1>9. Holds'
  <2>1. ASSUME ~gaveUp' PROVE late' = <<>> /\ OwnSlots /\ SlotsHeld
    BY <1>4, <2>1 DEF DeviceInv, Holds
  <2>2. ASSUME OwnSlots PROVE OwnSlots'
    <3> SUFFICES ASSUME NEW i \in E!Table, Devices'[i].Used, i # F
                 PROVE  /\ Devices'[i].Slot \in 1..MaxSlots /\ enumSlots'[Devices'[i].Slot].enabled
                        /\ \A j \in E!Table : Devices'[j].Used /\ Devices'[j].Slot = Devices'[i].Slot
                            => i = j
      BY <1>1, <1>3 DEF OwnSlots, E!Table
    <3>1. Devices[i].Used /\ Devices'[i] = Devices[i]
      BY <1>6
    <3>2. /\ Devices[i].Slot \in 1..MaxSlots /\ enumSlots[Devices[i].Slot].enabled
          /\ \A j \in E!Table : Devices[j].Used /\ Devices[j].Slot = Devices[i].Slot => i = j
      BY <1>1, <2>2, <3>1 DEF OwnSlots
    <3> QED BY <1>4, <1>6, <3>1, <3>2
  <2>3. ASSUME SlotsHeld PROVE SlotsHeld'
    <3> SUFFICES ASSUME NEW s \in 1..MaxSlots, enumSlots'[s].enabled
                 PROVE  \E i \in E!Table : HeldFor(s, i)'
      BY DEF SlotsHeld, E!Table
    <3>1. PICK i \in E!Table : HeldFor(s, i)
      BY <1>4, <2>3 DEF SlotsHeld
    <3>2. i # F
      BY <1>2, <3>1 DEF HeldFor
    <3> QED BY <1>4, <1>6, <3>1, <3>2 DEF HeldFor
  <2>4. MemoryReady'
    BY <1>1 DEF MemoryReady, WithContexts
  <2> QED BY <2>1, <2>2, <2>3, <2>4 DEF Holds
<1> QED BY <1>7, <1>8, <1>9 DEF DeviceInv

LEMMA LateRight ==
  ASSUME E!EnumerateConstants, DeviceInv, E!Late
  PROVE  DeviceInv'
<1>1. EnumTypes /\ HasSlot /\ NoSlotYet /\ Holds /\ (SuperIsFixed => SizeKnown)
  BY DEF DeviceInv
<1>2. /\ late # <<>> /\ late' = Tail(late)
      /\ UNCHANGED <<Devices, D, enumPc, Scratch, Dcbaa, NewMps, calls, faults, gadget, configured, gaveUp>>
  BY DEF E!Late, E!driver, E!devices
<1>3. late \in Seq(CommandSet) /\ Head(late) \in CommandSet /\ late' \in Seq(CommandSet)
  BY <1>1, <1>2, HeadTailProperties DEF EnumTypes, BoardTypes
<1>4. enumSlots' \in [1..MaxSlots -> SlotSet]
  <2>1. CASE enumSlots' = enumSlots
    BY <1>1, <2>1 DEF EnumTypes, BoardTypes
  <2>2. CASE enumSlots' # enumSlots
    <3>1. PICK h \in CommandSet : h = Head(late)
      BY <1>3
    <3>2. E!Execute(IF h.kind = "enable" THEN [h EXCEPT !.slot = E!FreeSlot] ELSE h)
      BY <2>2, <3>1 DEF E!Late
    <3>3. [h EXCEPT !.slot = E!FreeSlot] \in CommandSet
      BY SlotFound DEF CommandSet
    <3>4. PICK c \in CommandSet : E!Execute(c)
      BY <3>2, <3>3
    <3> QED BY <1>1, <3>4, Executed
  <2> QED BY <2>1, <2>2
<1>5. gaveUp /\ enumPc \notin WithSlot
  BY <1>1, <1>2 DEF Holds, HasSlot, EnumTypes, BoardTypes
<1>6. EnumTypes'
  BY <1>1, <1>2, <1>3, <1>4 DEF EnumTypes, DriverTypes, ScratchTypes, BoardTypes, E!Table
<1>7. HasSlot' /\ NoSlotYet' /\ Holds'
  BY <1>1, <1>2, <1>5 DEF HasSlot, NoSlotYet, Holds
<1>8. SuperIsFixed => SizeKnown'
  BY <1>1, <1>2, <1>5 DEF SizeKnown, WithSlot, WithContexts
<1> QED BY <1>6, <1>7, <1>8 DEF DeviceInv

LEMMA DevicesStart ==
  ASSUME E!EnumerateConstants, E!Init
  PROVE  DeviceInv
<1>1. EnumTypes
  <2>1. DriverTypes
    <3>1. Devices \in [E!Table -> DeviceSet]
      BY FreshRecords DEF E!Init
    <3>2. Dcbaa \in [1..MaxSlots -> 0..USB_MAX_DEVICES] /\ D \in 0..USB_MAX_DEVICES
      BY DEF E!Init, E!EnumerateConstants
    <3>3. NewMps \in Nat /\ calls \in 0..MaxCalls /\ faults \in 0..MaxFaults /\ enumPc = "idle"
      BY DEF E!Init, E!EnumerateConstants
    <3>4. \A i \in E!Table : Devices[i].Used = FALSE
      BY FreshRecords DEF E!Init
    <3> QED BY <3>1, <3>2, <3>3, <3>4 DEF DriverTypes
  <2>2. ScratchTypes
    BY DEF E!Init, ScratchTypes, E!Nothing
  <2>3. BoardTypes
    <3>1. enumSlots \in [1..MaxSlots -> SlotSet]
      BY FreshRecords DEF E!Init
    <3>2. late \in Seq(CommandSet)
      BY EmptySeq DEF E!Init
    <3>3. gadget \in [Ports -> Gadgets] /\ configured \subseteq Ports /\ gaveUp \in BOOLEAN
      BY DEF E!Init
    <3> QED BY <3>1, <3>2, <3>3 DEF BoardTypes
  <2> QED BY <2>1, <2>2, <2>3 DEF EnumTypes
<1>2. enumPc = "idle" /\ late = <<>>
  BY DEF E!Init
<1>3. \A i \in E!Table : Devices[i].Used = FALSE
  BY FreshRecords DEF E!Init
<1>4. \A s \in 1..MaxSlots : enumSlots[s].enabled = FALSE
  BY FreshRecords DEF E!Init
<1>5. HasSlot /\ NoSlotYet /\ SizeKnown /\ MemoryReady
  BY <1>2 DEF HasSlot, NoSlotYet, SizeKnown, MemoryReady, WithSlot, WithContexts
<1>6. OwnSlots /\ SlotsHeld
  BY <1>3, <1>4 DEF OwnSlots, SlotsHeld
<1> QED BY <1>1, <1>2, <1>5, <1>6 DEF DeviceInv, Holds

LEMMA DevicesRest ==
  ASSUME DeviceInv, UNCHANGED E!vars
  PROVE  DeviceInv'
<1>1. UNCHANGED <<Devices, D, enumPc, Scratch, Dcbaa, NewMps, calls, faults, enumSlots, late, gadget,
        configured, gaveUp>>
  BY DEF E!vars, E!driver, E!devices, E!history
<1>2. EnumTypes'
  BY <1>1 DEF DeviceInv, EnumTypes, DriverTypes, ScratchTypes, BoardTypes, E!Table
<1>3. HasSlot' /\ NoSlotYet' /\ (SuperIsFixed => SizeKnown')
  BY <1>1 DEF DeviceInv, HasSlot, NoSlotYet, SizeKnown, WithSlot, WithContexts
<1>4. (OwnSlots => OwnSlots') /\ (SlotsHeld => SlotsHeld') /\ (MemoryReady => MemoryReady')
  BY <1>1 DEF OwnSlots, SlotsHeld, HeldFor, MemoryReady, E!Table
<1>5. Holds'
  BY <1>1, <1>4 DEF DeviceInv, Holds
<1> QED BY <1>2, <1>3, <1>5 DEF DeviceInv

LEMMA DevicesStep ==
  ASSUME E!EnumerateConstants, DeviceInv, [E!Next]_(E!vars)
  PROVE  DeviceInv'
<1>1. CASE E!EnumeratePort
  BY <1>1, BroughtUpRight, EnableRight, MemoryRight, AddressRight, Descriptor8Right, EvaluateRight,
     Descriptor18Right, Config9Right, ConfigRight, BulkRingsRight, ConfigureRight, ConfigurationRight
     DEF E!EnumeratePort
<1>2. CASE E!XhciRelease
  BY <1>2, ReleaseRight
<1>3. CASE E!Unplugged
  BY <1>3, UnpluggedRight
<1>4. CASE E!Late
  BY <1>4, LateRight
<1>5. CASE UNCHANGED E!vars
  BY <1>5, DevicesRest
<1> QED BY <1>1, <1>2, <1>3, <1>4, <1>5 DEF E!Next

LEMMA DevicesMean ==
  ASSUME E!EnumerateConstants, DeviceInv
  PROVE  E!TypeOK /\ E!MemoryIsHeld /\ (SuperIsFixed => E!PacketSizeKnown)
<1>1. EnumTypes /\ Holds /\ (SuperIsFixed => SizeKnown)
  BY DEF DeviceInv
<1>2. E!TypeOK
  BY <1>1 DEF E!TypeOK, EnumTypes, DriverTypes, BoardTypes, DeviceSet
<1>3. E!MemoryIsHeld
  <2> SUFFICES ASSUME ~gaveUp, NEW s \in (1..MaxSlots) \ E!FreeSlots
               PROVE  \E i \in E!Table :
                        /\ Devices[i].Used /\ Devices[i].Slot = s
                        /\ enumSlots[s].device # 0 =>
                             /\ enumSlots[s].device = i /\ Dcbaa[s] = i
                             /\ E!Contexts \cup {ep.addr : ep \in enumSlots[s].bulk} \subseteq Devices[i].owns
    BY DEF E!MemoryIsHeld
  <2>1. s \in 1..MaxSlots /\ enumSlots[s].enabled
    BY DEF E!FreeSlots
  <2> QED BY <1>1, <2>1 DEF Holds, SlotsHeld, HeldFor
<1>4. SuperIsFixed => E!PacketSizeKnown
  BY <1>1 DEF SizeKnown, E!PacketSizeKnown, E!Here, E!There
<1> QED BY <1>2, <1>3, <1>4

------------------------------------------------------------------------------
(* The whole. *)

(* Every behaviour of the composition is one of the transfers and one of   *)
(* the protocol above them (MCUsb puts them side by side).                 *)
LEMMA EachPartIsItself == UsbSpec => Spec /\ B!Spec
<1>1. UsbInit => Init /\ B!Init
  BY DEF UsbInit
<1>2. [UsbNext]_all => [Next]_vars /\ [B!Next]_(B!vars)
  <2> SUFFICES ASSUME [UsbNext]_all PROVE [Next]_vars /\ [B!Next]_(B!vars)
    OBVIOUS
  <2>1. UNCHANGED bot => UNCHANGED B!vars
    BY DEF bot, B!vars, B!caller, B!drive
  <2>2. CASE XhciOnly /\ Next
    BY <2>1, <2>2 DEF XhciOnly
  <2>3. CASE BotOnly /\ B!Next
    BY <2>3 DEF BotOnly
  <2>4. CASE EnumerateOnly /\ E!Next
    BY <2>1, <2>4 DEF EnumerateOnly
  <2>5. CASE UNCHANGED all
    BY <2>1, <2>5 DEF all
  <2> QED BY <2>2, <2>3, <2>4, <2>5 DEF UsbNext
<1> QED BY <1>1, <1>2, PTL DEF UsbSpec, Spec, B!Spec

LEMMA BusInvariant == UsbSpec => []BusInv
<1>1. Init => BusInv
  BY BusStarts
<1>2. BusInv /\ [Next]_vars => BusInv'
  BY BusSteps
<1> QED BY <1>1, <1>2, EachPartIsItself, PTL DEF Spec

LEMMA BotInvariant == UsbSpec => [](BotSafe /\ BotClean)
<1>1. B!Init => BotSafe /\ BotClean
  BY ProtocolConstants, BotStarts
<1>2. BotSafe /\ BotClean /\ [B!Next]_(B!vars) => (BotSafe /\ BotClean)'
  BY ProtocolConstants, BotSteps
<1> QED BY <1>1, <1>2, EachPartIsItself, PTL DEF B!Spec

LEMMA DevicesInvariant == UsbSpec => [](part = "enumerate" => DeviceInv)
<1>1. UsbInit => (part = "enumerate" => DeviceInv)
  BY DeviceConstants, DevicesStart DEF UsbInit
<1>2. (part = "enumerate" => DeviceInv) /\ [UsbNext]_all => (part = "enumerate" => DeviceInv)'
  <2> SUFFICES ASSUME part = "enumerate" => DeviceInv, [UsbNext]_all, part' = "enumerate"
               PROVE  DeviceInv'
    OBVIOUS
  <2>1. CASE EnumerateOnly /\ E!Next
    BY <2>1, DeviceConstants, DevicesStep DEF EnumerateOnly
  <2>2. CASE UNCHANGED all
    <3>1. UNCHANGED E!vars /\ part = "enumerate"
      BY <2>2 DEF all, enumerate, E!vars, E!driver, E!devices, E!history
    <3> QED BY <3>1, DevicesRest
  <2>3. CASE (XhciOnly /\ Next) \/ (BotOnly /\ B!Next)
    BY <2>3 DEF XhciOnly, BotOnly
  <2> QED BY <2>1, <2>2, <2>3 DEF UsbNext
<1> QED BY <1>1, <1>2, PTL DEF UsbSpec

(* The variables keep their types; the controller runs no TRB but those of *)
(* the transfer at hand and the cycle bit tells new events from old ones   *)
(* (RingPush, PopEvent, RecoverEndpoint); drive and driver are back in     *)
(* step whenever a status is returned (Bot).                               *)
THEOREM UsbIsSound == UsbSpec => []StateSound
<1>1. BusInv => TypeOK /\ OnlyCurrentRuns /\ CycleTellsNew
  BY BusTypes, BusRight
<1>2. BotSafe => B!TypeOK /\ B!BackInStep
  BY ProtocolConstants, BotMeans
<1>3. (part = "enumerate" => DeviceInv) => (part = "enumerate" => E!TypeOK)
  BY DeviceConstants, DevicesMean
<1>4. BusInv /\ BotSafe /\ (part = "enumerate" => DeviceInv) => StateSound
  BY <1>1, <1>2, <1>3 DEF StateSound
<1> QED BY <1>4, BusInvariant, BotInvariant, DevicesInvariant, PTL

(* A transfer that reports success is the one that was asked for (BulkTd), *)
(* in every session in which the controller answers commands in time:      *)
(* RecoverEndpoint goes on without an answer otherwise.  A read that       *)
(* reports success has the bytes of its own command (MscRead).             *)
THEOREM AnswersRight == UsbSpec => [](~session.commandsTimeOut => AnswersAreOwn)
<1>1. BusInv => (Patient => OkIsOwn)
  BY BusRight DEF BusInv, EventTypes, CallTypes, ControllerTypes, Patient
<1>2. BotSafe => B!ReadIsOwn
  BY ProtocolConstants, BotMeans
<1>3. BusInv /\ BotSafe => (~session.commandsTimeOut => AnswersAreOwn)
  BY <1>1, <1>2 DEF AnswersAreOwn, Patient
<1> QED BY <1>3, BusInvariant, BotInvariant, PTL

(* A call during which nothing goes wrong succeeds, whatever earlier ones  *)
(* left in the drive, if the drive is asked twice at least whether it is   *)
(* ready (ProbeLun asks 25 times).                                         *)
THEOREM CleanCallsSucceed == ReadyTries > 1 => (UsbSpec => []CleanCallSucceeds)
<1> SUFFICES ASSUME ReadyTries > 1 PROVE UsbSpec => []CleanCallSucceeds
  OBVIOUS
<1>1. BotClean => CleanCallSucceeds
  BY DEF BotClean, CleanCallSucceeds
<1> QED BY <1>1, BotInvariant, PTL

(* Until a command was given up the controller uses no context and no ring *)
(* but those the driver holds for the device in that slot, and no slot     *)
(* stays enabled that no device has (EnumeratePort, XhciRelease).          *)
THEOREM MemoryStaysHeld == UsbSpec => [](part = "enumerate" => E!MemoryIsHeld)
<1>1. (part = "enumerate" => DeviceInv) => (part = "enumerate" => E!MemoryIsHeld)
  BY DeviceConstants, DevicesMean
<1> QED BY <1>1, DevicesInvariant, PTL

(* No control transfer longer than eight bytes is asked of a device whose  *)
(* packet size the controller has wrong, whatever was given up before, if  *)
(* that of a super speed device is the one USB 3 fixes.                    *)
THEOREM PacketSizesKnown == SuperIsFixed => (UsbSpec => [](part = "enumerate" => E!PacketSizeKnown))
<1> SUFFICES ASSUME SuperIsFixed PROVE UsbSpec => [](part = "enumerate" => E!PacketSizeKnown)
  OBVIOUS
<1>1. (part = "enumerate" => DeviceInv) => (part = "enumerate" => E!PacketSizeKnown)
  BY DeviceConstants, DevicesMean
<1> QED BY <1>1, DevicesInvariant, PTL
==============================================================================
