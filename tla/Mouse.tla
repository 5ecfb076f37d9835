-------------------------------- MODULE Mouse --------------------------------
(***************************************************************************)
(* The PS/2 mouse: packets of three bytes put together by the interrupt    *)
(* handler of mouse.c, and the main loop's UiPollMouse, whose calls        *)
(* MouseGetDelta and MouseTakePressed read and clear what the handler      *)
(* accumulates, with the interrupt free to come between any two steps.     *)
(* A motion is the number of the packet that carried it, a sum of motions  *)
(* the set of those numbers.                                               *)
(***************************************************************************)
EXTENDS Naturals, Sequences

CONSTANTS
  Buttons,
  MaxPackets,   (* bound: packets the mouse sends   *)
  MaxLost       (* bound: bytes lost on the way     *)

MouseConstants == MaxPackets \in Nat /\ MaxLost \in Nat

VARIABLES
  \* the mouse (external)
  held,         (* buttons down, as of the last packet sent               *)
  wire, sent, lost,
  pause,        (* no byte has come for more than 20 ticks                *)
  intact,       (* packets sent, and no byte lost, since the last pause   *)
  pressed,      (* pressed[b]: presses of b that were sent                *)
  \* mouse.c, interrupt side
  PacketIndex, PacketBytes, LastButtonState,
  AccumDx, AccumDy, MouseButtons, PressedLatch, MouseDataReady,
  \* the main loop in UiPollMouse
  pc, dx, dy, latch,
  moved,        (* packets whose motion has been returned, per axis       *)
  reported      (* reported[b]: times b was returned as pressed           *)

mouse == <<held, sent, lost, intact, pressed>>
packet == <<PacketIndex, PacketBytes, LastButtonState>>
shared == <<AccumDx, AccumDy, MouseButtons, PressedLatch, MouseDataReady>>
poll == <<pc, dx, dy, latch, moved, reported>>
vars == <<mouse, wire, pause, packet, shared, poll>>

NoByte == [sync |-> FALSE, btn |-> {}, id |-> 0]

Init ==
  /\ held = {} /\ wire = <<>> /\ sent = 0 /\ lost = 0 /\ pause = TRUE
  /\ intact = FALSE /\ pressed = [b \in Buttons |-> 0]
  /\ PacketIndex = 0 /\ PacketBytes = NoByte /\ LastButtonState = {}
  /\ AccumDx = {} /\ AccumDy = {} /\ MouseButtons = {} /\ PressedLatch = {}
  /\ MouseDataReady = FALSE
  /\ pc = "idle" /\ dx = {} /\ dy = {} /\ latch = {}
  /\ moved = [x |-> {}, y |-> {}] /\ reported = [b \in Buttons |-> 0]

------------------------------------------------------------------------------
(* The mouse.  Bit 3 is set in the first byte of a packet and may be set   *)
(* in the two that follow, whose other bits then look like buttons.        *)

Plain(n) == [sync |-> FALSE, btn |-> {}, id |-> n]
Likeness(n) == [sync |-> TRUE, btn |-> Buttons, id |-> n]

SendPacket ==
  /\ sent < MaxPackets /\ sent' = sent + 1
  /\ \E btn \in SUBSET Buttons, d1, d2 \in {Plain(sent + 1), Likeness(sent + 1)} :
       /\ wire' = wire \o <<[sync |-> TRUE, btn |-> btn, id |-> sent + 1], d1, d2>>
       /\ held' = btn
       /\ pressed' = [b \in Buttons |-> IF b \in btn \ held THEN pressed[b] + 1 ELSE pressed[b]]
  /\ intact' = (intact \/ (pause /\ wire = <<>>))
  /\ UNCHANGED <<lost, pause, packet, shared, poll>>

(* A byte that another reader of the controller takes: the keyboard's      *)
(* handler discards what comes from the mouse.                             *)
LoseByte ==
  /\ wire # <<>> /\ lost < MaxLost
  /\ lost' = lost + 1
  /\ wire' = Tail(wire)
  /\ intact' = FALSE
  /\ UNCHANGED <<held, sent, pressed, pause, packet, shared, poll>>

Quiet ==
  /\ wire = <<>> /\ ~pause
  /\ pause' = TRUE
  /\ UNCHANGED <<mouse, wire, packet, shared, poll>>

------------------------------------------------------------------------------
(* The interrupt handler. *)

(* Mutant: a packet is never given up. *)
IndexNoTimeout == PacketIndex

(* A packet whose next byte is late is given up. *)
Index == IF PacketIndex # 0 /\ pause THEN 0 ELSE PacketIndex

NewlyPressed(btn) == btn \ LastButtonState

Decode(first) ==
  /\ AccumDx' = AccumDx \cup {first.id}
  /\ AccumDy' = AccumDy \cup {first.id}
  /\ MouseButtons' = first.btn
  /\ PressedLatch' = PressedLatch \cup NewlyPressed(first.btn)
  /\ LastButtonState' = first.btn
  /\ MouseDataReady' = TRUE

MouseIrqHandler ==
  /\ wire # <<>>
  /\ wire' = Tail(wire)
  /\ pause' = FALSE
  /\ \/ /\ Index = 0 /\ ~Head(wire).sync
        /\ PacketIndex' = 0
        /\ UNCHANGED <<PacketBytes, LastButtonState, shared>>
     \/ /\ Index = 0 /\ Head(wire).sync
        /\ PacketIndex' = 1 /\ PacketBytes' = Head(wire)
        /\ UNCHANGED <<LastButtonState, shared>>
     \/ /\ Index = 1
        /\ PacketIndex' = 2
        /\ UNCHANGED <<PacketBytes, LastButtonState, shared>>
     \/ /\ Index = 2
        /\ PacketIndex' = 0
        /\ Decode(PacketBytes)
        /\ UNCHANGED PacketBytes
  /\ UNCHANGED <<mouse, poll>>

------------------------------------------------------------------------------
(* UiPollMouse, one access to a shared variable per step. *)

At(label, next) == pc = label /\ pc' = next

TestReady ==
  /\ pc = "idle"
  /\ pc' = IF MouseDataReady THEN "readDx" ELSE "take"
  /\ UNCHANGED <<dx, dy, latch, moved, reported, shared>>

ReadDx ==
  /\ At("readDx", "readDy")
  /\ dx' = AccumDx
  /\ UNCHANGED <<dy, latch, moved, reported, shared>>

ReadDy ==
  /\ At("readDy", "clearDx")
  /\ dy' = AccumDy
  /\ UNCHANGED <<dx, latch, moved, reported, shared>>

ClearDx ==
  /\ At("clearDx", "clearDy")
  /\ AccumDx' = {}
  /\ UNCHANGED <<dx, dy, latch, moved, reported>>
  /\ UNCHANGED <<AccumDy, MouseButtons, PressedLatch, MouseDataReady>>

ClearDy ==
  /\ At("clearDy", "clearReady")
  /\ AccumDy' = {}
  /\ UNCHANGED <<dx, dy, latch, moved, reported>>
  /\ UNCHANGED <<AccumDx, MouseButtons, PressedLatch, MouseDataReady>>

(* MouseGetDelta returns. *)
ClearReady ==
  /\ At("clearReady", "take")
  /\ MouseDataReady' = FALSE
  /\ moved' = [x |-> moved.x \cup dx, y |-> moved.y \cup dy]
  /\ dx' = {} /\ dy' = {}
  /\ UNCHANGED <<latch, reported>>
  /\ UNCHANGED <<AccumDx, AccumDy, MouseButtons, PressedLatch>>

TakePressed ==
  /\ At("take", "clearLatch")
  /\ latch' = PressedLatch
  /\ UNCHANGED <<dx, dy, moved, reported, shared>>

(* MouseTakePressed returns. *)
ClearLatch ==
  /\ At("clearLatch", "idle")
  /\ PressedLatch' = {}
  /\ reported' = [b \in Buttons |-> IF b \in latch THEN reported[b] + 1 ELSE reported[b]]
  /\ latch' = {}
  /\ UNCHANGED <<dx, dy, moved>>
  /\ UNCHANGED <<AccumDx, AccumDy, MouseButtons, MouseDataReady>>

UiPollMouse ==
  /\ \/ TestReady \/ ReadDx \/ ReadDy \/ ClearDx \/ ClearDy \/ ClearReady
     \/ TakePressed \/ ClearLatch
  /\ UNCHANGED <<mouse, wire, pause, packet>>

Next == SendPacket \/ LoseByte \/ Quiet \/ MouseIrqHandler \/ UiPollMouse

Spec == Init /\ [][Next]_vars

------------------------------------------------------------------------------

TypeOK ==
  /\ PacketIndex \in 0..2
  /\ held \subseteq Buttons /\ MouseButtons \subseteq Buttons /\ LastButtonState \subseteq Buttons
  /\ PressedLatch \subseteq Buttons /\ latch \subseteq Buttons
  /\ AccumDx \cup AccumDy \cup dx \cup dy \cup moved.x \cup moved.y \subseteq 1..MaxPackets
  /\ MouseDataReady \in BOOLEAN /\ pause \in BOOLEAN /\ intact \in BOOLEAN
  /\ pc \in {"idle", "readDx", "readDy", "clearDx", "clearDy", "clearReady", "take", "clearLatch"}

(* After a pause the decoder finds the start of a packet again, whatever   *)
(* was lost before: the buttons it knows are those of the last packet.     *)
Realigns == intact /\ wire = <<>> => MouseButtons = held /\ PacketIndex = 0

(* The motion of a packet moves the pointer at most once, wherever the     *)
(* handler interrupts MouseGetDelta.                                       *)
MotionOnce ==
  /\ dx \cap moved.x = {} /\ dy \cap moved.y = {}
  /\ AccumDx \cap moved.x = {} /\ AccumDy \cap moved.y = {}

(* Without loss no press is reported twice, and no click is reported for   *)
(* a button that is only held while the mouse moves.                       *)
ClickOnce ==
  lost = 0 => \A b \in Buttons : reported[b] <= pressed[b]
==============================================================================
