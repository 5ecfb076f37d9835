------------------------------- MODULE Keyboard ------------------------------
(***************************************************************************)
(* The scancode decoder of keyboard.c.  The keyboard (external) puts the   *)
(* bytes of whole key sequences on the wire; each interrupt takes one      *)
(* byte, keeping modifiers, lock states and a pending E0 prefix between    *)
(* interrupts.  A byte is a code and whether its release bit is set.       *)
(* What PushChar does with the keys is module KeyRing.                     *)
(***************************************************************************)
EXTENDS Naturals, SequencesExt

CONSTANTS
  Board,      (* the keys of the keyboard that are used *)
  MaxEvents   (* bound: presses, releases and repeats   *)

KeyboardConstants ==
  /\ Board \subseteq {"lshift", "rshift", "lctrl", "rctrl", "lalt", "ralt", "caps", "num",
                      "scroll", "a", "1", "pad8", "up", "pause", "print"}
  /\ MaxEvents \in Nat

VARIABLES
  \* the user and the keyboard
  down, latest, wire, events, capsWanted,
  due,        (* the keys the typist expects                               *)
  overlap,    (* two keys of one modifier have been down together          *)
  \* keyboard.c
  ShiftHeld, CtrlHeld, AltHeld, ExtendedPrefix,
  CapsLockOn, NumLockOn, ScrollLockOn,
  typed       (* the keys PushChar was called with                         *)

user == <<down, latest, events, capsWanted, due, overlap>>
modifiers == <<ShiftHeld, CtrlHeld, AltHeld>>
locks == <<CapsLockOn, NumLockOn, ScrollLockOn>>
vars == <<user, wire, modifiers, locks, ExtendedPrefix, typed>>

Init ==
  /\ down = {} /\ latest = "none" /\ wire = <<>> /\ events = 0
  /\ capsWanted = FALSE /\ due = <<>> /\ overlap = FALSE
  /\ ShiftHeld = FALSE /\ CtrlHeld = FALSE /\ AltHeld = FALSE
  /\ ExtendedPrefix = FALSE /\ CapsLockOn = FALSE
  /\ NumLockOn = FALSE /\ ScrollLockOn = FALSE
  /\ typed = <<>>

------------------------------------------------------------------------------
(* The keyboard: scancode set 1, as the controller translates it. *)

Press(c) == [code |-> c, up |-> FALSE]
Release(c) == [code |-> c, up |-> TRUE]
E0 == Release("60")
E1 == Release("61")
ACK == Release("7A")

Shifts == {"lshift", "rshift"}
Ctrls == {"lctrl", "rctrl"}
Alts == {"lalt", "ralt"}
Pairs == {Shifts, Ctrls, Alts}
Held(pair) == down \cap pair # {}

Code(k) ==
  CASE k = "lshift" -> "2A" [] k = "rshift" -> "36"
    [] k \in Ctrls -> "1D"   [] k \in Alts -> "38"
    [] k = "caps" -> "3A"     [] k = "num" -> "45"  [] k = "scroll" -> "46"
    [] k = "a" -> "1E"        [] k = "1" -> "02"    [] k \in {"pad8", "up"} -> "48"

Grey == {"rctrl", "ralt", "up"}

(* With a shift held, a grey key is wrapped in a shift that is not one.    *)
MakeCode(k) ==
  CASE k = "pause" ->
         IF Held(Ctrls) THEN <<E0, Press("46"), E0, Release("46")>>
         ELSE <<E1, Press("1D"), Press("45"), E1, Release("1D"), Release("45")>>
    [] k = "print" -> <<E0, Press("2A"), E0, Press("37")>>
    [] k = "up" /\ Held(Shifts) -> <<E0, Release("2A"), E0, Press("48")>>
    [] k \in Grey /\ ~(k = "up" /\ Held(Shifts)) -> <<E0, Press(Code(k))>>
    [] OTHER -> <<Press(Code(k))>>

BreakCode(k) ==
  CASE k = "pause" -> <<>>
    [] k = "print" -> <<E0, Release("37"), E0, Release("2A")>>
    [] k = "up" /\ Held(Shifts) -> <<E0, Release("48"), E0, Press("2A")>>
    [] k \in Grey /\ ~(k = "up" /\ Held(Shifts)) -> <<E0, Release(Code(k))>>
    [] OTHER -> <<Release(Code(k))>>

(* What the typist expects of a key: nothing, or the key to be queued.     *)
Wanted(k) ==
  CASE k = "up" -> <<"UP">>
    [] k = "a" /\ Held(Ctrls) /\ ~Held(Alts) -> <<"ctrlA">>
    [] k = "a" /\ ~Held(Ctrls) /\ ~Held(Alts) ->
         IF Held(Shifts) # capsWanted THEN <<"A">> ELSE <<"a">>
    [] k = "1" /\ ~Held(Ctrls) /\ ~Held(Alts) -> IF Held(Shifts) THEN <<"bang">> ELSE <<"1">>
    [] k = "pad8" /\ ~Held(Ctrls) /\ ~Held(Alts) -> <<"8">>
    [] OTHER -> <<>>

Sends(k) ==
  /\ wire' = wire \o MakeCode(k)
  /\ due' = due \o Wanted(k)
  /\ capsWanted' = (capsWanted # (k = "caps"))
  /\ UNCHANGED <<modifiers, locks, ExtendedPrefix, typed>>

PressKey(k) ==
  /\ events < MaxEvents /\ events' = events + 1
  /\ k \notin down
  /\ down' = down \cup {k}
  /\ latest' = k
  /\ overlap' = (overlap \/ \E pair \in Pairs : pair \subseteq down \cup {k})
  /\ Sends(k)

(* The key pressed last repeats while it is held. *)
RepeatKey(k) ==
  /\ events < MaxEvents /\ events' = events + 1
  /\ k = latest /\ k \in down /\ k # "pause"
  /\ Sends(k)
  /\ UNCHANGED <<down, latest, overlap>>

ReleaseKey(k) ==
  /\ events < MaxEvents /\ events' = events + 1
  /\ k \in down
  /\ down' = down \ {k}
  /\ wire' = wire \o BreakCode(k)
  /\ UNCHANGED <<latest, capsWanted, due, overlap, modifiers, locks, ExtendedPrefix, typed>>

------------------------------------------------------------------------------
(* The interrupt handler. *)

Byte == Head(wire)

(* Mutant: the extended shift is taken for a shift. *)
ModifierFakeShift(code) ==
  CASE code \in {"2A", "36"} -> "shift"
    [] code = "1D" -> "ctrl"
    [] code = "38" -> "alt"
    [] OTHER -> "none"

(* Control and Alt have the same code with and without prefix. *)
Modifier(code) ==
  CASE code \in {"2A", "36"} /\ ~ExtendedPrefix -> "shift"
    [] code = "1D" -> "ctrl"
    [] code = "38" -> "alt"
    [] OTHER -> "none"

PrefixByte ==
  /\ wire # <<>> /\ Byte = E0
  /\ ExtendedPrefix' = TRUE
  /\ wire' = Tail(wire)
  /\ UNCHANGED <<user, modifiers, locks, typed>>

(* Mutant: the prefix outlives the byte it belongs to. *)
TakeKeepsPrefix == wire # <<>> /\ Byte # E0 /\ UNCHANGED <<user, ExtendedPrefix>>

(* Every other byte uses the prefix up. *)
Take == wire # <<>> /\ Byte # E0 /\ ExtendedPrefix' = FALSE /\ UNCHANGED user

ModifierByte ==
  /\ Take
  /\ wire' = Tail(wire)
  /\ \/ Modifier(Byte.code) = "shift" /\ ShiftHeld' = ~Byte.up /\ UNCHANGED <<CtrlHeld, AltHeld>>
     \/ Modifier(Byte.code) = "ctrl" /\ CtrlHeld' = ~Byte.up /\ UNCHANGED <<ShiftHeld, AltHeld>>
     \/ Modifier(Byte.code) = "alt" /\ AltHeld' = ~Byte.up /\ UNCHANGED <<ShiftHeld, CtrlHeld>>
  /\ UNCHANGED <<locks, typed>>

(* UpdateLeds sends a command and its argument; the keyboard acknowledges  *)
(* each, before or after what it has still to send.                        *)
LockByte ==
  /\ Take /\ ~ExtendedPrefix /\ ~Byte.up
  /\ \/ Byte.code = "3A" /\ CapsLockOn' = ~CapsLockOn /\ UNCHANGED <<NumLockOn, ScrollLockOn>>
     \/ Byte.code = "45" /\ NumLockOn' = ~NumLockOn /\ UNCHANGED <<CapsLockOn, ScrollLockOn>>
     \/ Byte.code = "46" /\ ScrollLockOn' = ~ScrollLockOn /\ UNCHANGED <<CapsLockOn, NumLockOn>>
  /\ \/ wire' = <<ACK, ACK>> \o Tail(wire)
     \/ wire' = Tail(wire) \o <<ACK, ACK>>
  /\ UNCHANGED <<modifiers, typed>>

ScancodeToAscii == [x \in {"1E", "02", "48"} |->
  CASE x = "1E" -> "a" [] x = "02" -> "1" [] x = "48" -> "8"]
ScancodeToAsciiShift == [x \in {"1E", "02", "48"} |->
  CASE x = "1E" -> "A" [] x = "02" -> "bang" [] x = "48" -> "8"]

Ascii(code) ==
  LET c == IF ShiftHeld THEN ScancodeToAsciiShift[code] ELSE ScancodeToAscii[code]
  IN  IF ~CapsLockOn \/ c \notin {"a", "A"} THEN c ELSE IF c = "a" THEN "A" ELSE "a"

(* The key a pressed code stands for, if any. *)
Decoded(code) ==
  CASE ExtendedPrefix -> IF code = "48" THEN <<"UP">> ELSE <<>>
    [] ~ExtendedPrefix /\ code \notin DOMAIN ScancodeToAscii -> <<>>
    [] ~ExtendedPrefix /\ code \in DOMAIN ScancodeToAscii ->
         IF CtrlHeld /\ ~AltHeld /\ Ascii(code) \in {"a", "A"} THEN <<"ctrlA">>
         ELSE IF CtrlHeld \/ AltHeld THEN <<>> ELSE <<Ascii(code)>>

(* All other bytes: releases, acknowledgements, characters, and what the   *)
(* handler has no use for.                                                 *)
CharacterByte ==
  /\ Take /\ Modifier(Byte.code) = "none"
  /\ ~(~ExtendedPrefix /\ ~Byte.up /\ Byte.code \in {"3A", "45", "46"})
  /\ wire' = Tail(wire)
  /\ typed' = IF Byte.up THEN typed ELSE typed \o Decoded(Byte.code)
  /\ UNCHANGED <<modifiers, locks>>

KeyboardIrqHandler == PrefixByte \/ ModifierByte \/ LockByte \/ CharacterByte

Next ==
  \/ \E k \in Board : PressKey(k) \/ RepeatKey(k) \/ ReleaseKey(k)
  \/ KeyboardIrqHandler

Spec == Init /\ [][Next]_vars

------------------------------------------------------------------------------

TypeOK ==
  /\ down \subseteq Board /\ latest \in Board \cup {"none"} /\ events \in 0..MaxEvents
  /\ \A i \in DOMAIN wire : wire[i].up \in BOOLEAN
  /\ {capsWanted, overlap, ExtendedPrefix} \subseteq BOOLEAN
  /\ {ShiftHeld, CtrlHeld, AltHeld, CapsLockOn, NumLockOn, ScrollLockOn} \subseteq BOOLEAN
  /\ Len(typed) <= MaxEvents

(* Once the wire is drained no modifier is held that nobody holds down,    *)
(* whatever Pause, Print Screen and wrapped grey keys sent in between, and *)
(* no prefix waits for a byte of some later key.                           *)
NoStuckModifier ==
  wire = <<>> =>
    /\ (ShiftHeld => Held(Shifts)) /\ (CtrlHeld => Held(Ctrls)) /\ (AltHeld => Held(Alts))
    /\ ~ExtendedPrefix

(* The keys queued are those the typist expects, in order: never ahead of  *)
(* the typing, and complete once the wire is drained.  The driver keeps    *)
(* one flag for the two keys of a modifier, so a typist who holds both and *)
(* lets one go is excepted.                                                *)
TypedRight ==
  ~overlap => IF wire = <<>> THEN typed = due /\ CapsLockOn = capsWanted
              ELSE IsPrefix(typed, due)
==============================================================================
