------------------------------- MODULE KeyRing -------------------------------
(***************************************************************************)
(* The ring buffer of keyboard.c.  PushChar runs in the keyboard interrupt *)
(* and is atomic; KeyboardGetKey runs in the main loop and is interrupted  *)
(* between its test, its read and its update of the tail.                  *)
(***************************************************************************)
EXTENDS Naturals, Sequences

CONSTANTS
  Keys,
  KEY_BUFFER_SIZE,   (* 256 *)
  NoKey              (* 0, which no key has *)

ASSUME KeyRingConstants == KEY_BUFFER_SIZE \in Nat \ {0} /\ NoKey \notin Keys

VARIABLES
  KeyBuffer, KeyBufferHead, KeyBufferTail,
  pc,      (* where KeyboardGetKey is *)
  reg,     (* Key, its local variable *)
  key      (* what the last call returned *)

vars == <<KeyBuffer, KeyBufferHead, KeyBufferTail, pc, reg, key>>

Slots == 0..(KEY_BUFFER_SIZE - 1)

Succ(i) == (i + 1) % KEY_BUFFER_SIZE

Init ==
  /\ KeyBuffer = [i \in Slots |-> NoKey]
  /\ KeyBufferHead = 0 /\ KeyBufferTail = 0
  /\ pc = "idle" /\ reg = NoKey /\ key = NoKey

(* Mutant: a full ring is not noticed. *)
PushCharUnchecked(c) ==
  /\ KeyBuffer' = [KeyBuffer EXCEPT ![KeyBufferHead] = c]
  /\ KeyBufferHead' = Succ(KeyBufferHead)
  /\ UNCHANGED <<KeyBufferTail, pc, reg, key>>

PushChar(c) ==
  /\ IF Succ(KeyBufferHead) = KeyBufferTail
       THEN UNCHANGED <<KeyBuffer, KeyBufferHead>>
       ELSE /\ KeyBuffer' = [KeyBuffer EXCEPT ![KeyBufferHead] = c]
            /\ KeyBufferHead' = Succ(KeyBufferHead)
  /\ UNCHANGED <<KeyBufferTail, pc, reg, key>>

GetKeyTest ==
  /\ pc = "idle"
  /\ IF KeyBufferTail = KeyBufferHead
       THEN key' = NoKey /\ UNCHANGED pc
       ELSE pc' = "read" /\ UNCHANGED key
  /\ UNCHANGED <<KeyBuffer, KeyBufferHead, KeyBufferTail, reg>>

GetKeyRead ==
  /\ pc = "read"
  /\ reg' = KeyBuffer[KeyBufferTail]
  /\ pc' = "advance"
  /\ UNCHANGED <<KeyBuffer, KeyBufferHead, KeyBufferTail, key>>

GetKeyAdvance ==
  /\ pc = "advance"
  /\ KeyBufferTail' = Succ(KeyBufferTail)
  /\ key' = reg
  /\ pc' = "idle"
  /\ UNCHANGED <<KeyBuffer, KeyBufferHead, reg>>

Next == GetKeyTest \/ GetKeyRead \/ GetKeyAdvance \/ \E c \in Keys : PushChar(c)

Spec == Init /\ [][Next]_vars

------------------------------------------------------------------------------

TypeOK ==
  /\ KeyBuffer \in [Slots -> Keys \cup {NoKey}]
  /\ KeyBufferHead \in Slots /\ KeyBufferTail \in Slots
  /\ pc \in {"idle", "read", "advance"}
  /\ reg \in Keys \cup {NoKey} /\ key \in Keys \cup {NoKey}

(* The slot i places after the tail. *)
Slot(i) ==
  IF KeyBufferTail + i < KEY_BUFFER_SIZE
    THEN KeyBufferTail + i ELSE KeyBufferTail + i - KEY_BUFFER_SIZE

Count ==
  IF KeyBufferHead >= KeyBufferTail
    THEN KeyBufferHead - KeyBufferTail
    ELSE KeyBufferHead + KEY_BUFFER_SIZE - KeyBufferTail

Contents == [i \in 1..Count |-> KeyBuffer[Slot(i - 1)]]

(* Every slot between tail and head holds a key that was pushed, and       *)
(* KeyboardGetKey, once past its test, finds the oldest key where the test *)
(* saw it, however often the interrupt runs in between.                    *)
RingSound ==
  /\ \A i \in 1..Count : KeyBuffer[Slot(i - 1)] \in Keys
  /\ pc \in {"read", "advance"} => Count > 0
  /\ pc = "advance" => reg = KeyBuffer[KeyBufferTail]

Queue == INSTANCE KeyQueue WITH queue <- Contents, Capacity <- KEY_BUFFER_SIZE - 1

(* The interrupted ring is the indivisible queue: no key is lost while     *)
(* there is room, none is returned twice or out of order.                  *)
ImplementsQueue == Queue!Spec
==============================================================================
