----------------------------- MODULE InputProofs -----------------------------
(***************************************************************************)
(* The input drivers, for any size of the ring, any keys and any number of *)
(* packets: the ring buffer of keyboard.c implements the queue of KeyQueue *)
(* wherever the interrupt comes in KeyboardGetKey, the mouse's motions and *)
(* presses count once wherever it comes in UiPollMouse, and the decoder of *)
(* scancodes queues the keys that are typed.  Then the shell, for any size *)
(* of the screen, the line and the history: the console shows what is      *)
(* typed, and the history what was entered.                                *)
(***************************************************************************)
EXTENDS MCInput, Integers, SequenceTheorems, WellFoundedInduction, TLAPS

(* The ring and what KeyboardGetKey has read of it so far. *)
IInv == TypeOK /\ RingSound

LEMMA SuccDef ==
  ASSUME NEW i \in Slots
  PROVE  Succ(i) = IF i + 1 = KEY_BUFFER_SIZE THEN 0 ELSE i + 1
BY KeyRingConstants DEF Slots, Succ

(* Positions in the ring: the head is Count places after the tail. *)
LEMMA SlotFacts ==
  ASSUME TypeOK
  PROVE  /\ Count \in 0..(KEY_BUFFER_SIZE - 1)
         /\ \A i \in Slots : Slot(i) \in Slots
         /\ Slot(0) = KeyBufferTail
         /\ Slot(Count) = KeyBufferHead
         /\ \A i, j \in Slots : Slot(i) = Slot(j) => i = j
         /\ (Count = 0) <=> (KeyBufferHead = KeyBufferTail)
         /\ (Succ(KeyBufferHead) = KeyBufferTail) <=> (Count = KEY_BUFFER_SIZE - 1)
BY KeyRingConstants, SuccDef DEF TypeOK, Slots, Slot, Count

(* The ring starts empty. *)
LEMMA InitInv == Init => IInv
<1> SUFFICES ASSUME Init PROVE IInv
  OBVIOUS
<1>1. TypeOK
  BY KeyRingConstants DEF Init, TypeOK, Slots
<1>2. Count = 0
  BY DEF Init, Count
<1>3. RingSound
  BY <1>2 DEF Init, RingSound
<1> QED BY <1>1, <1>3 DEF IInv

(* What a push and an advance of the tail do to the positions. *)
LEMMA PushPositions ==
  ASSUME TypeOK, Succ(KeyBufferHead) # KeyBufferTail,
         KeyBufferHead' = Succ(KeyBufferHead), KeyBufferTail' = KeyBufferTail
  PROVE  /\ KeyBufferHead' \in Slots
         /\ Count' = Count + 1 /\ Count + 1 \in Slots
         /\ \A i \in Slots : Slot(i)' = Slot(i)
<1>1. KeyBufferHead \in Slots /\ KeyBufferTail \in Slots
  BY DEF TypeOK
<1>2. KeyBufferHead' = IF KeyBufferHead + 1 = KEY_BUFFER_SIZE THEN 0 ELSE KeyBufferHead + 1
  BY <1>1, SuccDef
<1>3. KeyBufferHead' # KeyBufferTail
  OBVIOUS
<1>4. Count' = Count + 1 /\ Count + 1 \in Slots
  BY <1>1, <1>2, <1>3, KeyRingConstants DEF Slots, Count
<1>5. \A i \in Slots : Slot(i)' = Slot(i)
  BY DEF Slot
<1> QED BY <1>1, <1>2, <1>4, <1>5, KeyRingConstants DEF Slots

LEMMA AdvancePositions ==
  ASSUME TypeOK, Count > 0,
         KeyBufferTail' = Succ(KeyBufferTail), KeyBufferHead' = KeyBufferHead
  PROVE  /\ KeyBufferTail' \in Slots
         /\ Count' = Count - 1
         /\ \A i \in 0..(Count - 1) : Slot(i)' = Slot(i + 1)
<1>1. KeyBufferHead \in Slots /\ KeyBufferTail \in Slots
  BY DEF TypeOK
<1>2. KeyBufferTail' = IF KeyBufferTail + 1 = KEY_BUFFER_SIZE THEN 0 ELSE KeyBufferTail + 1
  BY <1>1, SuccDef
<1>3. KeyBufferHead # KeyBufferTail
  BY <1>1, SlotFacts
<1>4. Count' = Count - 1
  BY <1>1, <1>2, <1>3, KeyRingConstants DEF Slots, Count
<1>5. ASSUME NEW i \in 0..(Count - 1) PROVE Slot(i)' = Slot(i + 1)
  <2>1. Slot(i)' = IF KeyBufferTail' + i < KEY_BUFFER_SIZE
                     THEN KeyBufferTail' + i ELSE KeyBufferTail' + i - KEY_BUFFER_SIZE
    BY DEF Slot
  <2>2. i \in Nat /\ i < KEY_BUFFER_SIZE
    BY SlotFacts, KeyRingConstants
  <2> QED BY <1>1, <1>2, <2>1, <2>2, KeyRingConstants DEF Slots, Slot
<1> QED BY <1>1, <1>2, <1>4, <1>5, KeyRingConstants DEF Slots

(* The slots of the keys already queued are not the one a push writes. *)
LEMMA PushKeeps ==
  ASSUME IInv, NEW c \in Keys, PushChar(c), Succ(KeyBufferHead) # KeyBufferTail
  PROVE  /\ Count' = Count + 1
         /\ \A i \in 1..Count : KeyBuffer'[Slot(i - 1)'] = KeyBuffer[Slot(i - 1)]
         /\ \A n \in Slots : n = Count => KeyBuffer'[Slot(n)'] = c
<1>0. TypeOK
  BY DEF IInv
<1>1. /\ KeyBuffer' = [KeyBuffer EXCEPT ![KeyBufferHead] = c]
      /\ KeyBufferHead' = Succ(KeyBufferHead) /\ KeyBufferTail' = KeyBufferTail
  BY DEF PushChar
<1>2. Count' = Count + 1 /\ Count + 1 \in Slots /\ \A i \in Slots : Slot(i)' = Slot(i)
  BY <1>0, <1>1, PushPositions
<1>3. Count \in Slots /\ \A i \in 1..Count : i - 1 \in Slots /\ i - 1 # Count
  BY <1>0, SlotFacts, KeyRingConstants DEF Slots
<1>4. \A i \in 1..Count : Slot(i - 1) \in Slots /\ Slot(i - 1) # KeyBufferHead
  BY <1>0, <1>3, SlotFacts
<1>5. KeyBuffer \in [Slots -> Keys \cup {NoKey}] /\ KeyBufferHead \in Slots
  BY <1>0 DEF TypeOK
<1>6. \A i \in 1..Count : KeyBuffer'[Slot(i - 1)'] = KeyBuffer[Slot(i - 1)]
  BY <1>1, <1>2, <1>3, <1>4, <1>5
<1>7. \A n \in Slots : n = Count => KeyBuffer'[Slot(n)'] = c
  <2>1. Slot(Count) = KeyBufferHead
    BY <1>0, SlotFacts
  <2> QED BY <1>1, <1>2, <1>5, <2>1
<1> QED BY <1>2, <1>6, <1>7

(* No push and no step of KeyboardGetKey breaks the ring. *)
LEMMA StepInv == IInv /\ [Next]_vars => IInv'
<1> SUFFICES ASSUME IInv, [Next]_vars PROVE IInv'
  OBVIOUS
<1>0. TypeOK /\ RingSound
  BY DEF IInv
<1>1. ASSUME NEW c \in Keys, PushChar(c) PROVE IInv'
  <2>1. CASE Succ(KeyBufferHead) = KeyBufferTail
    <3>1. UNCHANGED vars
      BY <1>1, <2>1 DEF PushChar, vars
    <3> QED BY <1>0, <3>1 DEF IInv, TypeOK, RingSound, vars, Count, Slot
  <2>2. CASE Succ(KeyBufferHead) # KeyBufferTail
    <3>1. /\ Count' = Count + 1 /\ Count \in Nat
          /\ \A i \in 1..Count : KeyBuffer'[Slot(i - 1)'] = KeyBuffer[Slot(i - 1)]
          /\ \A n \in Slots : n = Count => KeyBuffer'[Slot(n)'] = c
      BY <1>0, <1>1, <2>2, PushKeeps, SlotFacts DEF IInv
    <3>2. TypeOK'
      BY <1>0, <1>1, <2>2, PushPositions DEF PushChar, TypeOK
    <3>3. \A i \in 1..Count' : KeyBuffer'[Slot(i - 1)'] \in Keys
      <4> SUFFICES ASSUME NEW i \in 1..Count' PROVE KeyBuffer'[Slot(i - 1)'] \in Keys
        OBVIOUS
      <4>1. CASE i \in 1..Count
        BY <1>0, <3>1, <4>1 DEF RingSound
      <4>2. CASE i = Count + 1
        <5>1. i - 1 = Count
          BY <3>1, <4>2
        <5>2. Count \in Slots
          BY <1>0, SlotFacts DEF Slots
        <5> QED BY <3>1, <5>1, <5>2
      <4> QED BY <3>1, <4>1, <4>2
    <3>4. UNCHANGED <<pc, reg>> /\ (pc = "advance" => KeyBuffer'[KeyBufferTail'] = KeyBuffer[KeyBufferTail])
      BY <1>0, <1>1, SlotFacts DEF PushChar, RingSound, TypeOK
    <3> QED BY <1>0, <3>1, <3>2, <3>3, <3>4 DEF IInv, RingSound
  <2> QED BY <2>1, <2>2
<1>2. CASE GetKeyTest
  <2>1. TypeOK' /\ UNCHANGED <<KeyBuffer, KeyBufferHead, KeyBufferTail, reg>>
    BY <1>0, <1>2 DEF GetKeyTest, TypeOK
  <2>2. pc' = "read" => Count > 0
    BY <1>0, <1>2, SlotFacts DEF GetKeyTest
  <2>3. pc' \in {"idle", "read"}
    BY <1>2 DEF GetKeyTest
  <2> QED BY <1>0, <2>1, <2>2, <2>3 DEF IInv, RingSound, Count, Slot
<1>3. CASE GetKeyRead
  BY <1>0, <1>3 DEF GetKeyRead, IInv, TypeOK, RingSound, Count, Slot
<1>4. CASE GetKeyAdvance
  <2>1. Count > 0 /\ KeyBufferTail' = Succ(KeyBufferTail) /\ pc' = "idle"
        /\ UNCHANGED <<KeyBuffer, KeyBufferHead, reg>> /\ key' = reg
    BY <1>0, <1>4 DEF GetKeyAdvance, RingSound
  <2>2. /\ KeyBufferTail' \in Slots /\ Count' = Count - 1
        /\ \A i \in 0..(Count - 1) : Slot(i)' = Slot(i + 1)
    BY <1>0, <2>1, AdvancePositions
  <2>3. TypeOK'
    BY <1>0, <2>1, <2>2 DEF TypeOK
  <2>4. \A i \in 1..Count' : KeyBuffer'[Slot(i - 1)'] \in Keys
    <3> SUFFICES ASSUME NEW i \in 1..Count' PROVE KeyBuffer'[Slot(i - 1)'] \in Keys
      OBVIOUS
    <3>1. i + 1 \in 1..Count /\ i - 1 \in 0..(Count - 1) /\ (i - 1) + 1 = (i + 1) - 1
      BY <1>0, <2>2, SlotFacts
    <3>2. Slot(i - 1)' = Slot((i + 1) - 1)
      BY <2>2, <3>1
    <3> QED BY <1>0, <2>1, <3>1, <3>2 DEF RingSound
  <2> QED BY <2>1, <2>3, <2>4 DEF IInv, RingSound
<1>5. CASE UNCHANGED vars
  BY <1>0, <1>5 DEF IInv, TypeOK, RingSound, vars, Count, Slot
<1> QED BY <1>1, <1>2, <1>3, <1>4, <1>5 DEF Next

(* So it is sound in every state the ring reaches. *)
LEMMA SpecInv == Spec => []IInv
BY InitInv, StepInv, PTL DEF Spec

------------------------------------------------------------------------------

ContentsAre ==
  /\ Contents \in Seq(Keys) /\ Len(Contents) = Count
  /\ \A i \in 1..Count : Contents[i] = KeyBuffer[Slot(i - 1)]

LEMMA ContentsFacts == IInv => ContentsAre
<1> SUFFICES ASSUME IInv PROVE ContentsAre
  OBVIOUS
<1>1. Count \in Nat /\ \A i \in 1..Count : KeyBuffer[Slot(i - 1)] \in Keys
  BY SlotFacts DEF IInv, RingSound
<1> QED BY <1>1 DEF Contents, ContentsAre

LEMMA ContentsFactsNext == IInv' => ContentsAre'
BY ContentsFacts, PTL

(* A push that fits appends, one that does not changes nothing. *)
LEMMA PushRefines ==
  ASSUME IInv, NEW c \in Keys, PushChar(c)
  PROVE  Queue!Push(c)
<1>0. TypeOK /\ IInv'
  BY StepInv DEF IInv, Next
<1>1. CASE Succ(KeyBufferHead) = KeyBufferTail
  <2>1. Count = KEY_BUFFER_SIZE - 1
    BY <1>0, <1>1, SlotFacts
  <2>2. UNCHANGED <<Contents, key>>
    BY <1>1 DEF PushChar, Contents, Count, Slot
  <2> QED BY <2>1, <2>2, ContentsFacts DEF Queue!Push, ContentsAre
<1>2. CASE Succ(KeyBufferHead) # KeyBufferTail
  <2>1. /\ Count' = Count + 1
        /\ \A i \in 1..Count : KeyBuffer'[Slot(i - 1)'] = KeyBuffer[Slot(i - 1)]
        /\ \A n \in Slots : n = Count => KeyBuffer'[Slot(n)'] = c
    BY <1>2, PushKeeps
  <2>2. /\ Count \in Slots /\ Count # KEY_BUFFER_SIZE - 1
    BY <1>0, <1>2, SlotFacts DEF Slots
  <2>3. /\ Contents \in Seq(Keys) /\ Len(Contents) = Count
        /\ \A i \in 1..Count : Contents[i] = KeyBuffer[Slot(i - 1)]
    BY ContentsFacts DEF ContentsAre
  <2>4. /\ Contents' \in Seq(Keys) /\ Len(Contents') = Count'
        /\ \A i \in 1..Count' : Contents'[i] = KeyBuffer'[Slot(i - 1)']
    BY <1>0, ContentsFactsNext DEF ContentsAre
  <2>5. Contents' = Append(Contents, c)
    <3>1. /\ Append(Contents, c) \in Seq(Keys) /\ Len(Append(Contents, c)) = Count + 1
          /\ \A i \in 1..Count : Append(Contents, c)[i] = Contents[i]
          /\ Append(Contents, c)[Count + 1] = c
      BY <2>3, AppendProperties
    <3>2. ASSUME NEW i \in 1..(Count + 1) PROVE Contents'[i] = Append(Contents, c)[i]
      <4>1. CASE i \in 1..Count
        BY <2>1, <2>3, <2>4, <3>1, <4>1
      <4>2. CASE i = Count + 1
        <5>1. i - 1 = Count /\ Count \in Slots
          BY <2>2, <4>2 DEF Slots
        <5>2. Contents'[i] = KeyBuffer'[Slot(i - 1)']
          BY <2>1, <2>4
        <5> QED BY <2>1, <3>1, <4>2, <5>1, <5>2
      <4>3. Count \in Nat
        BY <2>2 DEF Slots
      <4>4. i \in 1..Count \/ i = Count + 1
        BY <4>3
      <4> QED BY ZenonT(40), <4>1, <4>2, <4>4
    <3> QED BY <2>1, <2>4, <3>1, <3>2, SeqEqual
  <2>6. Len(Contents) < KEY_BUFFER_SIZE - 1
    BY <2>2, <2>3, KeyRingConstants DEF Slots
  <2> QED BY <2>5, <2>6 DEF PushChar, Queue!Push
<1> QED BY <1>1, <1>2

(* Advancing the tail takes the head of the queue, the key the interrupted *)
(* call read before.                                                       *)
LEMMA AdvanceRefines ==
  ASSUME IInv, GetKeyAdvance
  PROVE  Queue!Get
<1>0. TypeOK /\ RingSound /\ IInv'
  BY StepInv DEF IInv, Next
<1>1. /\ Count > 0 /\ key' = KeyBuffer[KeyBufferTail]
      /\ KeyBufferTail' = Succ(KeyBufferTail) /\ UNCHANGED <<KeyBuffer, KeyBufferHead>>
  BY <1>0 DEF GetKeyAdvance, RingSound
<1>2. /\ Count' = Count - 1
      /\ \A i \in 0..(Count - 1) : Slot(i)' = Slot(i + 1)
  BY <1>0, <1>1, AdvancePositions
<1>3. /\ Contents \in Seq(Keys) /\ Len(Contents) = Count
      /\ \A i \in 1..Count : Contents[i] = KeyBuffer[Slot(i - 1)]
  BY ContentsFacts DEF ContentsAre
<1>4. /\ Contents' \in Seq(Keys) /\ Len(Contents') = Count'
      /\ \A i \in 1..Count' : Contents'[i] = KeyBuffer'[Slot(i - 1)']
  BY <1>0, ContentsFactsNext DEF ContentsAre
<1>5. Contents # <<>> /\ Count \in Nat
  BY <1>0, <1>1, <1>3, SlotFacts
<1>6. key' = Head(Contents)
  <2>1. Head(Contents) = KeyBuffer[Slot(0)]
    <3>1. 1 \in 1..Count /\ 1 - 1 = 0
      BY <1>1, <1>5
    <3>2. Contents[1] = KeyBuffer[Slot(0)]
      BY <1>3, <3>1
    <3>3. Head(Contents) = Contents[1]
      BY <1>3, <1>5
    <3> QED BY <3>2, <3>3
  <2> QED BY <1>0, <1>1, <2>1, SlotFacts
<1>7. Contents' = Tail(Contents)
  <2>1. /\ Tail(Contents) \in Seq(Keys) /\ Len(Tail(Contents)) = Count - 1
        /\ \A i \in 1..(Count - 1) : Tail(Contents)[i] = Contents[i + 1]
    BY <1>3, <1>5, HeadTailProperties
  <2>2. ASSUME NEW i \in 1..(Count - 1) PROVE Contents'[i] = Tail(Contents)[i]
    <3>1. /\ i - 1 \in 0..(Count - 1) /\ i + 1 \in 1..Count /\ (i - 1) + 1 = (i + 1) - 1
      BY <1>5
    <3>2. Slot(i - 1)' = Slot((i + 1) - 1)
      BY <1>2, <3>1
    <3>3. Contents'[i] = KeyBuffer[Slot((i + 1) - 1)]
      BY <1>1, <1>2, <1>4, <3>2
    <3> QED BY <1>3, <2>1, <3>1, <3>3
  <2> QED BY <1>2, <1>4, <2>1, <2>2, SeqEqual
<1> QED BY <1>5, <1>6, <1>7 DEF Queue!Get

(* Each step of the ring is one of the queue, or none. *)
LEMMA RingAlone == Spec => ImplementsQueue
<1>1. Init => Queue!Init
  <2>1. Init => Count = 0
    BY DEF Init, Count
  <2> QED BY <2>1 DEF Init, Queue!Init, Contents
<1>2. IInv /\ [Next]_vars => [Queue!Next]_<<Contents, key>>
  <2> SUFFICES ASSUME IInv, [Next]_vars PROVE Queue!Next \/ UNCHANGED <<Contents, key>>
    OBVIOUS
  <2>1. ASSUME NEW c \in Keys, PushChar(c) PROVE Queue!Next
    BY <2>1, PushRefines DEF Queue!Next
  <2>2. CASE GetKeyTest
    <3>1. UNCHANGED Contents
      BY <2>2 DEF GetKeyTest, Contents, Count, Slot
    <3>2. CASE KeyBufferTail = KeyBufferHead
      <4>1. Count = 0
        BY <3>2, SlotFacts DEF IInv
      <4>2. Contents = <<>>
        BY <4>1, ContentsFacts, EmptySeq DEF ContentsAre
      <4> QED BY <2>2, <3>1, <3>2, <4>2 DEF GetKeyTest, Queue!Next, Queue!Get
    <3>3. CASE KeyBufferTail # KeyBufferHead
      BY <2>2, <3>1, <3>3 DEF GetKeyTest
    <3> QED BY <3>2, <3>3
  <2>3. CASE GetKeyRead
    BY <2>3 DEF GetKeyRead, Contents, Count, Slot
  <2>4. CASE GetKeyAdvance
    BY <2>4, AdvanceRefines DEF Queue!Next
  <2>5. CASE UNCHANGED vars
    BY <2>5 DEF vars, Contents, Count, Slot
  <2> QED BY <2>1, <2>2, <2>3, <2>4, <2>5 DEF Next
<1> QED BY <1>1, <1>2, SpecInv, PTL DEF Spec, ImplementsQueue, Queue!Spec

(* The other input drivers leave the ring as it is. *)
LEMMA RingPart == InputSpec => Spec
<1>1. InputInit => Init
  BY DEF InputInit
<1>2. [InputNext]_all => [Next]_vars
  BY DEF InputNext, RingOnly, KeyboardOnly, MouseOnly, ShellOnly, all
<1> QED BY <1>1, <1>2, PTL DEF InputSpec, Spec

(* The interrupted ring implements the indivisible queue (PushChar and     *)
(* KeyboardGetKey): keys come out once each, in the order they were typed, *)
(* and only a full ring refuses one.                                       *)
THEOREM RingIsQueue == InputSpec => ImplementsQueue
BY RingPart, RingAlone, PTL

(* The slots between tail and head hold pushed keys, and an interrupted    *)
(* KeyboardGetKey keeps the key it read.                                   *)
THEOREM RingAlwaysSound == InputSpec => []RingSound
<1>1. IInv => RingSound
  BY DEF IInv
<1> QED BY <1>1, SpecInv, RingPart, PTL

------------------------------------------------------------------------------
(* Bytes of the mouse's stream that were taken from the wire. *)
Consumed == 3 * sent - Len(mouseWire)

MouseByte == [sync : BOOLEAN, btn : SUBSET Buttons, id : Nat]

(* A byte on the wire is one of the three of its packet, and the first has *)
(* its synchronisation bit set.                                            *)
FirstOf(i) == Consumed + i = 3 * (mouseWire[i].id - 1) + 1

MouseTypes ==
  /\ sent \in 0..MaxPackets /\ lost \in Nat
  /\ mouseWire \in Seq(MouseByte) /\ Len(mouseWire) <= 3 * sent
  /\ PacketBytes \in MouseByte
  /\ pressed \in [Buttons -> Nat] /\ reported \in [Buttons -> Nat]
  /\ moved = [x |-> moved.x, y |-> moved.y]

OnWire == \A i \in 1..Len(mouseWire) :
  /\ 3 * (mouseWire[i].id - 1) < Consumed + i /\ Consumed + i <= 3 * mouseWire[i].id
  /\ FirstOf(i) => mouseWire[i].sync

(* A packet was taken whole before it counts, and the one under way counts *)
(* for the first time.                                                     *)
Counted == AccumDx \cup AccumDy \cup dx \cup dy \cup moved.x \cup moved.y

PacketsCount ==
  /\ \A n \in Counted : 3 * n <= Consumed
  /\ PacketIndex # 0 =>
       /\ PacketBytes.id \in 1..sent
       /\ 3 * (PacketBytes.id - 1) + PacketIndex <= Consumed
       /\ \A n \in Counted : n < PacketBytes.id

(* What MouseGetDelta has read it has still to clear, or has cleared.      *)
DeltaInv ==
  /\ M!MotionOnce
  /\ mousePc \in {"clearDy", "clearReady"} => AccumDx \cap dx = {}
  /\ mousePc = "clearReady" => AccumDy \cap dy = {}
  /\ mousePc \notin {"readDy", "clearDx", "clearDy", "clearReady"} => dx = {}
  /\ mousePc \notin {"clearDx", "clearDy", "clearReady"} => dy = {}
  /\ mousePc = "clearLatch" => latch \subseteq PressedLatch

MotionInv == M!TypeOK /\ MouseTypes /\ OnWire /\ PacketsCount /\ DeltaInv

------------------------------------------------------------------------------

LEMMA MouseInit == M!Init => MotionInv
<1> SUFFICES ASSUME M!Init PROVE MotionInv
  OBVIOUS
<1>1. MouseTypes
  <2>1. PacketBytes \in MouseByte /\ mouseWire = << >> /\ Len(mouseWire) = 0 /\ sent = 0
    BY DEF M!Init, M!NoByte, MouseByte
  <2>2. mouseWire \in Seq(MouseByte)
    BY <2>1
  <2> QED BY <2>1, <2>2, PacketConstants DEF M!Init, MouseTypes, M!MouseConstants
<1>2. OnWire /\ PacketsCount
  BY DEF M!Init, OnWire, PacketsCount, Counted
<1>3. M!TypeOK /\ DeltaInv
  <2>1. moved.x = {} /\ moved.y = {} /\ dx = {} /\ dy = {} /\ AccumDx = {} /\ AccumDy = {}
    BY DEF M!Init
  <2>2. M!TypeOK
    <3>1. PacketIndex \in 0..2
      BY DEF M!Init
    <3>2. AccumDx \cup AccumDy \cup dx \cup dy \cup moved.x \cup moved.y \subseteq 1..MaxPackets
      BY <2>1
    <3> QED BY ZenonT(40), <3>1, <3>2 DEF M!Init, M!TypeOK
  <2>3. DeltaInv
    BY <2>1 DEF M!Init, DeltaInv, M!MotionOnce
  <2> QED BY <2>2, <2>3
<1> QED BY <1>1, <1>2, <1>3 DEF MotionInv

(* What a byte taken from the wire does to those behind it. *)
LEMMA TailFacts ==
  ASSUME MouseTypes, OnWire, mouseWire # << >>, mouseWire' = Tail(mouseWire), sent' = sent
  PROVE  /\ mouseWire' \in Seq(MouseByte) /\ Len(mouseWire') = Len(mouseWire) - 1
         /\ Len(mouseWire) \in Nat /\ Len(mouseWire) > 0
         /\ Consumed' = Consumed + 1 /\ Consumed \in Nat
         /\ Head(mouseWire) \in MouseByte /\ Head(mouseWire) = mouseWire[1]
         /\ \A i \in 1..Len(mouseWire') : i + 1 \in 1..Len(mouseWire) /\ mouseWire'[i] = mouseWire[i + 1]
         /\ OnWire'
<1>1. mouseWire \in Seq(MouseByte) /\ Len(mouseWire) <= 3 * sent /\ sent \in Nat
  BY PacketConstants DEF MouseTypes, M!MouseConstants
<1>2. /\ mouseWire' \in Seq(MouseByte) /\ Len(mouseWire') = Len(mouseWire) - 1
      /\ Len(mouseWire) \in Nat /\ Len(mouseWire) > 0
      /\ \A i \in 1..Len(mouseWire') : i + 1 \in 1..Len(mouseWire) /\ mouseWire'[i] = mouseWire[i + 1]
      /\ Head(mouseWire) = mouseWire[1] /\ Head(mouseWire) \in MouseByte
  BY <1>1, HeadTailProperties
<1>3. Consumed' = Consumed + 1 /\ Consumed \in Nat
  BY <1>1, <1>2 DEF Consumed
<1>4. OnWire'
  <2> SUFFICES ASSUME NEW i \in 1..Len(mouseWire')
               PROVE  /\ 3 * (mouseWire'[i].id - 1) < Consumed' + i
                      /\ Consumed' + i <= 3 * mouseWire'[i].id
                      /\ Consumed' + i = 3 * (mouseWire'[i].id - 1) + 1 => mouseWire'[i].sync
    BY DEF OnWire, FirstOf
  <2>1. i + 1 \in 1..Len(mouseWire) /\ mouseWire'[i] = mouseWire[i + 1]
    BY <1>2
  <2>2. Consumed' + i = Consumed + (i + 1)
    BY <1>2, <1>3
  <2>3. /\ 3 * (mouseWire[i + 1].id - 1) < Consumed + (i + 1)
        /\ Consumed + (i + 1) <= 3 * mouseWire[i + 1].id
        /\ Consumed + (i + 1) = 3 * (mouseWire[i + 1].id - 1) + 1 => mouseWire[i + 1].sync
    BY <2>1 DEF OnWire, FirstOf
  <2> QED BY <2>1, <2>2, <2>3
<1> QED BY <1>2, <1>3, <1>4

(* A packet is put on the wire behind what is there. *)
LEMMA SendWire ==
  ASSUME MouseTypes, sent \in Nat, sent' = sent + 1, NEW btn \in SUBSET Buttons,
         NEW d1 \in {M!Plain(sent + 1), M!Likeness(sent + 1)},
         NEW d2 \in {M!Plain(sent + 1), M!Likeness(sent + 1)},
         mouseWire' = mouseWire \o <<[sync |-> TRUE, btn |-> btn, id |-> sent + 1], d1, d2>>
  PROVE  /\ mouseWire' \in Seq(MouseByte) /\ Len(mouseWire') = Len(mouseWire) + 3
         /\ Len(mouseWire) \in Nat /\ Len(mouseWire) <= 3 * sent
         /\ Consumed' = Consumed /\ Consumed \in Int
         /\ \A i \in 1..Len(mouseWire) : mouseWire'[i] = mouseWire[i]
         /\ mouseWire'[Len(mouseWire) + 1].id = sent + 1 /\ mouseWire'[Len(mouseWire) + 1].sync
         /\ mouseWire'[Len(mouseWire) + 1].btn = btn
         /\ mouseWire'[Len(mouseWire) + 2].id = sent + 1
         /\ mouseWire'[Len(mouseWire) + 3].id = sent + 1
<1>1. d1 \in MouseByte /\ d2 \in MouseByte /\ d1.id = sent + 1 /\ d2.id = sent + 1
  <2>1. /\ M!Plain(sent + 1) \in MouseByte /\ M!Plain(sent + 1).id = sent + 1
        /\ M!Likeness(sent + 1) \in MouseByte /\ M!Likeness(sent + 1).id = sent + 1
    BY DEF M!Plain, M!Likeness, MouseByte
  <2> QED BY <2>1
<1> DEFINE s == <<[sync |-> TRUE, btn |-> btn, id |-> sent + 1], d1, d2>>
<1>2. /\ s \in Seq(MouseByte) /\ Len(s) = 3
      /\ s[1].id = sent + 1 /\ s[1].sync /\ s[1].btn = btn /\ s[2].id = sent + 1 /\ s[3].id = sent + 1
  BY <1>1 DEF MouseByte
<1>3. mouseWire' = mouseWire \o s
  OBVIOUS
<1> HIDE DEF s
<1>4. /\ mouseWire \in Seq(MouseByte) /\ s \in Seq(MouseByte) /\ Len(mouseWire) \in Nat
      /\ Len(mouseWire) <= 3 * sent
  BY <1>2 DEF MouseTypes
<1>5. /\ mouseWire' \in Seq(MouseByte) /\ Len(mouseWire') = Len(mouseWire) + Len(s)
      /\ \A i \in 1..(Len(mouseWire) + Len(s)) : mouseWire'[i] =
           IF i <= Len(mouseWire) THEN mouseWire[i] ELSE s[i - Len(mouseWire)]
  <2>1. /\ mouseWire \o s \in Seq(MouseByte) /\ Len(mouseWire \o s) = Len(mouseWire) + Len(s)
        /\ \A i \in 1..(Len(mouseWire) + Len(s)) : (mouseWire \o s)[i] =
             IF i <= Len(mouseWire) THEN mouseWire[i] ELSE s[i - Len(mouseWire)]
    BY <1>4, ConcatProperties
  <2>2. mouseWire' = mouseWire \o s
    BY ZenonT(40), <1>3
  <2> QED BY ZenonT(40), <2>1, <2>2
<1>6. \A k \in 1..3 : mouseWire'[Len(mouseWire) + k] = s[k]
  <2> TAKE k \in 1..3
  <2>1. /\ Len(mouseWire) + k \in 1..(Len(mouseWire) + Len(s)) /\ ~(Len(mouseWire) + k <= Len(mouseWire))
        /\ (Len(mouseWire) + k) - Len(mouseWire) = k
    BY <1>2, <1>4
  <2> QED BY ZenonT(40), <1>5, <2>1
<1>7. \A i \in 1..Len(mouseWire) : i \in 1..(Len(mouseWire) + Len(s)) /\ i <= Len(mouseWire)
  BY <1>2, <1>4
<1>8. Consumed' = Consumed /\ Consumed \in Int
  BY <1>2, <1>4, <1>5 DEF Consumed
<1> QED BY <1>2, <1>4, <1>5, <1>6, <1>7, <1>8

LEMMA SendStep ==
  ASSUME MotionInv, M!SendPacket
  PROVE  MotionInv'
<1>0. M!TypeOK /\ MouseTypes /\ OnWire /\ PacketsCount /\ DeltaInv
  BY DEF MotionInv
<1>1. PICK btn \in SUBSET Buttons, d1, d2 \in {M!Plain(sent + 1), M!Likeness(sent + 1)} :
        /\ mouseWire' = mouseWire \o <<[sync |-> TRUE, btn |-> btn, id |-> sent + 1], d1, d2>>
        /\ held' = btn
        /\ pressed' = [b \in Buttons |-> IF b \in btn \ held THEN pressed[b] + 1 ELSE pressed[b]]
  BY ZenonT(40) DEF M!SendPacket
<1>2. /\ sent < MaxPackets /\ sent' = sent + 1 /\ sent \in Nat /\ MaxPackets \in Nat
      /\ UNCHANGED <<lost, pause, PacketIndex, PacketBytes, LastButtonState>>
      /\ UNCHANGED <<AccumDx, AccumDy, MouseButtons, PressedLatch, MouseDataReady>>
      /\ UNCHANGED <<mousePc, dx, dy, latch, moved, reported>>
      /\ intact' = (intact \/ (pause /\ mouseWire = << >>))
  BY <1>0, PacketConstants DEF M!SendPacket, MouseTypes, M!MouseConstants, M!packet, M!shared, M!poll
<1>3. /\ mouseWire' \in Seq(MouseByte) /\ Len(mouseWire') = Len(mouseWire) + 3
      /\ Len(mouseWire) \in Nat
      /\ Consumed' = Consumed /\ Consumed \in Int
      /\ \A i \in 1..Len(mouseWire) : mouseWire'[i] = mouseWire[i]
      /\ mouseWire'[Len(mouseWire) + 1].id = sent + 1 /\ mouseWire'[Len(mouseWire) + 1].sync
      /\ mouseWire'[Len(mouseWire) + 2].id = sent + 1
      /\ mouseWire'[Len(mouseWire) + 3].id = sent + 1
  BY ZenonT(40), <1>0, <1>1, <1>2, SendWire
<1>4. MouseTypes'
  <2>1. sent' \in 0..MaxPackets /\ lost' \in Nat
    BY <1>0, <1>2 DEF MouseTypes
  <2>2. Len(mouseWire') <= 3 * sent'
    BY <1>0, <1>2, <1>3 DEF MouseTypes
  <2>3. pressed' \in [Buttons -> Nat]
    BY <1>0, <1>1 DEF MouseTypes
  <2> QED BY ZenonT(40), <1>0, <1>2, <1>3, <2>1, <2>2, <2>3 DEF MouseTypes
<1>5. OnWire'
  <2> SUFFICES ASSUME NEW i \in 1..Len(mouseWire')
               PROVE  /\ 3 * (mouseWire'[i].id - 1) < Consumed' + i
                      /\ Consumed' + i <= 3 * mouseWire'[i].id
                      /\ Consumed' + i = 3 * (mouseWire'[i].id - 1) + 1 => mouseWire'[i].sync
    BY DEF OnWire, FirstOf
  <2>1. CASE i \in 1..Len(mouseWire)
    BY ZenonT(40), <1>0, <1>3, <2>1 DEF OnWire, FirstOf
  <2>2. Consumed = 3 * sent - Len(mouseWire)
    BY DEF Consumed
  <2>3. CASE i = Len(mouseWire) + 1
    <3>1. mouseWire'[i].id = sent + 1 /\ mouseWire'[i].sync
      BY <1>3, <2>3
    <3> QED BY <1>2, <1>3, <2>2, <2>3, <3>1
  <2>4. CASE i = Len(mouseWire) + 2 \/ i = Len(mouseWire) + 3
    <3>1. mouseWire'[i].id = sent + 1
      BY <1>3, <2>4
    <3> QED BY <1>2, <1>3, <2>2, <2>4, <3>1
  <2>5. i \in 1..Len(mouseWire) \/ i = Len(mouseWire) + 1 \/ i = Len(mouseWire) + 2
          \/ i = Len(mouseWire) + 3
    BY <1>3
  <2> QED BY <2>1, <2>3, <2>4, <2>5
<1>6. M!TypeOK'
  <2>1. intact' \in BOOLEAN /\ held' \subseteq Buttons
    BY <1>0, <1>1, <1>2 DEF M!TypeOK
  <2> QED BY <1>0, <1>2, <2>1 DEF M!TypeOK
<1>7. PacketsCount'
  BY <1>0, <1>2, <1>3 DEF PacketsCount, Counted
<1>8. DeltaInv'
  BY <1>0, <1>2 DEF DeltaInv, M!MotionOnce
<1> QED BY <1>4, <1>5, <1>6, <1>7, <1>8 DEF MotionInv

LEMMA LoseStep ==
  ASSUME MotionInv, M!LoseByte
  PROVE  MotionInv'
<1>0. M!TypeOK /\ MouseTypes /\ OnWire /\ PacketsCount /\ DeltaInv
  BY DEF MotionInv
<1>1. /\ mouseWire # << >> /\ mouseWire' = Tail(mouseWire) /\ lost' = lost + 1 /\ intact' = FALSE
      /\ UNCHANGED <<held, sent, pressed, pause, PacketIndex, PacketBytes, LastButtonState>>
      /\ UNCHANGED <<AccumDx, AccumDy, MouseButtons, PressedLatch, MouseDataReady>>
      /\ UNCHANGED <<mousePc, dx, dy, latch, moved, reported>>
  BY DEF M!LoseByte, M!packet, M!shared, M!poll
<1>2. /\ mouseWire' \in Seq(MouseByte) /\ Len(mouseWire') = Len(mouseWire) - 1
      /\ Len(mouseWire) \in Nat /\ Consumed' = Consumed + 1 /\ Consumed \in Nat /\ OnWire'
  BY <1>0, <1>1, TailFacts
<1>3. MouseTypes' /\ M!TypeOK'
  <2>1. Len(mouseWire') <= 3 * sent
    BY <1>0, <1>2, PacketConstants DEF MouseTypes, M!MouseConstants
  <2>2. MouseTypes'
    BY <1>0, <1>1, <1>2, <2>1 DEF MouseTypes
  <2>3. M!TypeOK'
    BY ZenonT(40), <1>0, <1>1 DEF M!TypeOK
  <2> QED BY <2>2, <2>3
<1>4. PacketsCount'
  <2>1. \A n \in Counted : n \in Nat
    BY <1>0, PacketConstants DEF Counted, M!TypeOK, M!MouseConstants
  <2>2. PacketIndex \in Nat /\ PacketBytes.id \in Nat
    BY <1>0 DEF M!TypeOK, MouseTypes, MouseByte
  <2>3. Counted' = Counted
    BY <1>1 DEF Counted
  <2> QED BY SMTT(30), <1>0, <1>1, <1>2, <2>1, <2>2, <2>3 DEF PacketsCount
<1>5. DeltaInv'
  BY <1>0, <1>1 DEF DeltaInv, M!MotionOnce
<1> QED BY <1>2, <1>3, <1>4, <1>5 DEF MotionInv

LEMMA IrqStep ==
  ASSUME MotionInv, M!MouseIrqHandler
  PROVE  MotionInv'
<1>0. M!TypeOK /\ MouseTypes /\ OnWire /\ PacketsCount /\ DeltaInv
  BY DEF MotionInv
<1>1. /\ mouseWire # << >> /\ mouseWire' = Tail(mouseWire) /\ pause' = FALSE
      /\ UNCHANGED <<held, sent, lost, intact, pressed>>
      /\ UNCHANGED <<mousePc, dx, dy, latch, moved, reported>>
  BY DEF M!MouseIrqHandler, M!mouse, M!poll
<1>2. /\ mouseWire' \in Seq(MouseByte) /\ Len(mouseWire') = Len(mouseWire) - 1
      /\ Len(mouseWire) \in Nat /\ Len(mouseWire) > 0 /\ Consumed' = Consumed + 1 /\ Consumed \in Nat
      /\ OnWire' /\ Head(mouseWire) \in MouseByte /\ Head(mouseWire) = mouseWire[1]
  BY <1>0, <1>1, TailFacts
<1>3. /\ Head(mouseWire).id \in Nat
      /\ 3 * (Head(mouseWire).id - 1) < Consumed + 1 /\ Consumed + 1 <= 3 * Head(mouseWire).id
  <2>1. 1 \in 1..Len(mouseWire) /\ Head(mouseWire).id \in Nat
    BY <1>2 DEF MouseByte
  <2> QED BY <1>0, <1>2, <2>1 DEF OnWire
<1>4. /\ Len(mouseWire') <= 3 * sent /\ sent \in Nat /\ Consumed + 1 <= 3 * sent
      /\ sent <= MaxPackets /\ MaxPackets \in Nat
  BY <1>0, <1>2, PacketConstants DEF MouseTypes, M!MouseConstants, Consumed
<1>5. /\ \A n \in Counted : n \in Nat
      /\ PacketIndex \in 0..2 /\ PacketBytes.id \in Nat
      /\ M!Index \in 0..2 /\ (M!Index # 0 => M!Index = PacketIndex)
  BY <1>0, <1>4 DEF Counted, M!TypeOK, MouseTypes, MouseByte, M!Index
<1>6. ASSUME PacketBytes' \in MouseByte
      PROVE  MouseTypes'
  BY <1>0, <1>1, <1>2, <1>4, <1>6 DEF MouseTypes
<1>7. CASE /\ M!Index = 0 /\ PacketIndex' = 0
           /\ UNCHANGED <<PacketBytes, LastButtonState, AccumDx, AccumDy, MouseButtons,
                          PressedLatch, MouseDataReady>>
  <2>0. PacketIndex' \in 0..2
    BY <1>7
  <2>1. M!TypeOK'
    BY ZenonT(40), <1>0, <1>1, <1>7, <2>0 DEF M!TypeOK
  <2>2. PacketsCount'
    BY <1>0, <1>1, <1>2, <1>5, <1>7 DEF PacketsCount, Counted
  <2>3. DeltaInv'
    BY <1>0, <1>1, <1>7 DEF DeltaInv, M!MotionOnce
  <2> QED BY ZenonT(40), <1>0, <1>2, <1>6, <1>7, <2>1, <2>2, <2>3 DEF MotionInv, MouseTypes
<1>8. CASE /\ M!Index = 0 /\ PacketIndex' = 1 /\ PacketBytes' = Head(mouseWire)
           /\ UNCHANGED <<LastButtonState, AccumDx, AccumDy, MouseButtons,
                          PressedLatch, MouseDataReady>>
  <2>0. PacketIndex' \in 0..2
    BY <1>8
  <2>1. M!TypeOK'
    BY ZenonT(40), <1>0, <1>1, <1>8, <2>0 DEF M!TypeOK
  <2>2. PacketsCount'
    <3>1. Counted' = Counted /\ \A n \in Counted : 3 * n <= Consumed
      BY <1>0, <1>1, <1>8 DEF PacketsCount, Counted
    <3>2. PacketBytes'.id \in 1..sent /\ 3 * (PacketBytes'.id - 1) + 1 <= Consumed + 1
      BY <1>2, <1>3, <1>4, <1>8
    <3>3. \A n \in Counted : n < PacketBytes'.id /\ 3 * n <= Consumed + 1
      BY <1>2, <1>3, <1>5, <1>8, <3>1
    <3> QED BY <1>1, <1>2, <1>8, <3>1, <3>2, <3>3 DEF PacketsCount
  <2>3. DeltaInv'
    BY <1>0, <1>1, <1>8 DEF DeltaInv, M!MotionOnce
  <2> QED BY <1>2, <1>6, <1>8, <2>1, <2>2, <2>3 DEF MotionInv
<1>9. CASE /\ M!Index = 1 /\ PacketIndex' = 2
           /\ UNCHANGED <<PacketBytes, LastButtonState, AccumDx, AccumDy, MouseButtons,
                          PressedLatch, MouseDataReady>>
  <2>0. PacketIndex' \in 0..2
    BY <1>9
  <2>1. M!TypeOK'
    BY ZenonT(40), <1>0, <1>1, <1>9, <2>0 DEF M!TypeOK
  <2>2. PacketsCount'
    <3>1. Counted' = Counted
      BY <1>1, <1>9 DEF Counted
    <3>2. PacketIndex = 1
      BY <1>5, <1>9
    <3> QED BY <1>0, <1>1, <1>2, <1>5, <1>9, <3>1, <3>2 DEF PacketsCount
  <2>3. DeltaInv'
    BY <1>0, <1>1, <1>9 DEF DeltaInv, M!MotionOnce
  <2> QED BY ZenonT(40), <1>0, <1>2, <1>6, <1>9, <2>1, <2>2, <2>3 DEF MotionInv, MouseTypes
<1>10. CASE M!Index = 2 /\ PacketIndex' = 0 /\ M!Decode(PacketBytes) /\ UNCHANGED PacketBytes
  <2> DEFINE n == PacketBytes.id
  <2>1. /\ AccumDx' = AccumDx \cup {n} /\ AccumDy' = AccumDy \cup {n}
        /\ MouseButtons' = PacketBytes.btn /\ LastButtonState' = PacketBytes.btn
        /\ PressedLatch' = PressedLatch \cup (PacketBytes.btn \ LastButtonState)
        /\ MouseDataReady' = TRUE
    BY <1>10 DEF M!Decode, M!NewlyPressed
  <2>2. /\ PacketIndex = 2 /\ n \in 1..sent
        /\ 3 * (n - 1) + 2 <= Consumed /\ \A m \in Counted : m < n
    BY <1>0, <1>5, <1>10 DEF PacketsCount
  <2>3. n \notin Counted /\ n \in 1..MaxPackets /\ 3 * n <= Consumed + 1
    BY <1>2, <1>4, <1>5, <2>2
  <2>4. PacketBytes.btn \subseteq Buttons
    BY <1>0 DEF MouseTypes, MouseByte
  <2>5. M!TypeOK'
    <3>1. PacketIndex' \in 0..2
      BY <1>10
    <3>2. AccumDx' \cup AccumDy' \cup dx' \cup dy' \cup moved'.x \cup moved'.y \subseteq 1..MaxPackets
      BY <1>0, <1>1, <2>1, <2>3 DEF M!TypeOK
    <3>3. PressedLatch' \subseteq Buttons /\ MouseButtons' \subseteq Buttons
            /\ LastButtonState' \subseteq Buttons
      BY <1>0, <2>1, <2>4 DEF M!TypeOK
    <3> QED BY ZenonT(40), <1>0, <1>1, <2>1, <3>1, <3>2, <3>3 DEF M!TypeOK
  <2>6. PacketsCount'
    <3>1. Counted' = Counted \cup {n}
      BY <1>1, <2>1 DEF Counted
    <3>2. \A m \in Counted : 3 * m <= Consumed + 1
      BY <1>0, <1>2, <1>5 DEF PacketsCount
    <3> QED BY <1>2, <1>10, <2>3, <3>1, <3>2 DEF PacketsCount
  <2>7. DeltaInv'
    <3>1. n \notin dx /\ n \notin dy /\ n \notin moved.x /\ n \notin moved.y
      BY <2>3 DEF Counted
    <3> HIDE DEF n
    <3> QED BY <1>0, <1>1, <2>1, <3>1 DEF DeltaInv, M!MotionOnce
  <2>8. MouseTypes'
    BY <1>0, <1>6, <1>10 DEF MouseTypes
  <2> QED BY <1>2, <2>5, <2>6, <2>7, <2>8 DEF MotionInv
<1> QED BY <1>7, <1>8, <1>9, <1>10 DEF M!MouseIrqHandler, M!shared

(* UiPollMouse, interrupted between any two of its accesses. *)
LEMMA PollStep ==
  ASSUME MotionInv, M!UiPollMouse
  PROVE  MotionInv'
<1>0. M!TypeOK /\ MouseTypes /\ OnWire /\ PacketsCount /\ DeltaInv
  BY DEF MotionInv
<1>1. /\ UNCHANGED <<held, sent, lost, intact, pressed, mouseWire, pause>>
      /\ UNCHANGED <<PacketIndex, PacketBytes, LastButtonState>>
  BY DEF M!UiPollMouse, M!mouse, M!packet
<1>2. Consumed' = Consumed /\ OnWire'
  BY <1>0, <1>1 DEF Consumed, OnWire, FirstOf
<1>3. ASSUME reported' = reported, moved' = moved \/ moved' = [x |-> moved.x \cup dx, y |-> moved.y \cup dy]
      PROVE  MouseTypes' /\ moved'.x \subseteq moved.x \cup dx /\ moved'.y \subseteq moved.y \cup dy
  BY <1>0, <1>1, <1>3 DEF MouseTypes
<1>4. ASSUME Counted' \subseteq Counted PROVE PacketsCount'
  BY <1>0, <1>1, <1>2, <1>4 DEF PacketsCount
<1>5. CASE M!TestReady \/ M!ReadDx \/ M!ReadDy \/ M!ClearDx \/ M!ClearDy \/ M!TakePressed
  <2>1. /\ UNCHANGED <<moved, reported, MouseButtons, PressedLatch, MouseDataReady>>
        /\ \/ M!TestReady /\ UNCHANGED <<AccumDx, AccumDy, dx, dy, latch>>
           \/ M!ReadDx /\ UNCHANGED <<AccumDx, AccumDy, dy, latch>>
           \/ M!ReadDy /\ UNCHANGED <<AccumDx, AccumDy, dx, latch>>
           \/ M!ClearDx /\ UNCHANGED <<AccumDy, dx, dy, latch>>
           \/ M!ClearDy /\ UNCHANGED <<AccumDx, dx, dy, latch>>
           \/ M!TakePressed /\ UNCHANGED <<AccumDx, AccumDy, dx, dy>>
    BY <1>5 DEF M!TestReady, M!ReadDx, M!ReadDy, M!ClearDx, M!ClearDy, M!TakePressed, M!shared
  <2>2. MouseTypes'
    BY <1>3, <2>1
  <2>3. Counted' \subseteq Counted
    BY <2>1 DEF Counted, M!ReadDx, M!ReadDy, M!ClearDx, M!ClearDy
  <2>4. M!TypeOK'
    <3>1. mousePc' \in {"idle", "readDx", "readDy", "clearDx", "clearDy", "clearReady", "take",
            "clearLatch"}
      BY <1>5 DEF M!TestReady, M!ReadDx, M!ReadDy, M!ClearDx, M!ClearDy, M!TakePressed, M!At
    <3>2. latch' \subseteq Buttons
      BY <1>0, <2>1 DEF M!TypeOK, M!TakePressed
    <3>3. Counted \subseteq 1..MaxPackets
      BY <1>0 DEF Counted, M!TypeOK
    <3> QED BY <1>0, <1>1, <2>1, <2>3, <3>1, <3>2, <3>3 DEF M!TypeOK, Counted
  <2>5. DeltaInv'
    BY <1>0, <2>1 DEF DeltaInv, M!MotionOnce, M!TestReady, M!ReadDx, M!ReadDy, M!ClearDx, M!ClearDy,
       M!TakePressed, M!At
  <2> QED BY <1>2, <1>4, <2>2, <2>3, <2>4, <2>5 DEF MotionInv
<1>6. CASE M!ClearReady
  <2>1. /\ mousePc = "clearReady" /\ mousePc' = "take" /\ MouseDataReady' = FALSE
        /\ moved' = [x |-> moved.x \cup dx, y |-> moved.y \cup dy]
        /\ dx' = {} /\ dy' = {}
        /\ UNCHANGED <<latch, reported, AccumDx, AccumDy, MouseButtons, PressedLatch>>
    BY <1>6 DEF M!ClearReady, M!At
  <2>2. MouseTypes' /\ moved'.x = moved.x \cup dx /\ moved'.y = moved.y \cup dy
    BY <1>3, <2>1
  <2>3. Counted' \subseteq Counted
    BY <2>1, <2>2 DEF Counted
  <2>4. M!TypeOK'
    <3>1. Counted \subseteq 1..MaxPackets
      BY <1>0 DEF Counted, M!TypeOK
    <3>2. Counted' = AccumDx' \cup AccumDy' \cup dx' \cup dy' \cup moved'.x \cup moved'.y
      BY DEF Counted
    <3> QED BY ZenonT(40), <1>0, <1>1, <2>1, <2>3, <3>1, <3>2 DEF M!TypeOK
  <2>5. DeltaInv'
    BY <1>0, <2>1, <2>2 DEF DeltaInv, M!MotionOnce
  <2> QED BY <1>2, <1>4, <2>2, <2>3, <2>4, <2>5 DEF MotionInv
<1>7. CASE M!ClearLatch
  <2>1. /\ mousePc = "clearLatch" /\ mousePc' = "idle" /\ PressedLatch' = {} /\ latch' = {}
        /\ reported' = [b \in Buttons |-> IF b \in latch THEN reported[b] + 1 ELSE reported[b]]
        /\ UNCHANGED <<dx, dy, moved, AccumDx, AccumDy, MouseButtons, MouseDataReady>>
    BY <1>7 DEF M!ClearLatch, M!At
  <2>2. reported' \in [Buttons -> Nat]
    BY <1>0, <2>1 DEF MouseTypes
  <2>3. MouseTypes' /\ Counted' = Counted
    BY <1>0, <1>1, <2>1, <2>2 DEF MouseTypes, Counted
  <2>4. M!TypeOK'
    BY <1>0, <1>1, <2>1 DEF M!TypeOK
  <2>5. DeltaInv'
    BY <1>0, <2>1 DEF DeltaInv, M!MotionOnce
  <2> QED BY <1>2, <1>4, <2>3, <2>4, <2>5 DEF MotionInv
<1> QED BY <1>5, <1>6, <1>7 DEF M!UiPollMouse

LEMMA QuietMouseStep ==
  ASSUME MotionInv, M!Quiet
  PROVE  MotionInv'
<1>1. /\ UNCHANGED <<held, sent, lost, intact, pressed, mouseWire>> /\ pause' = TRUE
      /\ UNCHANGED <<PacketIndex, PacketBytes, LastButtonState>>
      /\ UNCHANGED <<AccumDx, AccumDy, MouseButtons, PressedLatch, MouseDataReady>>
      /\ UNCHANGED <<mousePc, dx, dy, latch, moved, reported>>
  BY DEF M!Quiet, M!mouse, M!packet, M!shared, M!poll
<1> QED BY <1>1 DEF MotionInv, M!TypeOK, MouseTypes, OnWire, FirstOf, Consumed, PacketsCount, Counted,
           DeltaInv, M!MotionOnce

------------------------------------------------------------------------------
(* What was sent, packet by packet: g[n] are the buttons of packet n and   *)
(* f[n] the presses up to it.                                              *)
Presses(f, g) ==
  /\ g \in [0..sent -> SUBSET Buttons] /\ f \in [0..sent -> [Buttons -> Nat]]
  /\ g[sent] = held /\ f[sent] = pressed
  /\ \A n \in 0..sent : \A b \in Buttons : f[n][b] <= pressed[b]
  /\ \A n \in 0..sent : n + 1 \in 0..sent => \A b \in Buttons :
       /\ f[n][b] <= f[n + 1][b]
       /\ b \in g[n + 1] \ g[n] => f[n][b] < f[n + 1][b]
  /\ \A i \in 1..Len(mouseWire) : FirstOf(i) => mouseWire[i].btn = g[mouseWire[i].id]

(* Packet q was the last taken whole, index bytes of the next are here.    *)
Stands(q, index, g) ==
  /\ q \in 0..sent /\ Consumed = 3 * q + index
  /\ index # 0 => q + 1 \in 0..sent /\ PacketBytes.btn = g[q + 1]

(* Without loss the decoder is never out of step, and reports no press it  *)
(* has not seen sent.                                                      *)
Clicks(f, g) ==
  lost = 0 =>
    /\ pause => PacketIndex = 0
    /\ \E q \in 0..sent :
         /\ Stands(q, PacketIndex, g) /\ LastButtonState = g[q]
         /\ \A b \in Buttons : /\ reported[b] <= f[q][b]
                               /\ b \in PressedLatch => reported[b] < f[q][b]

(* After a loss it is in step again from the first pause on.               *)
InStep(g) ==
  intact =>
    /\ pause /\ mouseWire = << >> => PacketIndex = 0
    /\ \E q \in 0..sent : Stands(q, M!Index, g) /\ (q = sent => MouseButtons = g[q])

PressInv == \E f, g : Presses(f, g) /\ Clicks(f, g) /\ InStep(g)

MouseInv == MotionInv /\ PressInv

------------------------------------------------------------------------------

LEMMA PressInit == M!Init => PressInv
<1> SUFFICES ASSUME M!Init PROVE PressInv
  OBVIOUS
<1> DEFINE f == [n \in 0..0 |-> [b \in Buttons |-> 0]]
           g == [n \in 0..0 |-> {}]
<1>1. /\ sent = 0 /\ held = {} /\ pressed = [b \in Buttons |-> 0] /\ reported = pressed
      /\ mouseWire = << >> /\ Len(mouseWire) = 0 /\ intact = FALSE /\ PacketIndex = 0
      /\ LastButtonState = {} /\ PressedLatch = {}
  BY DEF M!Init
<1>2. 0 \in 0..0 /\ f[0] = pressed /\ g[0] = {} /\ \A n \in 0..0 : n = 0 /\ n + 1 \notin 0..0
  BY <1>1
<1>3. Presses(f, g)
  <2>1. g \in [0..sent -> SUBSET Buttons] /\ f \in [0..sent -> [Buttons -> Nat]]
    BY <1>1
  <2> HIDE DEF f, g
  <2> QED BY <1>1, <1>2, <2>1 DEF Presses
<1>4. Clicks(f, g)
  <2>1. Stands(0, PacketIndex, g)
    <3>0. Len(mouseWire) = 0 /\ sent = 0 /\ PacketIndex = 0
      BY <1>1
    <3>1. Consumed = 3 * 0 + PacketIndex /\ 0 \in 0..sent
      BY <3>0 DEF Consumed
    <3> QED BY <1>1, <3>1 DEF Stands
  <2>2. \A b \in Buttons : reported[b] <= f[0][b] /\ b \notin PressedLatch
    BY <1>1, <1>2
  <2> HIDE DEF f, g
  <2> QED BY <1>1, <1>2, <2>1, <2>2 DEF Clicks
<1>5. InStep(g)
  BY <1>1 DEF InStep
<1> HIDE DEF f, g
<1> QED BY <1>3, <1>4, <1>5 DEF PressInv

(* The first byte on the wire is the first of its packet when the decoder  *)
(* is in step and waits for one.                                           *)
LEMMA FirstByte ==
  ASSUME MotionInv, mouseWire # << >>, NEW f, NEW g, Presses(f, g), NEW q, Stands(q, 0, g)
  PROVE  /\ Head(mouseWire).sync /\ q + 1 \in 0..sent
         /\ Head(mouseWire).btn = g[q + 1]
<1>0. MouseTypes /\ OnWire
  BY DEF MotionInv
<1>1. /\ Len(mouseWire) \in Nat /\ Len(mouseWire) > 0 /\ Head(mouseWire) = mouseWire[1]
      /\ mouseWire[1].id \in Nat /\ Len(mouseWire) <= 3 * sent /\ sent \in Nat
  <2>1. mouseWire \in Seq(MouseByte) /\ Len(mouseWire) <= 3 * sent /\ sent \in Nat
    BY <1>0, PacketConstants DEF MouseTypes, M!MouseConstants
  <2>2. /\ Len(mouseWire) \in Nat /\ Len(mouseWire) > 0 /\ Head(mouseWire) = mouseWire[1]
        /\ Head(mouseWire) \in MouseByte
    BY <2>1, HeadTailProperties
  <2> QED BY <2>1, <2>2 DEF MouseByte
<1>2. Consumed = 3 * q /\ q \in 0..sent /\ Consumed = 3 * sent - Len(mouseWire)
  BY <1>1 DEF Stands, Consumed
<1>3. 1 \in 1..Len(mouseWire)
  BY <1>1
<1>4. /\ 3 * (mouseWire[1].id - 1) < Consumed + 1 /\ Consumed + 1 <= 3 * mouseWire[1].id
      /\ FirstOf(1) => mouseWire[1].sync /\ mouseWire[1].btn = g[mouseWire[1].id]
  BY <1>0, <1>3 DEF OnWire, Presses
<1>5. mouseWire[1].id = q + 1 /\ q + 1 \in 0..sent
  BY <1>1, <1>2, <1>4
<1>6. FirstOf(1)
  BY <1>2, <1>5 DEF FirstOf
<1> QED BY <1>1, <1>4, <1>5, <1>6

(* What was sent stays as it was when a byte is taken. *)
LEMMA PressesKept ==
  ASSUME MotionInv, NEW f, NEW g, Presses(f, g), UNCHANGED <<sent, held, pressed>>,
         (mouseWire # << >> /\ mouseWire' = Tail(mouseWire)) \/ mouseWire' = mouseWire
  PROVE  Presses(f, g)'
<1>1. ASSUME \A i \in 1..Len(mouseWire') : FirstOf(i)' => mouseWire'[i].btn = g[mouseWire'[i].id]
      PROVE  Presses(f, g)'
  BY <1>1 DEF Presses
<1>2. CASE mouseWire' = mouseWire
  BY <1>1, <1>2 DEF Presses, FirstOf, Consumed
<1>3. CASE mouseWire # << >> /\ mouseWire' = Tail(mouseWire)
  <2>1. /\ Consumed' = Consumed + 1 /\ Consumed \in Nat /\ Len(mouseWire') \in Nat
        /\ \A i \in 1..Len(mouseWire') : i + 1 \in 1..Len(mouseWire) /\ mouseWire'[i] = mouseWire[i + 1]
    <3>1. MouseTypes /\ OnWire
      BY DEF MotionInv
    <3>2. /\ Consumed' = Consumed + 1 /\ Consumed \in Nat
          /\ Len(mouseWire') = Len(mouseWire) - 1 /\ Len(mouseWire) \in Nat /\ Len(mouseWire) > 0
          /\ \A i \in 1..Len(mouseWire') : i + 1 \in 1..Len(mouseWire) /\ mouseWire'[i] = mouseWire[i + 1]
      BY ZenonT(40), <1>3, <3>1, TailFacts
    <3> QED BY <3>2
  <2>2. ASSUME NEW i \in 1..Len(mouseWire'), FirstOf(i)'
        PROVE  mouseWire'[i].btn = g[mouseWire'[i].id]
    <3>1. FirstOf(i + 1)
      BY <2>1, <2>2 DEF FirstOf
    <3> QED BY ZenonT(40), <2>1, <2>2, <3>1 DEF Presses
  <2> QED BY <1>1, <2>2
<1> QED BY <1>2, <1>3

LEMMA SendPresses ==
  ASSUME MotionInv, PressInv, M!SendPacket
  PROVE  PressInv'
<1>0. M!TypeOK /\ MouseTypes /\ OnWire
  BY DEF MotionInv
<1>1. PICK btn \in SUBSET Buttons, d1, d2 \in {M!Plain(sent + 1), M!Likeness(sent + 1)} :
        /\ mouseWire' = mouseWire \o <<[sync |-> TRUE, btn |-> btn, id |-> sent + 1], d1, d2>>
        /\ held' = btn
        /\ pressed' = [b \in Buttons |-> IF b \in btn \ held THEN pressed[b] + 1 ELSE pressed[b]]
  BY ZenonT(40) DEF M!SendPacket
<1>2. /\ sent' = sent + 1 /\ sent \in Nat
      /\ UNCHANGED <<lost, pause, PacketIndex, PacketBytes, LastButtonState>>
      /\ UNCHANGED <<MouseButtons, PressedLatch, reported>>
      /\ intact' = (intact \/ (pause /\ mouseWire = << >>))
  BY <1>0, PacketConstants DEF M!SendPacket, MouseTypes, M!MouseConstants, M!packet, M!shared, M!poll
<1>3. MotionInv'
  BY SendStep
<1>4. PICK f, g : Presses(f, g) /\ Clicks(f, g) /\ InStep(g)
  BY DEF PressInv
<1>F. PICK F : F = [n \in 0..(sent + 1) |-> IF n = sent + 1 THEN pressed' ELSE f[n]]
  BY ZenonT(40)
<1>G. PICK G : G = [n \in 0..(sent + 1) |-> IF n = sent + 1 THEN btn ELSE g[n]]
  BY ZenonT(40)
<1>5. /\ \A n \in 0..sent : n # sent + 1 /\ n \in 0..(sent + 1)
      /\ sent + 1 \in 0..(sent + 1)
      /\ \A n \in 0..(sent + 1) : n = sent + 1 \/ n \in 0..sent
  BY <1>2
<1>6. /\ \A n \in 0..sent : F[n] = f[n] /\ G[n] = g[n]
      /\ F[sent + 1] = pressed' /\ G[sent + 1] = btn
  BY <1>5, <1>F, <1>G
<1>7. pressed' \in [Buttons -> Nat] /\ \A b \in Buttons :
        /\ pressed[b] \in Nat /\ pressed[b] <= pressed'[b]
        /\ b \in btn \ held => pressed[b] < pressed'[b]
  BY <1>0, <1>1 DEF MouseTypes
<1>8. /\ G \in [0..(sent + 1) -> SUBSET Buttons] /\ F \in [0..(sent + 1) -> [Buttons -> Nat]]
  BY <1>4, <1>5, <1>7, <1>F, <1>G DEF Presses
<1>w. /\ Len(mouseWire) \in Nat /\ Len(mouseWire') = Len(mouseWire) + 3 /\ Consumed' = Consumed
      /\ \A i \in 1..Len(mouseWire) : mouseWire'[i] = mouseWire[i]
      /\ mouseWire'[Len(mouseWire) + 1].btn = btn /\ mouseWire'[Len(mouseWire) + 1].id = sent + 1
      /\ mouseWire'[Len(mouseWire) + 2].id = sent + 1 /\ mouseWire'[Len(mouseWire) + 3].id = sent + 1
      /\ Len(mouseWire) <= 3 * sent
  BY ZenonT(40), <1>0, <1>1, <1>2, SendWire
<1>9. Presses(F, G)'
  <2>1. \A n \in 0..sent' : \A b \in Buttons : F[n][b] <= pressed'[b]
    <3> SUFFICES ASSUME NEW n \in 0..(sent + 1), NEW b \in Buttons PROVE F[n][b] <= pressed'[b]
      BY <1>2
    <3>1. CASE n = sent + 1
      BY <1>6, <1>7, <3>1
    <3>2. CASE n \in 0..sent
      <4>1. f[n][b] \in Nat /\ f[n][b] <= pressed[b]
        BY <1>4, <3>2 DEF Presses
      <4>2. pressed[b] \in Nat /\ pressed'[b] \in Nat /\ pressed[b] <= pressed'[b] /\ F[n][b] = f[n][b]
        BY <1>6, <1>7, <3>2
      <4> QED BY <4>1, <4>2
    <3> QED BY <1>5, <3>1, <3>2
  <2>2. \A n \in 0..sent' : n + 1 \in 0..sent' => \A b \in Buttons :
          /\ F[n][b] <= F[n + 1][b]
          /\ b \in G[n + 1] \ G[n] => F[n][b] < F[n + 1][b]
    <3> SUFFICES ASSUME NEW n \in 0..sent', n + 1 \in 0..sent', NEW b \in Buttons
                 PROVE  /\ F[n][b] <= F[n + 1][b]
                        /\ b \in G[n + 1] \ G[n] => F[n][b] < F[n + 1][b]
      BY ZenonT(40)
    <3>1. n \in 0..sent /\ (n = sent \/ n + 1 \in 0..sent)
      BY <1>2
    <3>2. CASE n = sent
      BY <1>4, <1>6, <1>7, <3>1, <3>2 DEF Presses
    <3>3. CASE n + 1 \in 0..sent
      BY <1>4, <1>6, <3>1, <3>3 DEF Presses
    <3> QED BY <3>1, <3>2, <3>3
  <2>3. \A i \in 1..Len(mouseWire') : FirstOf(i)' => mouseWire'[i].btn = G[mouseWire'[i].id]
    <3> SUFFICES ASSUME NEW i \in 1..Len(mouseWire'), FirstOf(i)'
                 PROVE  mouseWire'[i].btn = G[mouseWire'[i].id]
      OBVIOUS
    <3>1. Consumed + i = 3 * (mouseWire'[i].id - 1) + 1 /\ Consumed = 3 * sent - Len(mouseWire)
      BY <1>w DEF FirstOf, Consumed
    <3>2. CASE i \in 1..Len(mouseWire)
      <4>1. FirstOf(i) /\ mouseWire'[i] = mouseWire[i]
        BY ZenonT(40), <1>w, <3>1, <3>2 DEF FirstOf
      <4>2. mouseWire[i].id \in Nat
        <5>1. mouseWire \in Seq(MouseByte)
          BY <1>0 DEF MouseTypes
        <5>2. mouseWire[i] \in MouseByte
          BY <3>2, <5>1, ElementOfSeq
        <5> QED BY <5>2 DEF MouseByte
      <4>3. 3 * (mouseWire[i].id - 1) + 1 <= 3 * sent /\ Consumed + i <= 3 * mouseWire[i].id
              /\ Consumed + i > 0
        <5>1. Consumed + i <= 3 * mouseWire[i].id
          BY <1>0, <3>2 DEF OnWire
        <5>2. Consumed + i = 3 * (mouseWire[i].id - 1) + 1 /\ Consumed = 3 * sent - Len(mouseWire)
          BY <3>1, <4>1
        <5>3. /\ i \in 1..Len(mouseWire) /\ Len(mouseWire) \in Nat /\ sent \in Nat
              /\ Len(mouseWire) <= 3 * sent
          BY <1>2, <1>w, <3>2
        <5>4. 0 <= Consumed /\ Consumed + i <= 3 * sent /\ Consumed + i > 0
          BY ONLY <5>2, <5>3
        <5> QED BY <5>1, <5>2, <5>4
      <4>4. mouseWire[i].id \in 0..sent
        BY <1>2, <4>2, <4>3
      <4> QED BY <1>4, <1>6, <3>2, <4>1, <4>4 DEF Presses
    <3>3. CASE i = Len(mouseWire) + 1
      BY <1>6, <1>w, <3>3
    <3>4. i # Len(mouseWire) + 2 /\ i # Len(mouseWire) + 3
      <4>1. CASE i = Len(mouseWire) + 2 \/ i = Len(mouseWire) + 3
        <5>1. mouseWire'[i].id = sent + 1
          BY <1>w, <4>1
        <5>2. Consumed + i = 3 * sent + 1 /\ Consumed = 3 * sent - Len(mouseWire)
          <6>1. 3 * ((sent + 1) - 1) + 1 = 3 * sent + 1
            BY <1>2
          <6> QED BY <3>1, <5>1, <6>1
        <5>3. Len(mouseWire) \in Nat /\ sent \in Nat
          BY <1>2, <1>w
        <5> QED BY ONLY <4>1, <5>2, <5>3
      <4> QED BY <4>1
    <3> QED BY <1>w, <3>2, <3>3, <3>4
  <2>4. G[sent'] = held' /\ F[sent'] = pressed'
    BY <1>1, <1>2, <1>6
  <2> QED BY <1>2, <1>8, <2>1, <2>2, <2>3, <2>4 DEF Presses
<1>10. ASSUME NEW q, NEW index, Stands(q, index, g)
       PROVE  Stands(q, index, G)' /\ q \in 0..sent' /\ q # sent' /\ F[q] = f[q] /\ G[q] = g[q]
  BY <1>2, <1>5, <1>6, <1>10, <1>w DEF Stands
<1>11. Clicks(F, G)'
  <2> SUFFICES ASSUME lost' = 0
               PROVE  /\ pause' => PacketIndex' = 0
                      /\ \E q \in 0..sent' :
                           /\ Stands(q, PacketIndex, G)' /\ LastButtonState' = G[q]
                           /\ \A b \in Buttons : /\ reported'[b] <= F[q][b]
                                                 /\ b \in PressedLatch' => reported'[b] < F[q][b]
    BY DEF Clicks
  <2>1. PICK q \in 0..sent :
          /\ Stands(q, PacketIndex, g) /\ LastButtonState = g[q]
          /\ \A b \in Buttons : /\ reported[b] <= f[q][b]
                                /\ b \in PressedLatch => reported[b] < f[q][b]
    BY <1>2, <1>4 DEF Clicks
  <2>2. Stands(q, PacketIndex, G)' /\ q \in 0..sent' /\ F[q] = f[q] /\ G[q] = g[q]
    <3>1. PICK index : index = PacketIndex
      OBVIOUS
    <3>2. Stands(q, index, G)' /\ q \in 0..sent' /\ F[q] = f[q] /\ G[q] = g[q]
      BY <1>10, <2>1, <3>1
    <3> QED BY <1>2, <3>1, <3>2
  <2> QED BY <1>2, <1>4, <2>1, <2>2 DEF Clicks
<1>12. InStep(G)'
  <2> SUFFICES ASSUME intact'
               PROVE  \E q \in 0..sent' : Stands(q, M!Index, G)' /\ (q = sent' => MouseButtons' = G[q])
    <3>1. mouseWire' # << >>
      BY <1>w
    <3> QED BY <3>1 DEF InStep
  <2>1. M!Index' = M!Index
    BY <1>2 DEF M!Index
  <2>2. PICK q \in 0..sent : Stands(q, M!Index, g)
    <3>1. CASE intact
      BY <1>4, <3>1 DEF InStep
    <3>2. CASE pause /\ mouseWire = << >>
      <4>1. M!Index = 0 /\ Consumed = 3 * sent
        BY <1>2, <3>2 DEF M!Index, Consumed
      <4> QED BY <1>2, <4>1 DEF Stands
    <3> QED BY ZenonT(40), <1>2, <3>1, <3>2
  <2>3. PICK index : index = M!Index
    OBVIOUS
  <2>4. Stands(q, index, G)' /\ q \in 0..sent' /\ q # sent'
    BY <1>10, <2>2, <2>3
  <2> QED BY <2>1, <2>3, <2>4
<1> QED BY <1>9, <1>11, <1>12 DEF PressInv

LEMMA LosePresses ==
  ASSUME MotionInv, PressInv, M!LoseByte
  PROVE  PressInv'
<1>1. /\ mouseWire # << >> /\ mouseWire' = Tail(mouseWire) /\ lost' = lost + 1 /\ intact' = FALSE
      /\ UNCHANGED <<held, sent, pressed>>
  BY DEF M!LoseByte
<1>2. lost' # 0
  BY <1>1 DEF MotionInv, MouseTypes
<1>3. PICK f, g : Presses(f, g)
  BY DEF PressInv
<1>4. Presses(f, g)'
  BY <1>1, <1>3, PressesKept
<1>5. Clicks(f, g)' /\ InStep(g)'
  BY <1>1, <1>2 DEF Clicks, InStep
<1> QED BY <1>4, <1>5 DEF PressInv

(* When the wire is empty a decoder in step waits for a first byte. *)
LEMMA QuietPresses ==
  ASSUME MotionInv, PressInv, M!Quiet
  PROVE  PressInv'
<1>1. /\ mouseWire = << >> /\ ~pause /\ pause' = TRUE
      /\ UNCHANGED <<held, sent, lost, intact, pressed, mouseWire>>
      /\ UNCHANGED <<PacketIndex, PacketBytes, LastButtonState, MouseButtons, PressedLatch, reported>>
  BY DEF M!Quiet, M!mouse, M!packet, M!shared, M!poll
<1>2. /\ Consumed = 3 * sent /\ Consumed' = Consumed /\ sent \in Nat /\ PacketIndex \in 0..2
      /\ M!Index = PacketIndex /\ M!Index' = 0
  <2>1. sent \in Nat /\ PacketIndex \in 0..2 /\ Len(mouseWire) = 0
    BY <1>1, PacketConstants DEF MotionInv, MouseTypes, M!TypeOK, M!MouseConstants
  <2>2. M!Index = PacketIndex /\ M!Index' = 0
    BY <1>1 DEF M!Index
  <2> QED BY <1>1, <2>1, <2>2 DEF Consumed
<1>3. PICK f, g : Presses(f, g) /\ Clicks(f, g) /\ InStep(g)
  BY DEF PressInv
<1>4. Presses(f, g)'
  BY <1>1, <1>3, PressesKept
<1>5. ASSUME NEW q, Stands(q, PacketIndex, g)
      PROVE  PacketIndex = 0 /\ q = sent /\ q \in 0..sent' /\ Stands(q, 0, g)'
  <2>1. q \in 0..sent /\ Consumed = 3 * q + PacketIndex
    BY <1>5 DEF Stands
  <2>2. PacketIndex = 0 /\ q = sent
    BY <1>2, <2>1
  <2> QED BY <1>1, <1>2, <2>1, <2>2 DEF Stands
<1>6. Clicks(f, g)'
  <2> SUFFICES ASSUME lost = 0
               PROVE  /\ PacketIndex' = 0
                      /\ \E q \in 0..sent' :
                           /\ Stands(q, PacketIndex, g)' /\ LastButtonState' = g[q]
                           /\ \A b \in Buttons : /\ reported'[b] <= f[q][b]
                                                 /\ b \in PressedLatch' => reported'[b] < f[q][b]
    BY <1>1 DEF Clicks
  <2>1. PICK q \in 0..sent :
          /\ Stands(q, PacketIndex, g) /\ LastButtonState = g[q]
          /\ \A b \in Buttons : /\ reported[b] <= f[q][b]
                                /\ b \in PressedLatch => reported[b] < f[q][b]
    BY <1>3 DEF Clicks
  <2>2. PacketIndex' = 0 /\ q \in 0..sent' /\ Stands(q, PacketIndex, g)'
    BY <1>1, <1>5, <2>1
  <2> QED BY <1>1, <2>1, <2>2
<1>7. InStep(g)'
  <2> SUFFICES ASSUME intact
               PROVE  /\ PacketIndex' = 0
                      /\ \E q \in 0..sent' : Stands(q, M!Index, g)' /\ (q = sent' => MouseButtons' = g[q])
    BY <1>1 DEF InStep
  <2>1. PICK q \in 0..sent : Stands(q, PacketIndex, g) /\ (q = sent => MouseButtons = g[q])
    BY <1>2, <1>3 DEF InStep
  <2>2. PacketIndex' = 0 /\ q \in 0..sent' /\ Stands(q, M!Index, g)'
    BY <1>1, <1>2, <1>5, <2>1
  <2> QED BY <1>1, <2>1, <2>2
<1> QED BY <1>4, <1>6, <1>7 DEF PressInv

(* A decoder in step stays in step: it takes the next byte of the packet,  *)
(* or the last one and has its buttons.                                    *)
LEMMA StandsOn ==
  ASSUME MotionInv, M!MouseIrqHandler, NEW f, NEW g, Presses(f, g), NEW q, Stands(q, M!Index, g)
  PROVE  \/ /\ Stands(q, PacketIndex, g)' /\ PacketIndex' # 0 /\ q # sent
            /\ UNCHANGED <<LastButtonState, MouseButtons, PressedLatch>>
         \/ /\ Stands(q + 1, PacketIndex, g)' /\ q + 1 \in 0..sent
            /\ MouseButtons' = g[q + 1] /\ LastButtonState' = g[q + 1]
            /\ PressedLatch' = PressedLatch \cup (g[q + 1] \ LastButtonState)
<1>0. MouseTypes /\ OnWire
  BY DEF MotionInv
<1>1. /\ mouseWire # << >> /\ mouseWire' = Tail(mouseWire) /\ pause' = FALSE
      /\ UNCHANGED <<held, sent, lost, intact, pressed, reported>>
  BY DEF M!MouseIrqHandler, M!mouse, M!poll
<1>2. /\ Consumed' = Consumed + 1 /\ Consumed \in Nat /\ sent \in Nat
      /\ q \in 0..sent /\ Consumed = 3 * q + M!Index
  <2>1. Consumed' = Consumed + 1 /\ Consumed \in Nat
    BY <1>0, <1>1, TailFacts
  <2>2. sent \in Nat
    BY <1>0, PacketConstants DEF MouseTypes, M!MouseConstants
  <2> QED BY <2>1, <2>2 DEF Stands
<1>3. M!Index # 0 => q + 1 \in 0..sent /\ PacketBytes.btn = g[q + 1]
  BY DEF Stands
<1>4. ASSUME M!Index = 0
      PROVE  Head(mouseWire).sync /\ q + 1 \in 0..sent /\ Head(mouseWire).btn = g[q + 1]
  BY <1>1, <1>4, FirstByte
<1>5. CASE M!Index = 0
  <2>1. /\ PacketIndex' = 1 /\ PacketBytes' = Head(mouseWire)
        /\ UNCHANGED <<LastButtonState, MouseButtons, PressedLatch>>
    BY <1>4, <1>5 DEF M!MouseIrqHandler, M!shared
  <2>2. q # sent /\ Consumed' = 3 * q + 1 /\ q \in 0..sent'
    BY <1>1, <1>2, <1>4, <1>5
  <2>3. PacketBytes'.btn = g[q + 1] /\ q + 1 \in 0..sent'
    BY <1>1, <1>4, <1>5, <2>1
  <2>4. Stands(q, PacketIndex, g)'
    BY <2>1, <2>2, <2>3 DEF Stands
  <2> QED BY <2>1, <2>2, <2>4
<1>6. CASE M!Index = 1
  <2>1. /\ PacketIndex' = 2 /\ PacketBytes' = PacketBytes
        /\ UNCHANGED <<LastButtonState, MouseButtons, PressedLatch>>
    BY <1>6 DEF M!MouseIrqHandler, M!shared
  <2>2. q # sent /\ Consumed' = 3 * q + 2 /\ q \in 0..sent'
    BY <1>1, <1>2, <1>3, <1>6
  <2>3. PacketBytes'.btn = g[q + 1] /\ q + 1 \in 0..sent'
    BY <1>1, <1>3, <1>6, <2>1
  <2>4. Stands(q, PacketIndex, g)'
    BY <2>1, <2>2, <2>3 DEF Stands
  <2> QED BY <2>1, <2>2, <2>4
<1>7. CASE M!Index = 2
  <2>1. PacketIndex' = 0 /\ M!Decode(PacketBytes)
    BY <1>7 DEF M!MouseIrqHandler
  <2>2. q + 1 \in 0..sent /\ PacketBytes.btn = g[q + 1]
    BY <1>3, <1>7
  <2>3. /\ MouseButtons' = g[q + 1] /\ LastButtonState' = g[q + 1]
        /\ PressedLatch' = PressedLatch \cup (g[q + 1] \ LastButtonState)
    BY <2>1, <2>2 DEF M!Decode, M!NewlyPressed
  <2>4. q + 1 \in 0..sent' /\ Consumed' = 3 * (q + 1)
    BY <1>1, <1>2, <1>7, <2>2
  <2>5. Stands(q + 1, PacketIndex, g)'
    BY <2>1, <2>4 DEF Stands
  <2> QED BY <2>2, <2>3, <2>5
<1> QED BY <1>5, <1>6, <1>7 DEF M!MouseIrqHandler

LEMMA IrqPresses ==
  ASSUME MotionInv, PressInv, M!MouseIrqHandler
  PROVE  PressInv'
<1>1. /\ mouseWire # << >> /\ mouseWire' = Tail(mouseWire) /\ pause' = FALSE
      /\ UNCHANGED <<held, sent, lost, intact, pressed, reported>>
  BY DEF M!MouseIrqHandler, M!mouse, M!poll
<1>2. M!Index' = PacketIndex' /\ \A b \in Buttons : reported[b] \in Nat
  BY <1>1 DEF M!Index, MotionInv, MouseTypes
<1>3. PICK f, g : Presses(f, g) /\ Clicks(f, g) /\ InStep(g)
  BY DEF PressInv
<1>4. Presses(f, g)'
  BY <1>1, <1>3, PressesKept
<1>5. Clicks(f, g)'
  <2> SUFFICES ASSUME lost = 0
               PROVE  \E q \in 0..sent' :
                        /\ Stands(q, PacketIndex, g)' /\ LastButtonState' = g[q]
                        /\ \A b \in Buttons : /\ reported'[b] <= f[q][b]
                                              /\ b \in PressedLatch' => reported'[b] < f[q][b]
    BY <1>1 DEF Clicks
  <2>1. PICK q \in 0..sent :
          /\ Stands(q, PacketIndex, g) /\ LastButtonState = g[q]
          /\ \A b \in Buttons : /\ reported[b] <= f[q][b]
                                /\ b \in PressedLatch => reported[b] < f[q][b]
    BY <1>3 DEF Clicks
  <2>2. Stands(q, M!Index, g)
    <3>1. pause => PacketIndex = 0
      BY <1>3 DEF Clicks
    <3>2. M!Index = PacketIndex
      BY <3>1 DEF M!Index
    <3> QED BY <2>1, <3>2
  <2>3. CASE /\ Stands(q, PacketIndex, g)'
             /\ UNCHANGED <<LastButtonState, MouseButtons, PressedLatch>>
    BY <1>1, <2>1, <2>3
  <2>4. CASE /\ Stands(q + 1, PacketIndex, g)' /\ q + 1 \in 0..sent
             /\ MouseButtons' = g[q + 1] /\ LastButtonState' = g[q + 1]
             /\ PressedLatch' = PressedLatch \cup (g[q + 1] \ LastButtonState)
    <3>1. \A b \in Buttons : /\ f[q][b] \in Nat /\ f[q + 1][b] \in Nat /\ f[q][b] <= f[q + 1][b]
                             /\ b \in g[q + 1] \ g[q] => f[q][b] < f[q + 1][b]
      BY <1>3, <2>1, <2>4 DEF Presses
    <3>2. \A b \in Buttons : b \in PressedLatch' => b \in PressedLatch \/ b \in g[q + 1] \ g[q]
      BY <2>1, <2>4
    <3>3. \A b \in Buttons : /\ reported'[b] <= f[q + 1][b]
                             /\ b \in PressedLatch' => reported'[b] < f[q + 1][b]
      BY <1>1, <1>2, <2>1, <3>1, <3>2
    <3> QED BY <1>1, <2>4, <3>3
  <2> QED BY <1>3, <2>2, <2>3, <2>4, StandsOn
<1>6. InStep(g)'
  <2> SUFFICES ASSUME intact
               PROVE  \E q \in 0..sent' : Stands(q, PacketIndex, g)' /\ (q = sent' => MouseButtons' = g[q])
    BY <1>1, <1>2 DEF InStep
  <2>1. PICK q \in 0..sent : Stands(q, M!Index, g)
    BY <1>3 DEF InStep
  <2> QED BY <1>1, <1>3, <2>1, StandsOn
<1> QED BY <1>4, <1>5, <1>6 DEF PressInv

(* What MouseTakePressed clears was in the latch, and the latch only grew. *)
LEMMA PollPresses ==
  ASSUME MotionInv, PressInv, M!UiPollMouse
  PROVE  PressInv'
<1>1. /\ UNCHANGED <<held, sent, lost, intact, pressed, mouseWire, pause>>
      /\ UNCHANGED <<PacketIndex, PacketBytes, LastButtonState>>
  BY DEF M!UiPollMouse, M!mouse, M!packet
<1>2. /\ MouseButtons' = MouseButtons
      /\ \/ UNCHANGED <<PressedLatch, reported>>
         \/ /\ PressedLatch' = {} /\ latch \subseteq PressedLatch
            /\ reported' = [b \in Buttons |-> IF b \in latch THEN reported[b] + 1 ELSE reported[b]]
  <2>1. CASE M!ClearLatch
    BY <2>1 DEF M!ClearLatch, M!At, MotionInv, DeltaInv
  <2>2. CASE ~M!ClearLatch
    BY <2>2 DEF M!UiPollMouse, M!TestReady, M!ReadDx, M!ReadDy, M!ClearDx, M!ClearDy, M!ClearReady,
       M!TakePressed, M!shared
  <2> QED BY <2>1, <2>2
<1>3. PICK f, g : Presses(f, g) /\ Clicks(f, g) /\ InStep(g)
  BY DEF PressInv
<1>4. Presses(f, g)'
  BY <1>1, <1>3, PressesKept
<1>5. ASSUME NEW q, NEW index, Stands(q, index, g)
      PROVE  Stands(q, index, g)'
  BY <1>1, <1>5 DEF Stands, Consumed
<1>6. PacketIndex' = PacketIndex /\ M!Index' = M!Index
  BY <1>1 DEF M!Index
<1>7. Clicks(f, g)'
  <2> SUFFICES ASSUME lost = 0
               PROVE  /\ pause' => PacketIndex' = 0
                      /\ \E q \in 0..sent' :
                           /\ Stands(q, PacketIndex, g)' /\ LastButtonState' = g[q]
                           /\ \A b \in Buttons : /\ reported'[b] <= f[q][b]
                                                 /\ b \in PressedLatch' => reported'[b] < f[q][b]
    BY <1>1 DEF Clicks
  <2>1. PICK q \in 0..sent :
          /\ Stands(q, PacketIndex, g) /\ LastButtonState = g[q]
          /\ \A b \in Buttons : /\ reported[b] <= f[q][b]
                                /\ b \in PressedLatch => reported[b] < f[q][b]
    BY <1>3 DEF Clicks
  <2>2. PICK index : index = PacketIndex
    OBVIOUS
  <2>3. Stands(q, index, g)'
    BY <1>5, <2>1, <2>2
  <2>4. \A b \in Buttons : f[q][b] \in Nat /\ reported[b] \in Nat
    BY <1>3 DEF Presses, MotionInv, MouseTypes
  <2>5. \A b \in Buttons : /\ reported'[b] <= f[q][b]
                           /\ b \in PressedLatch' => reported'[b] < f[q][b]
    BY <1>2, <2>1, <2>4
  <2> QED BY <1>1, <1>3, <1>6, <2>1, <2>2, <2>3, <2>5 DEF Clicks
<1>8. InStep(g)'
  <2> SUFFICES ASSUME intact
               PROVE  /\ pause' /\ mouseWire' = << >> => PacketIndex' = 0
                      /\ \E q \in 0..sent' : Stands(q, M!Index, g)' /\ (q = sent' => MouseButtons' = g[q])
    BY <1>1 DEF InStep
  <2>1. PICK q \in 0..sent : Stands(q, M!Index, g) /\ (q = sent => MouseButtons = g[q])
    BY <1>3 DEF InStep
  <2>2. PICK index : index = M!Index
    OBVIOUS
  <2>3. Stands(q, index, g)'
    BY <1>5, <2>1, <2>2
  <2> QED BY <1>1, <1>2, <1>3, <1>6, <2>1, <2>2, <2>3 DEF InStep
<1> QED BY <1>4, <1>7, <1>8 DEF PressInv

------------------------------------------------------------------------------

LEMMA MouseStep ==
  ASSUME MouseInv, [M!Next]_mouse
  PROVE  MouseInv'
<1>1. MotionInv /\ PressInv
  BY DEF MouseInv
<1>2. CASE M!SendPacket
  BY <1>1, <1>2, SendStep, SendPresses DEF MouseInv
<1>3. CASE M!LoseByte
  BY <1>1, <1>3, LoseStep, LosePresses DEF MouseInv
<1>4. CASE M!Quiet
  BY <1>1, <1>4, QuietMouseStep, QuietPresses DEF MouseInv
<1>5. CASE M!MouseIrqHandler
  BY <1>1, <1>5, IrqStep, IrqPresses DEF MouseInv
<1>6. CASE M!UiPollMouse
  BY <1>1, <1>6, PollStep, PollPresses DEF MouseInv
<1>7. CASE UNCHANGED mouse
  <2>1. MotionInv'
    BY <1>1, <1>7 DEF mouse, MotionInv, M!TypeOK, MouseTypes, OnWire, FirstOf, Consumed, PacketsCount,
       Counted, DeltaInv, M!MotionOnce
  <2>2. PressInv'
    <3>1. PICK f, g : Presses(f, g) /\ Clicks(f, g) /\ InStep(g)
      BY <1>1 DEF PressInv
    <3>2. Presses(f, g)' /\ Clicks(f, g)'
      BY <1>7, <3>1 DEF mouse, Presses, Clicks, Stands, FirstOf, Consumed
    <3>3. InStep(g)'
      BY <1>7, <3>1 DEF mouse, InStep, Stands, Consumed, M!Index
    <3> QED BY <3>2, <3>3 DEF PressInv
  <2> QED BY <2>1, <2>2 DEF MouseInv
<1> QED BY <1>2, <1>3, <1>4, <1>5, <1>6, <1>7 DEF M!Next

LEMMA MouseInvRight == MouseInv => MouseRight
<1> SUFFICES ASSUME MouseInv PROVE MouseRight
  OBVIOUS
<1>0. MotionInv
  BY DEF MouseInv
<1>1. PICK f, g : Presses(f, g) /\ Clicks(f, g) /\ InStep(g)
  BY DEF MouseInv, PressInv
<1>2. M!MotionOnce
  BY <1>0 DEF MotionInv, DeltaInv
<1>3. M!ClickOnce
  <2> SUFFICES ASSUME lost = 0, NEW b \in Buttons PROVE reported[b] <= pressed[b]
    BY DEF M!ClickOnce
  <2>1. PICK q \in 0..sent : reported[b] <= f[q][b]
    BY <1>1 DEF Clicks
  <2>2. f[q][b] <= pressed[b] /\ f[q][b] \in Nat /\ pressed[b] \in Nat /\ reported[b] \in Nat
    BY <1>0, <1>1 DEF Presses, MotionInv, MouseTypes
  <2> QED BY <2>1, <2>2
<1>4. M!Realigns
  <2> SUFFICES ASSUME intact, mouseWire = << >> PROVE MouseButtons = held /\ PacketIndex = 0
    BY DEF M!Realigns
  <2>1. PICK q \in 0..sent : Stands(q, M!Index, g) /\ (q = sent => MouseButtons = g[q])
    BY <1>1 DEF InStep
  <2>2. Consumed = 3 * sent /\ sent \in Nat /\ PacketIndex \in 0..2 /\ M!Index \in 0..2
    <3>1. sent \in Nat /\ PacketIndex \in 0..2 /\ Len(mouseWire) = 0
      BY <1>0, PacketConstants DEF MotionInv, MouseTypes, M!TypeOK, M!MouseConstants
    <3>2. M!Index \in 0..2
      BY <3>1 DEF M!Index
    <3> QED BY <3>1, <3>2 DEF Consumed
  <2>3. Consumed = 3 * q + M!Index
    BY <2>1 DEF Stands
  <2>4. q = sent /\ M!Index = 0
    BY <2>1, <2>2, <2>3
  <2>5. PacketIndex = 0
    BY <1>1, <2>4 DEF InStep, M!Index
  <2> QED BY <1>1, <2>1, <2>4, <2>5 DEF Presses
<1> QED BY <1>2, <1>3, <1>4 DEF MouseRight

LEMMA MouseAlways == InputSpec => []MouseInv
<1>1. InputInit => MouseInv
  BY MouseInit, PressInit DEF InputInit, MouseInv
<1>2. MouseInv /\ [InputNext]_all => MouseInv'
  <2> SUFFICES ASSUME MouseInv, [InputNext]_all PROVE MouseInv'
    OBVIOUS
  <2>1. [M!Next]_mouse
    BY DEF InputNext, RingOnly, KeyboardOnly, MouseOnly, ShellOnly, all
  <2> QED BY <2>1, MouseStep
<1> QED BY <1>1, <1>2, PTL DEF InputSpec

(* MouseRight is an invariant of the input drivers for every number of     *)
(* packets and of bytes lost: after a pause the decoder finds the start of *)
(* a packet again, and each motion and each press counts at most once,     *)
(* wherever the interrupt comes in the main loop.                          *)
THEOREM MouseCorrect == InputSpec => []MouseRight
<1>1. MouseInv => MouseRight
  BY MouseInvRight
<1> QED BY <1>1, MouseAlways, PTL
------------------------------------------------------------------------------
(* The decoder's state: the flags that are on and the keys typed.          *)
Flags == {"shift", "ctrl", "alt", "caps", "ext"}
Chars == {"UP", "ctrlA", "a", "A", "1", "bang", "8"}
Decoder == [on : SUBSET Flags, ty : Seq(Chars)]
Codes == {"60", "61", "7A", "2A", "36", "1D", "38", "3A", "45", "46", "1E", "02", "48", "37"}
KeyByte == [code : Codes, up : BOOLEAN]

Mod(on, code) ==
  CASE code \in {"2A", "36"} /\ "ext" \notin on -> {"shift"}
    [] code = "1D" -> {"ctrl"}
    [] code = "38" -> {"alt"}
    [] OTHER -> {}

Char(on, code) ==
  CASE code = "1E" -> IF "shift" \in on <=> "caps" \in on THEN "a" ELSE "A"
    [] code = "02" -> IF "shift" \in on THEN "bang" ELSE "1"
    [] OTHER -> "8"

KeyOf(on, code) ==
  CASE "ext" \in on -> IF code = "48" THEN <<"UP">> ELSE << >>
    [] "ext" \notin on /\ code \notin {"1E", "02", "48"} -> << >>
    [] OTHER -> IF "ctrl" \in on /\ "alt" \notin on /\ code = "1E" THEN <<"ctrlA">>
                ELSE IF "ctrl" \in on \/ "alt" \in on THEN << >> ELSE <<Char(on, code)>>

Lock(on, code) == IF code = "3A" /\ "ext" \notin on THEN {"caps"} ELSE {}

(* What a byte makes of it. *)
OnAfter(on, b) ==
  IF b = K!E0 THEN on \cup {"ext"}
  ELSE IF b.up THEN (on \ Mod(on, b.code)) \ {"ext"}
  ELSE (((on \ Lock(on, b.code)) \cup (Lock(on, b.code) \ on)) \cup Mod(on, b.code)) \ {"ext"}

TypedAfter(on, b) ==
  IF b = K!E0 \/ b.up \/ Mod(on, b.code) # {} THEN << >> ELSE KeyOf(on, b.code)

After(s, b) == [on |-> OnAfter(s.on, b), ty |-> s.ty \o TypedAfter(s.on, b)]

PrefixOf(s, t) == Len(s) <= Len(t) /\ \A i \in 1..Len(s) : s[i] = t[i]

(* The bytes of w take the decoder from s to t. *)
RunOf(w, s, t) ==
  \E r \in [0..Len(w) -> Decoder] :
    /\ r[0] = s /\ r[Len(w)] = t
    /\ \A i \in 1..Len(w) : r[i] = After(r[i - 1], w[i])
    /\ \A i \in 0..Len(w) : PrefixOf(r[i].ty, t.ty)

------------------------------------------------------------------------------

LEMMA PrefixSame == ASSUME NEW s \in Seq(Chars) PROVE PrefixOf(s, s)
BY DEF PrefixOf

LEMMA PrefixOn ==
  ASSUME NEW s \in Seq(Chars), NEW t \in Seq(Chars), NEW u \in Seq(Chars), PrefixOf(s, t), PrefixOf(t, u)
  PROVE  PrefixOf(s, u)
<1>1. Len(s) \in Nat /\ Len(t) \in Nat /\ Len(u) \in Nat /\ Len(s) <= Len(t) /\ Len(t) <= Len(u)
  BY DEF PrefixOf
<1>2. ASSUME NEW i \in 1..Len(s) PROVE s[i] = u[i]
  <2>1. i \in 1..Len(t)
    BY <1>1
  <2> QED BY <2>1 DEF PrefixOf
<1> QED BY <1>1, <1>2 DEF PrefixOf

LEMMA PrefixConcat ==
  ASSUME NEW s \in Seq(Chars), NEW x \in Seq(Chars)
  PROVE  s \o x \in Seq(Chars) /\ PrefixOf(s, s \o x) /\ Len(s \o x) = Len(s) + Len(x)
<1>1. /\ s \o x \in Seq(Chars) /\ Len(s \o x) = Len(s) + Len(x)
      /\ \A i \in 1..(Len(s) + Len(x)) : (s \o x)[i] = IF i <= Len(s) THEN s[i] ELSE x[i - Len(s)]
  BY ConcatProperties
<1>2. Len(s) \in Nat /\ Len(x) \in Nat
  OBVIOUS
<1>3. \A i \in 1..Len(s) : i \in 1..(Len(s) + Len(x)) /\ i <= Len(s)
  BY <1>2
<1> QED BY <1>1, <1>2, <1>3 DEF PrefixOf

(* A byte types one key at most. *)
LEMMA TypedOne ==
  ASSUME NEW on, NEW b
  PROVE  /\ TypedAfter(on, b) = << >> \/ \E c \in Chars : TypedAfter(on, b) = <<c>>
         /\ TypedAfter(on, b) \in Seq(Chars)
<1>1. Char(on, b.code) \in Chars /\ "UP" \in Chars /\ "ctrlA" \in Chars
  BY DEF Char, Chars
<1>2. KeyOf(on, b.code) = << >> \/ \E c \in Chars : KeyOf(on, b.code) = <<c>>
  BY <1>1 DEF KeyOf
<1>3. TypedAfter(on, b) = << >> \/ \E c \in Chars : TypedAfter(on, b) = <<c>>
  BY <1>2 DEF TypedAfter
<1>4. << >> \in Seq(Chars) /\ \A c \in Chars : <<c>> \in Seq(Chars)
  OBVIOUS
<1> QED BY ZenonT(40), <1>3, <1>4

LEMMA AfterFacts ==
  ASSUME NEW s \in Decoder, NEW b
  PROVE  After(s, b) \in Decoder /\ PrefixOf(s.ty, After(s, b).ty)
<1>1. s.on \subseteq Flags /\ s.ty \in Seq(Chars)
  BY DEF Decoder
<1>2. TypedAfter(s.on, b) \in Seq(Chars)
  BY TypedOne
<1>3. OnAfter(s.on, b) \subseteq Flags
  BY <1>1 DEF OnAfter, Mod, Lock, Flags
<1>4. s.ty \o TypedAfter(s.on, b) \in Seq(Chars) /\ PrefixOf(s.ty, s.ty \o TypedAfter(s.on, b))
  BY <1>1, <1>2, PrefixConcat
<1> QED BY <1>3, <1>4 DEF After, Decoder

LEMMA RunNone == ASSUME NEW s \in Decoder PROVE RunOf(<< >>, s, s)
<1>1. PICK r : r = [i \in 0..0 |-> s]
  BY ZenonT(40)
<1>2. r \in [0..Len(<< >>) -> Decoder] /\ r[0] = s /\ Len(<< >>) = 0 /\ \A i \in 0..0 : r[i] = s
  BY <1>1
<1>3. PrefixOf(s.ty, s.ty)
  BY PrefixSame DEF Decoder
<1> QED BY <1>2, <1>3 DEF RunOf

LEMMA RunOne == ASSUME NEW s \in Decoder, NEW b PROVE RunOf(<<b>>, s, After(s, b))
<1>1. PICK r : r = [i \in 0..1 |-> IF i = 0 THEN s ELSE After(s, b)]
  BY ZenonT(40)
<1>2. After(s, b) \in Decoder /\ PrefixOf(s.ty, After(s, b).ty) /\ PrefixOf(After(s, b).ty, After(s, b).ty)
  BY AfterFacts, PrefixSame DEF Decoder
<1>3. r \in [0..1 -> Decoder] /\ r[0] = s /\ r[1] = After(s, b) /\ Len(<<b>>) = 1 /\ <<b>>[1] = b
  BY <1>1, <1>2
<1>4. \A i \in 1..1 : i = 1 /\ i - 1 = 0
  OBVIOUS
<1>5. \A i \in 0..1 : i = 0 \/ i = 1
  OBVIOUS
<1> QED BY <1>2, <1>3, <1>4, <1>5 DEF RunOf

LEMMA RunConcat ==
  ASSUME NEW w \in Seq(KeyByte), NEW u \in Seq(KeyByte), NEW s, NEW t, NEW v, RunOf(w, s, t), RunOf(u, t, v)
  PROVE  RunOf(w \o u, s, v)
<1>1. PICK p \in [0..Len(w) -> Decoder] :
        /\ p[0] = s /\ p[Len(w)] = t
        /\ \A i \in 1..Len(w) : p[i] = After(p[i - 1], w[i])
        /\ \A i \in 0..Len(w) : PrefixOf(p[i].ty, t.ty)
  BY ZenonT(40) DEF RunOf
<1>2. PICK q \in [0..Len(u) -> Decoder] :
        /\ q[0] = t /\ q[Len(u)] = v
        /\ \A i \in 1..Len(u) : q[i] = After(q[i - 1], u[i])
        /\ \A i \in 0..Len(u) : PrefixOf(q[i].ty, v.ty)
  BY ZenonT(40) DEF RunOf
<1>3. /\ Len(w) \in Nat /\ Len(u) \in Nat /\ Len(w \o u) = Len(w) + Len(u)
      /\ \A i \in 1..(Len(w) + Len(u)) : (w \o u)[i] = IF i <= Len(w) THEN w[i] ELSE u[i - Len(w)]
  BY ConcatProperties
<1>4. PICK r : r = [i \in 0..(Len(w) + Len(u)) |-> IF i <= Len(w) THEN p[i] ELSE q[i - Len(w)]]
  BY ZenonT(40)
<1>5. /\ \A i \in 0..Len(w) : i \in 0..(Len(w) + Len(u)) /\ i <= Len(w)
      /\ \A i \in 0..(Len(w) + Len(u)) : i \in 0..Len(w) \/ (~(i <= Len(w)) /\ i - Len(w) \in 1..Len(u))
      /\ \A i \in 1..Len(u) : i \in 0..Len(u) /\ i - 1 \in 0..Len(u)
      /\ 0 \in 0..Len(u) /\ 0 \in 0..Len(w) /\ Len(w) \in 0..Len(w) /\ Len(u) \in 0..Len(u)
  BY <1>3
<1>6. /\ \A i \in 0..Len(w) : r[i] = p[i]
      /\ \A i \in 0..(Len(w) + Len(u)) : ~(i <= Len(w)) => r[i] = q[i - Len(w)]
  BY <1>4, <1>5
<1>7. r \in [0..(Len(w) + Len(u)) -> Decoder] /\ t \in Decoder /\ v \in Decoder
  BY <1>1, <1>2, <1>4, <1>5
<1>8. r[0] = s /\ r[Len(w) + Len(u)] = v
  <2>1. CASE Len(u) = 0
    <3>1. Len(w) + Len(u) = Len(w)
      BY <1>3, <2>1
    <3> QED BY ZenonT(40), <1>1, <1>2, <1>5, <1>6, <2>1, <3>1
  <2>2. CASE Len(u) # 0
    <3>1. /\ Len(w) + Len(u) \in 0..(Len(w) + Len(u)) /\ ~(Len(w) + Len(u) <= Len(w))
          /\ (Len(w) + Len(u)) - Len(w) = Len(u)
      BY <1>3, <2>2
    <3> QED BY ZenonT(40), <1>1, <1>2, <1>5, <1>6, <3>1
  <2> QED BY <2>1, <2>2
<1>9. ASSUME NEW i \in 1..(Len(w) + Len(u)) PROVE r[i] = After(r[i - 1], (w \o u)[i])
  <2>1. CASE i <= Len(w)
    <3>1. i \in 1..Len(w) /\ i \in 0..Len(w) /\ i - 1 \in 0..Len(w) /\ (w \o u)[i] = w[i]
      BY <1>3, <2>1
    <3> QED BY ZenonT(40), <1>1, <1>6, <3>1
  <2>2. CASE ~(i <= Len(w))
    <3> DEFINE j == i - Len(w)
    <3>1. /\ i \in 0..(Len(w) + Len(u)) /\ i - 1 \in 0..(Len(w) + Len(u))
          /\ j \in 1..Len(u) /\ (w \o u)[i] = u[j] /\ (i - 1) - Len(w) = j - 1
          /\ (j = 1 => i - 1 = Len(w)) /\ (j # 1 => ~(i - 1 <= Len(w)))
      BY <1>3, <2>2
    <3>2. r[i] = q[j]
      BY ZenonT(40), <1>6, <2>2, <3>1
    <3>3. r[i - 1] = q[j - 1]
      <4>1. CASE j = 1
        BY <1>1, <1>2, <1>5, <1>6, <3>1, <4>1
      <4>2. CASE j # 1
        BY ZenonT(40), <1>6, <3>1, <4>2
      <4> QED BY <4>1, <4>2
    <3> QED BY ZenonT(40), <1>2, <3>1, <3>2, <3>3
  <2> QED BY <2>1, <2>2
<1>10. ASSUME NEW i \in 0..(Len(w) + Len(u)) PROVE PrefixOf(r[i].ty, v.ty)
  <2>1. CASE i \in 0..Len(w)
    <3>1. PrefixOf(p[i].ty, t.ty) /\ PrefixOf(t.ty, v.ty)
      BY <1>1, <1>2, <1>5, <2>1
    <3>2. p[i].ty \in Seq(Chars) /\ t.ty \in Seq(Chars) /\ v.ty \in Seq(Chars)
      BY ZenonT(40), <1>7, <2>1 DEF Decoder
    <3> QED BY <1>6, <2>1, <3>1, <3>2, PrefixOn
  <2>2. CASE ~(i <= Len(w))
    <3>1. i - Len(w) \in 0..Len(u)
      BY <1>3, <2>2
    <3> QED BY ZenonT(40), <1>2, <1>6, <2>2, <3>1
  <2> QED BY <1>5, <2>1, <2>2
<1> QED BY ZenonT(40), <1>3, <1>7, <1>8, <1>9, <1>10 DEF RunOf

LEMMA RunTail ==
  ASSUME NEW w \in Seq(KeyByte), w # << >>, NEW s, NEW t, RunOf(w, s, t)
  PROVE  RunOf(Tail(w), After(s, Head(w)), t) /\ s \in Decoder /\ t \in Decoder
<1>1. PICK r \in [0..Len(w) -> Decoder] :
        /\ r[0] = s /\ r[Len(w)] = t
        /\ \A i \in 1..Len(w) : r[i] = After(r[i - 1], w[i])
        /\ \A i \in 0..Len(w) : PrefixOf(r[i].ty, t.ty)
  BY ZenonT(40) DEF RunOf
<1>2. /\ Len(w) \in Nat /\ Len(w) > 0 /\ Len(Tail(w)) = Len(w) - 1 /\ Head(w) = w[1]
      /\ \A i \in 1..(Len(w) - 1) : Tail(w)[i] = w[i + 1]
  BY HeadTailProperties
<1>3. PICK q : q = [i \in 0..(Len(w) - 1) |-> r[i + 1]]
  OBVIOUS
<1>4. /\ \A i \in 0..(Len(w) - 1) : i + 1 \in 0..Len(w) /\ q[i] = r[i + 1]
      /\ \A i \in 1..(Len(w) - 1) : i \in 0..(Len(w) - 1) /\ i - 1 \in 0..(Len(w) - 1) /\ (i - 1) + 1 = i
                                    /\ i + 1 \in 1..Len(w) /\ (i + 1) - 1 = i
      /\ 0 \in 0..(Len(w) - 1) /\ Len(w) - 1 \in 0..(Len(w) - 1) /\ (Len(w) - 1) + 1 = Len(w)
      /\ 0 + 1 = 1 /\ 1 - 1 = 0 /\ 1 \in 1..Len(w)
  BY <1>2, <1>3
<1>5. q \in [0..(Len(w) - 1) -> Decoder]
  BY <1>1, <1>3, <1>4
<1>6. q[0] = After(s, Head(w)) /\ q[Len(w) - 1] = t
  BY <1>1, <1>2, <1>4
<1>7. \A i \in 1..(Len(w) - 1) : q[i] = After(q[i - 1], Tail(w)[i])
  BY <1>1, <1>2, <1>4
<1>8. \A i \in 0..(Len(w) - 1) : PrefixOf(q[i].ty, t.ty)
  BY <1>1, <1>4
<1>9. s \in Decoder /\ t \in Decoder
  BY <1>1, <1>2
<1> QED BY ZenonT(40), <1>2, <1>5, <1>6, <1>7, <1>8, <1>9 DEF RunOf

------------------------------------------------------------------------------
(* The keyboard's side: what the decoder is like once the wire is drained. *)
KeyTypes ==
  /\ down \subseteq Board /\ latest \in Board \cup {"none"} /\ events \in 0..MaxEvents
  /\ keyWire \in Seq(KeyByte) /\ typed \in Seq(Chars) /\ due \in Seq(Chars)
  /\ capsWanted \in BOOLEAN /\ overlap \in BOOLEAN /\ ExtendedPrefix \in BOOLEAN
  /\ ShiftHeld \in BOOLEAN /\ CtrlHeld \in BOOLEAN /\ AltHeld \in BOOLEAN
  /\ CapsLockOn \in BOOLEAN /\ NumLockOn \in BOOLEAN /\ ScrollLockOn \in BOOLEAN

Settled(s) ==
  /\ "ext" \notin s.on /\ Len(s.ty) <= events
  /\ "shift" \in s.on => K!Held(K!Shifts)
  /\ "ctrl" \in s.on => K!Held(K!Ctrls)
  /\ "alt" \in s.on => K!Held(K!Alts)
  /\ ~overlap =>
       /\ K!Held(K!Shifts) => "shift" \in s.on
       /\ K!Held(K!Ctrls) => "ctrl" \in s.on
       /\ K!Held(K!Alts) => "alt" \in s.on
       /\ "caps" \in s.on <=> capsWanted
       /\ s.ty = due
       /\ \A pair \in K!Pairs : ~(pair \subseteq down)

ModOf(k) ==
  CASE k \in K!Shifts -> {"shift"} [] k \in K!Ctrls -> {"ctrl"} [] k \in K!Alts -> {"alt"} [] OTHER -> {}

(* What a press and a release of k make of the flags. *)
OnMade(on, k) == IF k = "caps" THEN (on \ {"caps"}) \cup ({"caps"} \ on) ELSE on \cup ModOf(k)
OnBroken(on, k) == on \ ModOf(k)

LEMMA ByteFacts ==
  ASSUME NEW c \in Codes
  PROVE  /\ K!Press(c) \in KeyByte /\ K!Press(c).code = c /\ ~K!Press(c).up /\ K!Press(c) # K!E0
         /\ K!Release(c) \in KeyByte /\ K!Release(c).code = c /\ K!Release(c).up
         /\ c # "60" => K!Release(c) # K!E0
<1>1. K!Press(c) \in KeyByte /\ K!Press(c).code = c /\ ~K!Press(c).up
  BY DEF K!Press, KeyByte
<1>2. K!Release(c) \in KeyByte /\ K!Release(c).code = c /\ K!Release(c).up
  BY DEF K!Release, KeyByte
<1>3. K!E0.code = "60" /\ K!E0.up
  BY DEF K!E0, K!Release
<1> QED BY <1>1, <1>2, <1>3

LEMMA PrefixBytes ==
  /\ K!E0 \in KeyByte /\ K!E0.up
  /\ K!E1 \in KeyByte /\ K!E1 # K!E0 /\ K!E1.up /\ K!E1.code = "61"
  /\ K!ACK \in KeyByte /\ K!ACK # K!E0 /\ K!ACK.up /\ K!ACK.code = "7A"
<1>1. "60" \in Codes /\ "61" \in Codes /\ "7A" \in Codes /\ "61" # "60" /\ "7A" # "60"
  BY DEF Codes
<1> QED BY <1>1, ByteFacts DEF K!E0, K!E1, K!ACK

LEMMA TwoOfOne == ASSUME NEW T, NEW a \in T, NEW b \in T PROVE <<a, b>> = <<a>> \o <<b>>
<1>1. <<a>> \in Seq(T) /\ <<b>> \in Seq(T) /\ <<a, b>> \in Seq(T) /\ Len(<<a, b>>) = 2
  OBVIOUS
<1>2. Append(<<a>>, b) = <<a>> \o <<b>>
  BY <1>1, AppendIsConcat
<1>3. /\ Append(<<a>>, b) \in Seq(T) /\ Len(Append(<<a>>, b)) = 2
      /\ Append(<<a>>, b)[1] = a /\ Append(<<a>>, b)[2] = b
  OBVIOUS
<1>4. \A i \in 1..2 : i = 1 \/ i = 2
  OBVIOUS
<1>5. \A i \in 1..2 : <<a, b>>[i] = Append(<<a>>, b)[i]
  BY <1>3, <1>4
<1>6. <<a, b>> = Append(<<a>>, b)
  BY <1>1, <1>3, <1>5, SeqEqual
<1> QED BY ZenonT(40), <1>2, <1>6

LEMMA FourOfTwo ==
  ASSUME NEW T, NEW a \in T, NEW b \in T, NEW c \in T, NEW d \in T
  PROVE  <<a, b, c, d>> = <<a, b>> \o <<c, d>>
<1> DEFINE p == <<a, b>> \o <<c, d>>
           q == <<a, b, c, d>>
           x == <<a, b>>
           y == <<c, d>>
<1>1. /\ x \in Seq(T) /\ Len(x) = 2 /\ x[1] = a /\ x[2] = b
      /\ y \in Seq(T) /\ Len(y) = 2 /\ y[1] = c /\ y[2] = d
      /\ q \in Seq(T) /\ Len(q) = 4 /\ q[1] = a /\ q[2] = b /\ q[3] = c /\ q[4] = d
      /\ p = x \o y
  OBVIOUS
<1> HIDE DEF p, q, x, y
<1>2. /\ p \in Seq(T) /\ Len(p) = 4
      /\ \A i \in 1..4 : p[i] = IF i <= 2 THEN x[i] ELSE y[i - 2]
  <2>1. /\ p \in Seq(T) /\ Len(p) = Len(x) + Len(y)
        /\ \A i \in 1..(Len(x) + Len(y)) : p[i] = IF i <= Len(x) THEN x[i] ELSE y[i - Len(x)]
    BY ZenonT(40), <1>1, ConcatProperties
  <2> QED BY <1>1, <2>1
<1>3. p[1] = a /\ p[2] = b /\ p[3] = c /\ p[4] = d
  BY <1>1, <1>2
<1>4. \A i \in 1..4 : i = 1 \/ i = 2 \/ i = 3 \/ i = 4
  OBVIOUS
<1>5. \A i \in 1..4 : q[i] = p[i]
  BY ZenonT(40), <1>1, <1>3, <1>4
<1>6. p = q
  BY <1>1, <1>2, <1>5, SeqEqual
<1> QED BY <1>6 DEF p, q

LEMMA SixOfFour ==
  ASSUME NEW T, NEW a \in T, NEW b \in T, NEW c \in T, NEW d \in T, NEW e \in T, NEW f \in T
  PROVE  <<a, b, c, d, e, f>> = <<a, b, c, d>> \o <<e, f>>
<1> DEFINE x == <<a, b, c, d>>
           y == <<e, f>>
           p == x \o y
           q == <<a, b, c, d, e, f>>
<1>1. /\ x \in Seq(T) /\ Len(x) = 4 /\ x[1] = a /\ x[2] = b /\ x[3] = c /\ x[4] = d
      /\ y \in Seq(T) /\ Len(y) = 2 /\ y[1] = e /\ y[2] = f
      /\ q \in Seq(T) /\ Len(q) = 6
      /\ q[1] = a /\ q[2] = b /\ q[3] = c /\ q[4] = d /\ q[5] = e /\ q[6] = f
      /\ p = x \o y
  OBVIOUS
<1> HIDE DEF p, q, x, y
<1>2. /\ p \in Seq(T) /\ Len(p) = 6
      /\ \A i \in 1..6 : p[i] = IF i <= 4 THEN x[i] ELSE y[i - 4]
  <2>1. /\ p \in Seq(T) /\ Len(p) = Len(x) + Len(y)
        /\ \A i \in 1..(Len(x) + Len(y)) : p[i] = IF i <= Len(x) THEN x[i] ELSE y[i - Len(x)]
    BY ZenonT(40), <1>1, ConcatProperties
  <2> QED BY <1>1, <2>1
<1>3. p[1] = a /\ p[2] = b /\ p[3] = c /\ p[4] = d /\ p[5] = e /\ p[6] = f
  BY <1>1, <1>2
<1>4. \A i \in 1..6 : i = 1 \/ i = 2 \/ i = 3 \/ i = 4 \/ i = 5 \/ i = 6
  OBVIOUS
<1>5. \A i \in 1..6 : q[i] = p[i]
  BY ZenonT(40), <1>1, <1>3, <1>4
<1>6. p = q
  BY ZenonT(40), <1>1, <1>2, <1>5, SeqEqual
<1> QED BY <1>6 DEF p, q, x, y

LEMMA RunPair ==
  ASSUME NEW s \in Decoder, NEW a \in KeyByte, NEW b \in KeyByte
  PROVE  RunOf(<<a, b>>, s, After(After(s, a), b))
<1>1. <<a, b>> = <<a>> \o <<b>>
  BY TwoOfOne
<1>2. <<a>> \in Seq(KeyByte) /\ <<b>> \in Seq(KeyByte)
  OBVIOUS
<1>3. After(s, a) \in Decoder
  BY AfterFacts
<1>4. RunOf(<<a>>, s, After(s, a)) /\ RunOf(<<b>>, After(s, a), After(After(s, a), b))
  BY <1>3, RunOne
<1> QED BY ZenonT(40), <1>1, <1>2, <1>4, RunConcat

(* A release the decoder has no use for. *)
LEMMA IdleByte ==
  ASSUME NEW s \in Decoder, "ext" \notin s.on, NEW b, b # K!E0, b.up, b.code \notin {"2A", "36", "1D", "38"}
  PROVE  After(s, b) = s
<1>1. OnAfter(s.on, b) = s.on /\ TypedAfter(s.on, b) = << >>
  BY DEF OnAfter, TypedAfter, Mod
<1>2. s.ty \o << >> = s.ty
  BY ConcatEmptySeq DEF Decoder
<1> QED BY <1>1, <1>2 DEF After, Decoder

(* A prefix and a byte that is not one. *)
LEMMA GreyPair ==
  ASSUME NEW s \in Decoder, NEW b \in KeyByte, b # K!E0
  PROVE  \E t \in Decoder :
           /\ RunOf(<<K!E0, b>>, s, t)
           /\ t.on = IF b.up THEN (s.on \ Mod({"ext"}, b.code)) \ {"ext"}
                             ELSE (s.on \cup Mod({"ext"}, b.code)) \ {"ext"}
           /\ t.ty = IF ~b.up /\ b.code = "48" THEN s.ty \o <<"UP">> ELSE s.ty
<1> DEFINE e == After(s, K!E0)
           t == After(e, b)
<1>1. e \in Decoder /\ e.on = s.on \cup {"ext"} /\ e.ty = s.ty
  <2>1. OnAfter(s.on, K!E0) = s.on \cup {"ext"} /\ TypedAfter(s.on, K!E0) = << >>
    BY DEF OnAfter, TypedAfter
  <2>2. s.ty \o << >> = s.ty
    BY ConcatEmptySeq DEF Decoder
  <2> QED BY ZenonT(40), <2>1, <2>2, AfterFacts DEF After
<1> HIDE DEF e
<1>2. t \in Decoder /\ RunOf(<<K!E0, b>>, s, t)
  BY <1>1, AfterFacts, RunPair, PrefixBytes DEF e
<1>3. t.on = OnAfter(e.on, b) /\ t.ty = e.ty \o TypedAfter(e.on, b)
  BY ZenonT(40) DEF After
<1> HIDE DEF t
<1>4. Mod(e.on, b.code) = Mod({"ext"}, b.code)
  BY <1>1 DEF Mod
<1>5. OnAfter(e.on, b) = IF b.up THEN (s.on \ Mod({"ext"}, b.code)) \ {"ext"}
                                 ELSE (s.on \cup Mod({"ext"}, b.code)) \ {"ext"}
  BY <1>1, <1>4 DEF OnAfter, Lock, Mod
<1>6. TypedAfter(e.on, b) = IF ~b.up /\ b.code = "48" THEN <<"UP">> ELSE << >>
  BY <1>1, <1>4 DEF TypedAfter, KeyOf, Mod
<1>7. s.ty \o << >> = s.ty
  BY ConcatEmptySeq DEF Decoder
<1> QED BY ZenonT(40), <1>1, <1>2, <1>3, <1>5, <1>6, <1>7

(* A byte without prefix. *)
LEMMA PlainByte ==
  ASSUME NEW s \in Decoder, "ext" \notin s.on, NEW c \in Codes
  PROVE  /\ \E t \in Decoder :
              /\ RunOf(<<K!Press(c)>>, s, t)
              /\ t.on = IF c = "3A" THEN (s.on \ {"caps"}) \cup ({"caps"} \ s.on) ELSE s.on \cup Mod({}, c)
              /\ t.ty = s.ty \o (IF Mod({}, c) # {} THEN << >> ELSE KeyOf(s.on, c))
         /\ c # "60" => \E t \in Decoder :
              RunOf(<<K!Release(c)>>, s, t) /\ t.on = s.on \ Mod({}, c) /\ t.ty = s.ty
<1>1. /\ K!Press(c) \in KeyByte /\ K!Press(c).code = c /\ ~K!Press(c).up /\ K!Press(c) # K!E0
      /\ K!Release(c) \in KeyByte /\ K!Release(c).code = c /\ K!Release(c).up
      /\ c # "60" => K!Release(c) # K!E0
  BY ByteFacts
<1>2. Mod(s.on, c) = Mod({}, c) /\ s.on \ {"ext"} = s.on /\ Mod({}, c) \ {"ext"} = Mod({}, c)
  BY DEF Mod
<1>3. \E t \in Decoder :
        /\ RunOf(<<K!Press(c)>>, s, t)
        /\ t.on = IF c = "3A" THEN (s.on \ {"caps"}) \cup ({"caps"} \ s.on) ELSE s.on \cup Mod({}, c)
        /\ t.ty = s.ty \o (IF Mod({}, c) # {} THEN << >> ELSE KeyOf(s.on, c))
  <2> DEFINE b == K!Press(c)
             t == After(s, b)
  <2>1. t \in Decoder /\ RunOf(<<b>>, s, t) /\ t.on = OnAfter(s.on, b) /\ t.ty = s.ty \o TypedAfter(s.on, b)
    BY ZenonT(40), AfterFacts, RunOne DEF After
  <2> HIDE DEF t, b
  <2>2. b # K!E0 /\ ~b.up /\ b.code = c
    BY <1>1 DEF b
  <2>3. OnAfter(s.on, b) = IF c = "3A" THEN (s.on \ {"caps"}) \cup ({"caps"} \ s.on)
                                       ELSE s.on \cup Mod({}, c)
    <3>1. c = "3A" => Mod({}, c) = {}
      BY DEF Mod
    <3> QED BY <1>2, <2>2, <3>1 DEF OnAfter, Lock
  <2>4. TypedAfter(s.on, b) = IF Mod({}, c) # {} THEN << >> ELSE KeyOf(s.on, c)
    BY <1>2, <2>2 DEF TypedAfter
  <2> QED BY ZenonT(40), <2>1, <2>3, <2>4 DEF b
<1>4. ASSUME c # "60"
      PROVE  \E t \in Decoder : RunOf(<<K!Release(c)>>, s, t) /\ t.on = s.on \ Mod({}, c) /\ t.ty = s.ty
  <2> DEFINE b == K!Release(c)
             t == After(s, b)
  <2>1. t \in Decoder /\ RunOf(<<b>>, s, t) /\ t.on = OnAfter(s.on, b) /\ t.ty = s.ty \o TypedAfter(s.on, b)
    BY ZenonT(40), AfterFacts, RunOne DEF After
  <2> HIDE DEF t, b
  <2>2. b # K!E0 /\ b.up /\ b.code = c
    BY <1>1, <1>4 DEF b
  <2>3. OnAfter(s.on, b) = s.on \ Mod({}, c) /\ TypedAfter(s.on, b) = << >>
    BY <1>2, <2>2 DEF OnAfter, TypedAfter
  <2>4. s.ty \o << >> = s.ty
    BY ConcatEmptySeq DEF Decoder
  <2> QED BY <2>1, <2>3, <2>4 DEF b
<1> QED BY ZenonT(40), <1>3, <1>4

(* Two pairs of prefix and byte. *)
LEMMA GreyPairs ==
  ASSUME NEW s \in Decoder, "ext" \notin s.on, NEW b \in KeyByte, NEW d \in KeyByte, b # K!E0, d # K!E0,
         b.code \in {"2A", "46", "37"} \/ (b.up /\ b.code = "48"), d.code \in {"2A", "46", "37", "48"}
  PROVE  \E t \in Decoder :
           /\ RunOf(<<K!E0, b, K!E0, d>>, s, t) /\ <<K!E0, b, K!E0, d>> \in Seq(KeyByte)
           /\ t.on = s.on
           /\ t.ty = IF ~d.up /\ d.code = "48" THEN s.ty \o <<"UP">> ELSE s.ty
<1>1. Mod({"ext"}, b.code) = {} /\ Mod({"ext"}, d.code) = {}
  BY DEF Mod
<1>2. PICK t \in Decoder :
        /\ RunOf(<<K!E0, b>>, s, t)
        /\ t.on = IF b.up THEN (s.on \ Mod({"ext"}, b.code)) \ {"ext"}
                          ELSE (s.on \cup Mod({"ext"}, b.code)) \ {"ext"}
        /\ t.ty = IF ~b.up /\ b.code = "48" THEN s.ty \o <<"UP">> ELSE s.ty
  BY ZenonT(40), GreyPair
<1>3. t.on = s.on /\ t.ty = s.ty
  BY ZenonT(40), <1>1, <1>2
<1>4. PICK u \in Decoder :
        /\ RunOf(<<K!E0, d>>, t, u)
        /\ u.on = IF d.up THEN (t.on \ Mod({"ext"}, d.code)) \ {"ext"}
                          ELSE (t.on \cup Mod({"ext"}, d.code)) \ {"ext"}
        /\ u.ty = IF ~d.up /\ d.code = "48" THEN t.ty \o <<"UP">> ELSE t.ty
  BY ZenonT(40), GreyPair
<1>5. u.on = s.on /\ u.ty = IF ~d.up /\ d.code = "48" THEN s.ty \o <<"UP">> ELSE s.ty
  BY <1>1, <1>3, <1>4
<1>6. /\ <<K!E0, b>> \in Seq(KeyByte) /\ <<K!E0, d>> \in Seq(KeyByte) /\ <<K!E0, b, K!E0,
          d>> \in Seq(KeyByte)
      /\ <<K!E0, b, K!E0, d>> = <<K!E0, b>> \o <<K!E0, d>>
  BY PrefixBytes, FourOfTwo
<1>7. RunOf(<<K!E0, b, K!E0, d>>, s, u)
  <2>1. RunOf(<<K!E0, b>> \o <<K!E0, d>>, s, u)
    BY ZenonT(40), <1>2, <1>4, <1>6, RunConcat
  <2> QED BY ZenonT(40), <1>6, <2>1
<1> QED BY <1>5, <1>6, <1>7

(* Pause without Ctrl: its Ctrl comes and goes. *)
LEMMA PauseBytes ==
  ASSUME NEW s \in Decoder, "ext" \notin s.on, "ctrl" \notin s.on
  PROVE  LET w == <<K!E1, K!Press("1D"), K!Press("45"), K!E1, K!Release("1D"), K!Release("45")>>
         IN  w \in Seq(KeyByte) /\ RunOf(w, s, s)
<1> DEFINE a == K!E1
           b == K!Press("1D")
           c == K!Press("45")
           d == K!Release("1D")
           e == K!Release("45")
<1>1. /\ a \in KeyByte /\ a # K!E0 /\ a.up /\ a.code = "61"
      /\ b \in KeyByte /\ b # K!E0 /\ ~b.up /\ b.code = "1D"
      /\ c \in KeyByte /\ c # K!E0 /\ ~c.up /\ c.code = "45"
      /\ d \in KeyByte /\ d # K!E0 /\ d.up /\ d.code = "1D"
      /\ e \in KeyByte /\ e # K!E0 /\ e.up /\ e.code = "45"
  <2>1. "1D" \in Codes /\ "45" \in Codes /\ "1D" # "60" /\ "45" # "60"
    BY DEF Codes
  <2> QED BY <2>1, ByteFacts, PrefixBytes
<1> HIDE DEF a, b, c, d, e
<1>2. PICK u : u = [on |-> s.on \cup {"ctrl"}, ty |-> s.ty]
  BY ZenonT(40)
<1>3. u \in Decoder /\ u.on = s.on \cup {"ctrl"} /\ u.ty = s.ty /\ "ext" \notin u.on
  BY <1>2 DEF Decoder, Flags
<1>4. s.ty \o << >> = s.ty
  BY ConcatEmptySeq DEF Decoder
<1>5. After(s, a) = s /\ After(u, a) = u
  BY <1>1, <1>3, IdleByte
<1>6. After(s, b) = u
  <2>1. OnAfter(s.on, b) = s.on \cup {"ctrl"} /\ TypedAfter(s.on, b) = << >>
    BY <1>1 DEF OnAfter, TypedAfter, Mod, Lock
  <2> QED BY <1>2, <1>4, <2>1 DEF After
<1>7. After(u, c) = u
  <2>1. OnAfter(u.on, c) = u.on /\ TypedAfter(u.on, c) = << >>
    BY <1>1, <1>3 DEF OnAfter, TypedAfter, Mod, Lock, KeyOf
  <2> QED BY ZenonT(40), <1>2, <1>3, <1>4, <2>1 DEF After
<1>8. After(u, d) = s
  <2>1. OnAfter(u.on, d) = s.on /\ TypedAfter(u.on, d) = << >>
    BY <1>1, <1>3 DEF OnAfter, TypedAfter, Mod
  <2> QED BY ZenonT(40), <1>3, <1>4, <2>1 DEF After, Decoder
<1>9. After(s, e) = s
  BY <1>1, IdleByte
<1>10. RunOf(<<a, b>>, s, u) /\ RunOf(<<c, a>>, u, u) /\ RunOf(<<d, e>>, u, s)
  BY <1>1, <1>3, <1>5, <1>6, <1>7, <1>8, <1>9, RunPair
<1>11. /\ <<a, b>> \in Seq(KeyByte) /\ <<c, a>> \in Seq(KeyByte) /\ <<d, e>> \in Seq(KeyByte)
       /\ <<a, b, c, a>> \in Seq(KeyByte) /\ <<a, b, c, a, d, e>> \in Seq(KeyByte)
  BY <1>1
<1>12. /\ <<a, b, c, a>> = <<a, b>> \o <<c, a>>
       /\ <<a, b, c, a, d, e>> = <<a, b, c, a>> \o <<d, e>>
  <2>1. <<a, b, c, a>> = <<a, b>> \o <<c, a>>
    <3>1. a \in KeyByte /\ b \in KeyByte /\ c \in KeyByte
      BY <1>1
    <3>2. \A x1, x2, x3, x4 \in KeyByte : <<x1, x2, x3, x4>> = <<x1, x2>> \o <<x3, x4>>
      <4> TAKE x1, x2, x3, x4 \in KeyByte
      <4> QED BY SMTT(80), FourOfTwo
    <3> QED BY ONLY SMTT(80), <3>1, <3>2
  <2>2. <<a, b, c, a, d, e>> = <<a, b, c, a>> \o <<d, e>>
    <3>1. /\ a \in KeyByte /\ b \in KeyByte /\ c \in KeyByte
          /\ d \in KeyByte /\ e \in KeyByte
      BY <1>1
    <3>2. \A x1, x2, x3, x4, x5, x6 \in KeyByte :
            <<x1, x2, x3, x4, x5, x6>> = <<x1, x2, x3, x4>> \o <<x5, x6>>
      <4> TAKE x1, x2, x3, x4, x5, x6 \in KeyByte
      <4> QED BY SMTT(30), SixOfFour
    <3> QED BY ONLY SMTT(30), <3>1, <3>2
  <2> QED BY <2>1, <2>2
<1>13. RunOf(<<a, b, c, a>>, s, u)
  BY ZenonT(40), <1>10, <1>11, <1>12, RunConcat
<1>14. RunOf(<<a, b, c, a, d, e>>, s, s)
  BY ZenonT(40), <1>10, <1>11, <1>12, <1>13, RunConcat
<1> QED BY <1>11, <1>14 DEF a, b, c, d, e

------------------------------------------------------------------------------
(* The keys of the board. *)
Names == {"lshift", "rshift", "lctrl", "rctrl", "lalt", "ralt", "caps", "num", "scroll",
          "a", "1", "pad8", "up", "pause", "print"}

LEMMA BoardNames == Board \subseteq Names /\ MaxEvents \in Nat
BY BoardConstants DEF K!KeyboardConstants, Names

LEMMA KeyCodes ==
  ASSUME NEW k \in Names \ {"pause", "print"}
  PROVE  /\ K!Code(k) \in Codes \ {"60"}
         /\ Mod({}, K!Code(k)) = ModOf(k)
         /\ K!Code(k) = "3A" <=> k = "caps"
         /\ K!Code(k) = "1E" <=> k = "a"
         /\ K!Code(k) = "02" <=> k = "1"
         /\ K!Code(k) = "48" <=> k \in {"pad8", "up"}
         /\ k \in K!Ctrls \cup K!Alts => Mod({"ext"}, K!Code(k)) = ModOf(k)
BY ZenonT(40) DEF Names, K!Code, Codes, Mod, ModOf, K!Shifts, K!Ctrls, K!Alts

(* What a key without prefix types. *)
LEMMA PlainKey ==
  ASSUME NEW s \in Decoder, Settled(s), KeyTypes, NEW k \in Names \ (K!Grey \cup {"pause", "print"})
  PROVE  LET x == IF ModOf(k) # {} THEN << >> ELSE KeyOf(s.on, K!Code(k))
         IN  x \in Seq(Chars) /\ Len(x) <= 1 /\ (~overlap => x = K!Wanted(k))
<1> DEFINE x == IF ModOf(k) # {} THEN << >> ELSE KeyOf(s.on, K!Code(k))
<1>1. x \in Seq(Chars) /\ Len(x) <= 1
  <2>1. Char(s.on, K!Code(k)) \in Chars /\ "UP" \in Chars /\ "ctrlA" \in Chars
    BY DEF Char, Chars
  <2>2. x = << >> \/ \E c \in Chars : x = <<c>>
    BY <2>1 DEF KeyOf
  <2> HIDE DEF x
  <2>3. /\ << >> \in Seq(Chars) /\ Len(<< >>) <= 1
        /\ \A c \in Chars : <<c>> \in Seq(Chars) /\ Len(<<c>>) <= 1
    OBVIOUS
  <2> QED BY ZenonT(40), <2>2, <2>3
<1>2. ASSUME ~overlap PROVE x = K!Wanted(k)
  <2>1. /\ "ext" \notin s.on
        /\ "shift" \in s.on <=> K!Held(K!Shifts)
        /\ "ctrl" \in s.on <=> K!Held(K!Ctrls)
        /\ "alt" \in s.on <=> K!Held(K!Alts)
        /\ "caps" \in s.on <=> capsWanted
    BY <1>2 DEF Settled
  <2>2. /\ K!Code(k) = "1E" <=> k = "a"
        /\ K!Code(k) = "02" <=> k = "1"
        /\ K!Code(k) = "48" <=> k = "pad8"
    BY KeyCodes DEF K!Grey
  <2>3. CASE k = "a"
    <3>1. ModOf(k) = {}
      BY <2>3 DEF ModOf, K!Shifts, K!Ctrls, K!Alts
    <3>2. x = IF "ctrl" \in s.on /\ "alt" \notin s.on THEN <<"ctrlA">>
              ELSE IF "ctrl" \in s.on \/ "alt" \in s.on THEN << >>
              ELSE IF "shift" \in s.on <=> "caps" \in s.on THEN <<"a">> ELSE <<"A">>
      BY <2>1, <2>2, <2>3, <3>1 DEF KeyOf, Char
    <3> HIDE DEF x
    <3>3. K!Wanted(k) = IF K!Held(K!Ctrls) /\ ~K!Held(K!Alts) THEN <<"ctrlA">>
                        ELSE IF K!Held(K!Ctrls) \/ K!Held(K!Alts) THEN << >>
                        ELSE IF K!Held(K!Shifts) <=> capsWanted THEN <<"a">> ELSE <<"A">>
      <4>1. K!Wanted(k) = IF K!Held(K!Ctrls) /\ ~K!Held(K!Alts) THEN <<"ctrlA">>
                          ELSE IF K!Held(K!Ctrls) \/ K!Held(K!Alts) THEN << >>
                          ELSE IF K!Held(K!Shifts) # capsWanted THEN <<"A">> ELSE <<"a">>
        BY <2>3 DEF K!Wanted
      <4>2. K!Held(K!Shifts) # capsWanted <=> ~(K!Held(K!Shifts) <=> capsWanted)
        <5>1. K!Held(K!Shifts) \in BOOLEAN /\ capsWanted \in BOOLEAN
          BY DEF K!Held, KeyTypes
        <5> QED BY <5>1
      <4> QED BY <4>1, <4>2
    <3> QED BY <2>1, <3>2, <3>3
  <2>4. CASE k = "1"
    <3>1. ModOf(k) = {}
      BY <2>4 DEF ModOf, K!Shifts, K!Ctrls, K!Alts
    <3>2. x = IF "ctrl" \in s.on \/ "alt" \in s.on THEN << >>
              ELSE IF "shift" \in s.on THEN <<"bang">> ELSE <<"1">>
      BY <2>1, <2>2, <2>4, <3>1 DEF KeyOf, Char
    <3> HIDE DEF x
    <3>3. K!Wanted(k) = IF K!Held(K!Ctrls) \/ K!Held(K!Alts) THEN << >>
                        ELSE IF K!Held(K!Shifts) THEN <<"bang">> ELSE <<"1">>
      BY <2>4 DEF K!Wanted
    <3> QED BY <2>1, <3>2, <3>3
  <2>5. CASE k = "pad8"
    <3>1. ModOf(k) = {}
      BY <2>5 DEF ModOf, K!Shifts, K!Ctrls, K!Alts
    <3>2. x = IF "ctrl" \in s.on \/ "alt" \in s.on THEN << >> ELSE <<"8">>
      BY <2>1, <2>2, <2>5, <3>1 DEF KeyOf, Char
    <3> HIDE DEF x
    <3>3. K!Wanted(k) = IF K!Held(K!Ctrls) \/ K!Held(K!Alts) THEN << >> ELSE <<"8">>
      BY <2>5 DEF K!Wanted
    <3> QED BY <2>1, <3>2, <3>3
  <2>6. CASE k \notin {"a", "1", "pad8"}
    <3>1. x = << >>
      BY <2>1, <2>2, <2>6 DEF KeyOf
    <3>2. K!Wanted(k) = << >>
      BY <2>6 DEF K!Wanted, K!Grey
    <3> QED BY <3>1, <3>2
  <2> QED BY <2>3, <2>4, <2>5, <2>6
<1> QED BY <1>1, <1>2

(* Every way a key is sent does what the typist expects of it. *)
LEMMA MakeRuns ==
  ASSUME KeyTypes, NEW s \in Decoder, Settled(s), NEW k \in Board
  PROVE  /\ K!MakeCode(k) \in Seq(KeyByte)
         /\ \E t \in Decoder, x \in Seq(Chars) :
              /\ RunOf(K!MakeCode(k), s, t)
              /\ t.on = OnMade(s.on, k) /\ t.ty = s.ty \o x
              /\ Len(x) <= 1 /\ (~overlap => x = K!Wanted(k))
<1>0. k \in Names /\ "ext" \notin s.on /\ s.on \subseteq Flags /\ s.ty \in Seq(Chars)
  BY BoardNames DEF Settled, Decoder
<1>1. s.ty \o << >> = s.ty /\ << >> \in Seq(Chars) /\ Len(<< >>) <= 1
  BY <1>0, ConcatEmptySeq
<1>2. <<"UP">> \in Seq(Chars) /\ Len(<<"UP">>) <= 1
  BY DEF Chars
<1>3. ASSUME NEW c \in {"2A", "46", "37", "48"}
      PROVE  /\ K!Press(c) \in KeyByte /\ K!Press(c).code = c /\ ~K!Press(c).up /\ K!Press(c) # K!E0
             /\ K!Release(c) \in KeyByte /\ K!Release(c).code = c /\ K!Release(c).up /\ K!Release(c) # K!E0
  <2>1. c \in Codes /\ c # "60"
    BY DEF Codes
  <2> QED BY <2>1, ByteFacts
<1>4. ASSUME k \notin K!Shifts \cup K!Ctrls \cup K!Alts \cup {"caps"}
      PROVE  OnMade(s.on, k) = s.on
  BY <1>4 DEF OnMade, ModOf
<1>5. CASE k \notin K!Grey \cup {"pause", "print"}
  <2>1. K!MakeCode(k) = <<K!Press(K!Code(k))>> /\ K!Code(k) \in Codes
    <3>1. k # "pause" /\ k # "print" /\ k # "up" /\ k \notin K!Grey
      BY <1>5 DEF K!Grey
    <3>2. K!MakeCode(k) = <<K!Press(K!Code(k))>>
      BY <3>1 DEF K!MakeCode
    <3> QED BY <1>0, <3>1, <3>2, KeyCodes
  <2>2. PICK c \in Codes : c = K!Code(k)
    BY <2>1
  <2>3. K!MakeCode(k) \in Seq(KeyByte)
    <3>1. K!Press(c) \in KeyByte
      BY ByteFacts
    <3> QED BY <2>1, <2>2, <3>1
  <2>4. PICK t \in Decoder :
          /\ RunOf(<<K!Press(c)>>, s, t)
          /\ t.on = IF c = "3A" THEN (s.on \ {"caps"}) \cup ({"caps"} \ s.on) ELSE s.on \cup Mod({}, c)
          /\ t.ty = s.ty \o (IF Mod({}, c) # {} THEN << >> ELSE KeyOf(s.on, c))
    BY ZenonT(40), <1>0, PlainByte
  <2>5. PICK x : x = IF ModOf(k) # {} THEN << >> ELSE KeyOf(s.on, K!Code(k))
    OBVIOUS
  <2>6. x \in Seq(Chars) /\ Len(x) <= 1 /\ (~overlap => x = K!Wanted(k))
    BY <1>0, <1>5, <2>5, PlainKey
  <2>7. c = "3A" <=> k = "caps"
    BY <1>0, <1>5, <2>2, KeyCodes
  <2>8. Mod({}, c) = ModOf(k)
    BY <1>0, <1>5, <2>2, KeyCodes
  <2>9. t.on = OnMade(s.on, k) /\ t.ty = s.ty \o x
    BY ZenonT(40), <2>2, <2>4, <2>5, <2>7, <2>8 DEF OnMade
  <2> QED BY ZenonT(40), <2>1, <2>2, <2>3, <2>4, <2>6, <2>9
<1>6. CASE k \in {"rctrl", "ralt"} \/ (k = "up" /\ ~K!Held(K!Shifts))
  <2>1. K!MakeCode(k) = <<K!E0, K!Press(K!Code(k))>>
    BY <1>6 DEF K!MakeCode, K!Grey
  <2>2. PICK b : b = K!Press(K!Code(k))
    OBVIOUS
  <2>3. k \in Names \ {"pause", "print"}
    BY <1>0, <1>6
  <2>4. b \in KeyByte /\ b # K!E0 /\ ~b.up /\ b.code = K!Code(k)
    <3>1. K!Code(k) \in Codes
      BY <2>3, KeyCodes
    <3> QED BY <2>2, <3>1, ByteFacts
  <2>5. PICK t \in Decoder :
          /\ RunOf(<<K!E0, b>>, s, t)
          /\ t.on = IF b.up THEN (s.on \ Mod({"ext"}, b.code)) \ {"ext"}
                            ELSE (s.on \cup Mod({"ext"}, b.code)) \ {"ext"}
          /\ t.ty = IF ~b.up /\ b.code = "48" THEN s.ty \o <<"UP">> ELSE s.ty
    BY ZenonT(40), <2>4, GreyPair
  <2>6. <<K!E0, b>> \in Seq(KeyByte)
    BY <2>4, PrefixBytes
  <2>7. CASE k = "up"
    <3>1. b.code = "48" /\ Mod({"ext"}, b.code) = {} /\ OnMade(s.on, k) = s.on
      <4>1. K!Code(k) = "48"
        BY <2>3, <2>7, KeyCodes
      <4>2. k \notin K!Shifts \cup K!Ctrls \cup K!Alts \cup {"caps"}
        BY <2>7 DEF K!Shifts, K!Ctrls, K!Alts
      <4> QED BY <1>4, <2>4, <4>1, <4>2 DEF Mod
    <3>2. t.on = OnMade(s.on, k) /\ t.ty = s.ty \o <<"UP">>
      BY <1>0, <2>4, <2>5, <3>1
    <3>3. K!Wanted(k) = <<"UP">>
      BY <2>7 DEF K!Wanted
    <3> QED BY ZenonT(40), <1>2, <2>1, <2>2, <2>5, <2>6, <3>2, <3>3
  <2>8. CASE k \in {"rctrl", "ralt"}
    <3>1. k \in K!Ctrls \cup K!Alts
      BY <2>8 DEF K!Ctrls, K!Alts
    <3>2. Mod({"ext"}, K!Code(k)) = ModOf(k)
      BY <2>3, <3>1, KeyCodes
    <3>3. K!Code(k) # "48"
      BY <2>3, <2>8, KeyCodes
    <3>4. "ext" \notin ModOf(k) /\ k # "caps"
      BY <2>8 DEF ModOf
    <3>5. t.on = OnMade(s.on, k) /\ t.ty = s.ty
      BY <1>0, <2>4, <2>5, <3>2, <3>3, <3>4 DEF OnMade
    <3>6. K!Wanted(k) = << >>
      BY <2>8 DEF K!Wanted
    <3> QED BY ZenonT(40), <1>1, <2>1, <2>2, <2>5, <2>6, <3>5, <3>6
  <2> QED BY ZenonT(40), <1>6, <2>7, <2>8
<1>7. CASE k = "up" /\ K!Held(K!Shifts)
  <2>1. K!MakeCode(k) = <<K!E0, K!Release("2A"), K!E0, K!Press("48")>>
    BY <1>7 DEF K!MakeCode
  <2>2. PICK t \in Decoder :
          /\ RunOf(K!MakeCode(k), s, t) /\ K!MakeCode(k) \in Seq(KeyByte)
          /\ t.on = s.on /\ t.ty = s.ty \o <<"UP">>
    <3>1. PICK b \in KeyByte : b = K!Release("2A")
      BY <1>3
    <3>2. PICK d \in KeyByte : d = K!Press("48")
      BY <1>3
    <3>3. /\ b # K!E0 /\ d # K!E0 /\ (b.code \in {"2A", "46", "37"} \/ (b.up /\ b.code = "48"))
          /\ d.code \in {"2A", "46", "37", "48"} /\ ~d.up /\ d.code = "48"
      BY <1>3, <3>1, <3>2
    <3>4. PICK t \in Decoder :
            /\ RunOf(<<K!E0, b, K!E0, d>>, s, t) /\ <<K!E0, b, K!E0, d>> \in Seq(KeyByte)
            /\ t.on = s.on /\ t.ty = IF ~d.up /\ d.code = "48" THEN s.ty \o <<"UP">> ELSE s.ty
      BY ZenonT(40), <1>0, <3>3, GreyPairs
    <3> QED BY <2>1, <3>1, <3>2, <3>3, <3>4
  <2>3. K!Wanted(k) = <<"UP">> /\ OnMade(s.on, k) = s.on
    BY <1>4, <1>7 DEF K!Wanted, K!Shifts, K!Ctrls, K!Alts
  <2> QED BY ZenonT(40), <1>2, <2>2, <2>3
<1>8. CASE k = "print"
  <2>1. K!MakeCode(k) = <<K!E0, K!Press("2A"), K!E0, K!Press("37")>>
    BY <1>8 DEF K!MakeCode, K!Grey
  <2>2. PICK t \in Decoder :
          /\ RunOf(K!MakeCode(k), s, t) /\ K!MakeCode(k) \in Seq(KeyByte)
          /\ t.on = s.on /\ t.ty = s.ty
    <3>1. PICK b \in KeyByte : b = K!Press("2A")
      BY <1>3
    <3>2. PICK d \in KeyByte : d = K!Press("37")
      BY <1>3
    <3>3. /\ b # K!E0 /\ d # K!E0 /\ (b.code \in {"2A", "46", "37"} \/ (b.up /\ b.code = "48"))
          /\ d.code \in {"2A", "46", "37", "48"} /\ ~(~d.up /\ d.code = "48")
      BY <1>3, <3>1, <3>2
    <3>4. PICK t \in Decoder :
            /\ RunOf(<<K!E0, b, K!E0, d>>, s, t) /\ <<K!E0, b, K!E0, d>> \in Seq(KeyByte)
            /\ t.on = s.on /\ t.ty = IF ~d.up /\ d.code = "48" THEN s.ty \o <<"UP">> ELSE s.ty
      BY <1>0, <3>3, GreyPairs
    <3> QED BY <2>1, <3>1, <3>2, <3>3, <3>4
  <2>3. K!Wanted(k) = << >> /\ OnMade(s.on, k) = s.on
    BY <1>4, <1>8 DEF K!Wanted, K!Shifts, K!Ctrls, K!Alts
  <2> QED BY ZenonT(40), <1>1, <2>2, <2>3
<1>9. CASE k = "pause"
  <2>1. K!Wanted(k) = << >> /\ OnMade(s.on, k) = s.on
    BY <1>4, <1>9 DEF K!Wanted, K!Shifts, K!Ctrls, K!Alts
  <2>2. CASE K!Held(K!Ctrls)
    <3>1. K!MakeCode(k) = <<K!E0, K!Press("46"), K!E0, K!Release("46")>>
      BY <1>9, <2>2 DEF K!MakeCode, K!Grey
    <3>2. PICK t \in Decoder :
            /\ RunOf(K!MakeCode(k), s, t) /\ K!MakeCode(k) \in Seq(KeyByte)
            /\ t.on = s.on /\ t.ty = s.ty
      <4>1. PICK b \in KeyByte : b = K!Press("46")
        BY <1>3
      <4>2. PICK d \in KeyByte : d = K!Release("46")
        BY <1>3
      <4>3. /\ b # K!E0 /\ d # K!E0 /\ (b.code \in {"2A", "46", "37"} \/ (b.up /\ b.code = "48"))
            /\ d.code \in {"2A", "46", "37", "48"} /\ ~(~d.up /\ d.code = "48")
        BY <1>3, <4>1, <4>2
      <4>4. PICK t \in Decoder :
              /\ RunOf(<<K!E0, b, K!E0, d>>, s, t) /\ <<K!E0, b, K!E0, d>> \in Seq(KeyByte)
              /\ t.on = s.on /\ t.ty = IF ~d.up /\ d.code = "48" THEN s.ty \o <<"UP">> ELSE s.ty
        BY <1>0, <4>3, GreyPairs
      <4> QED BY <3>1, <4>1, <4>2, <4>3, <4>4
    <3> QED BY ZenonT(40), <1>1, <2>1, <3>2
  <2>3. CASE ~K!Held(K!Ctrls)
    <3>1. K!MakeCode(k) = <<K!E1, K!Press("1D"), K!Press("45"), K!E1, K!Release("1D"), K!Release("45")>>
      BY <1>9, <2>3 DEF K!MakeCode, K!Grey
    <3>2. "ctrl" \notin s.on
      BY <2>3 DEF Settled
    <3>3. K!MakeCode(k) \in Seq(KeyByte) /\ RunOf(K!MakeCode(k), s, s)
      BY <1>0, <3>1, <3>2, PauseBytes
    <3> QED BY ZenonT(40), <1>1, <2>1, <3>3
  <2> QED BY ZenonT(40), <2>2, <2>3
<1> QED BY ZenonT(40), <1>0, <1>5, <1>6, <1>7, <1>8, <1>9 DEF K!Grey

LEMMA BreakRuns ==
  ASSUME KeyTypes, NEW s \in Decoder, Settled(s), NEW k \in Board
  PROVE  /\ K!BreakCode(k) \in Seq(KeyByte)
         /\ \E t \in Decoder :
              RunOf(K!BreakCode(k), s, t) /\ t.on = OnBroken(s.on, k) /\ t.ty = s.ty
<1>0. k \in Names /\ "ext" \notin s.on /\ s.on \subseteq Flags /\ s.ty \in Seq(Chars)
  BY BoardNames DEF Settled, Decoder
<1>3. ASSUME NEW c \in {"2A", "46", "37", "48"}
      PROVE  /\ K!Press(c) \in KeyByte /\ K!Press(c).code = c /\ ~K!Press(c).up /\ K!Press(c) # K!E0
             /\ K!Release(c) \in KeyByte /\ K!Release(c).code = c /\ K!Release(c).up /\ K!Release(c) # K!E0
  <2>1. c \in Codes /\ c # "60"
    BY DEF Codes
  <2> QED BY <2>1, ByteFacts
<1>4. ASSUME k \notin K!Shifts \cup K!Ctrls \cup K!Alts
      PROVE  OnBroken(s.on, k) = s.on
  BY <1>4 DEF OnBroken, ModOf
<1>5. CASE k \notin K!Grey \cup {"pause", "print"}
  <2>1. K!BreakCode(k) = <<K!Release(K!Code(k))>>
    <3>1. k # "pause" /\ k # "print" /\ k # "up" /\ k \notin K!Grey
      BY <1>5 DEF K!Grey
    <3> QED BY <3>1 DEF K!BreakCode
  <2>2. PICK c \in Codes \ {"60"} : c = K!Code(k) /\ Mod({}, c) = ModOf(k)
    BY <1>0, <1>5, KeyCodes
  <2>3. K!BreakCode(k) \in Seq(KeyByte)
    <3>1. K!Release(c) \in KeyByte
      BY ByteFacts
    <3> QED BY <2>1, <2>2, <3>1
  <2>4. PICK t \in Decoder : RunOf(<<K!Release(c)>>, s, t) /\ t.on = s.on \ Mod({}, c) /\ t.ty = s.ty
    BY ZenonT(40), <1>0, PlainByte
  <2> QED BY <2>1, <2>2, <2>3, <2>4 DEF OnBroken
<1>6. CASE k \in {"rctrl", "ralt"} \/ (k = "up" /\ ~K!Held(K!Shifts))
  <2>1. K!BreakCode(k) = <<K!E0, K!Release(K!Code(k))>>
    BY <1>6 DEF K!BreakCode, K!Grey
  <2>2. PICK b : b = K!Release(K!Code(k))
    OBVIOUS
  <2>3. k \in Names \ {"pause", "print"}
    BY <1>0, <1>6
  <2>4. b \in KeyByte /\ b # K!E0 /\ b.up /\ b.code = K!Code(k)
    <3>1. K!Code(k) \in Codes /\ K!Code(k) # "60"
      BY <2>3, KeyCodes
    <3> QED BY <2>2, <3>1, ByteFacts
  <2>5. PICK t \in Decoder :
          /\ RunOf(<<K!E0, b>>, s, t)
          /\ t.on = IF b.up THEN (s.on \ Mod({"ext"}, b.code)) \ {"ext"}
                            ELSE (s.on \cup Mod({"ext"}, b.code)) \ {"ext"}
          /\ t.ty = IF ~b.up /\ b.code = "48" THEN s.ty \o <<"UP">> ELSE s.ty
    BY ZenonT(40), <2>4, GreyPair
  <2>6. <<K!E0, b>> \in Seq(KeyByte)
    BY <2>4, PrefixBytes
  <2>7. Mod({"ext"}, K!Code(k)) = ModOf(k)
    <3>1. CASE k = "up"
      <4>1. K!Code(k) = "48"
        BY <2>3, <3>1, KeyCodes
      <4>2. ModOf(k) = {}
        BY <3>1 DEF ModOf, K!Shifts, K!Ctrls, K!Alts
      <4> QED BY <4>1, <4>2 DEF Mod
    <3>2. CASE k \in {"rctrl", "ralt"}
      <4>1. k \in K!Ctrls \cup K!Alts
        BY <3>2 DEF K!Ctrls, K!Alts
      <4> QED BY <2>3, <4>1, KeyCodes
    <3> QED BY <1>6, <3>1, <3>2
  <2>8. t.on = OnBroken(s.on, k) /\ t.ty = s.ty
    BY <1>0, <2>4, <2>5, <2>7 DEF OnBroken
  <2> QED BY <2>1, <2>2, <2>5, <2>6, <2>8
<1>7. CASE k = "up" /\ K!Held(K!Shifts)
  <2>1. K!BreakCode(k) = <<K!E0, K!Release("48"), K!E0, K!Press("2A")>>
    BY <1>7 DEF K!BreakCode
  <2>2. PICK t \in Decoder :
          /\ RunOf(K!BreakCode(k), s, t) /\ K!BreakCode(k) \in Seq(KeyByte)
          /\ t.on = s.on /\ t.ty = s.ty
    <3>1. PICK b \in KeyByte : b = K!Release("48")
      BY <1>3
    <3>2. PICK d \in KeyByte : d = K!Press("2A")
      BY <1>3
    <3>3. /\ b # K!E0 /\ d # K!E0 /\ (b.code \in {"2A", "46", "37"} \/ (b.up /\ b.code = "48"))
          /\ d.code \in {"2A", "46", "37", "48"} /\ ~(~d.up /\ d.code = "48")
      BY <1>3, <3>1, <3>2
    <3>4. PICK t \in Decoder :
            /\ RunOf(<<K!E0, b, K!E0, d>>, s, t) /\ <<K!E0, b, K!E0, d>> \in Seq(KeyByte)
            /\ t.on = s.on /\ t.ty = IF ~d.up /\ d.code = "48" THEN s.ty \o <<"UP">> ELSE s.ty
      BY <1>0, <3>3, GreyPairs
    <3> QED BY <2>1, <3>1, <3>2, <3>3, <3>4
  <2> QED BY <1>4, <1>7, <2>2 DEF K!Shifts, K!Ctrls, K!Alts
<1>8. CASE k = "print"
  <2>1. K!BreakCode(k) = <<K!E0, K!Release("37"), K!E0, K!Release("2A")>>
    BY <1>8 DEF K!BreakCode, K!Grey
  <2>2. PICK t \in Decoder :
          /\ RunOf(K!BreakCode(k), s, t) /\ K!BreakCode(k) \in Seq(KeyByte)
          /\ t.on = s.on /\ t.ty = s.ty
    <3>1. PICK b \in KeyByte : b = K!Release("37")
      BY <1>3
    <3>2. PICK d \in KeyByte : d = K!Release("2A")
      BY <1>3
    <3>3. /\ b # K!E0 /\ d # K!E0 /\ (b.code \in {"2A", "46", "37"} \/ (b.up /\ b.code = "48"))
          /\ d.code \in {"2A", "46", "37", "48"} /\ ~(~d.up /\ d.code = "48")
      BY <1>3, <3>1, <3>2
    <3>4. PICK t \in Decoder :
            /\ RunOf(<<K!E0, b, K!E0, d>>, s, t) /\ <<K!E0, b, K!E0, d>> \in Seq(KeyByte)
            /\ t.on = s.on /\ t.ty = IF ~d.up /\ d.code = "48" THEN s.ty \o <<"UP">> ELSE s.ty
      BY <1>0, <3>3, GreyPairs
    <3> QED BY <2>1, <3>1, <3>2, <3>3, <3>4
  <2> QED BY <1>4, <1>8, <2>2 DEF K!Shifts, K!Ctrls, K!Alts
<1>9. CASE k = "pause"
  <2>1. K!BreakCode(k) = << >>
    BY <1>9 DEF K!BreakCode, K!Grey
  <2>2. RunOf(<< >>, s, s) /\ << >> \in Seq(KeyByte)
    BY RunNone
  <2> QED BY ZenonT(40), <1>4, <1>9, <2>1, <2>2 DEF K!Shifts, K!Ctrls, K!Alts
<1> QED BY <1>0, <1>5, <1>6, <1>7, <1>8, <1>9 DEF K!Grey

------------------------------------------------------------------------------
(* The typist's steps. *)
Shows(n) ==
  /\ n \in Decoder /\ n.ty = typed
  /\ "shift" \in n.on <=> ShiftHeld
  /\ "ctrl" \in n.on <=> CtrlHeld
  /\ "alt" \in n.on <=> AltHeld
  /\ "caps" \in n.on <=> CapsLockOn
  /\ "ext" \in n.on <=> ExtendedPrefix

(* The bytes on the wire take the decoder to what is held down and wanted. *)
KeyInv == KeyTypes /\ \E n, s \in Decoder : Shows(n) /\ RunOf(keyWire, n, s) /\ Settled(s)

LEMMA WantedChars == ASSUME NEW k PROVE K!Wanted(k) \in Seq(Chars)
<1>1. << >> \in Seq(Chars) /\ \A c \in Chars : <<c>> \in Seq(Chars)
  OBVIOUS
<1>2. {"UP", "ctrlA", "a", "A", "1", "bang", "8"} \subseteq Chars
  BY DEF Chars
<1>3. K!Wanted(k) = << >> \/ \E c \in {"UP", "ctrlA", "a", "A", "1", "bang", "8"} : K!Wanted(k) = <<c>>
  BY DEF K!Wanted
<1> QED BY ZenonT(40), <1>1, <1>2, <1>3

(* Two keys of a modifier together are remembered. *)
LEMMA MadeSettled ==
  ASSUME KeyTypes, NEW s \in Decoder, Settled(s), NEW t \in Decoder, NEW k \in Board, NEW x \in Seq(Chars),
         t.on = OnMade(s.on, k), t.ty = s.ty \o x, Len(x) <= 1, ~overlap => x = K!Wanted(k),
         down' = down \cup {k}, events' = events + 1, due' = due \o K!Wanted(k),
         capsWanted' = (capsWanted # (k = "caps")),
         ~overlap' => ~overlap /\ \A pair \in K!Pairs : ~(pair \subseteq down \cup {k})
  PROVE  Settled(t)'
<1>1. /\ "ext" \notin s.on /\ s.ty \in Seq(Chars) /\ Len(s.ty) <= events /\ events \in Nat
      /\ "shift" \in s.on => K!Held(K!Shifts)
      /\ "ctrl" \in s.on => K!Held(K!Ctrls)
      /\ "alt" \in s.on => K!Held(K!Alts)
  BY BoardNames DEF Settled, Decoder, KeyTypes
<1>2. "ext" \notin t.on
  BY <1>1 DEF OnMade, ModOf
<1>3. Len(t.ty) <= events'
  <2>1. Len(t.ty) = Len(s.ty) + Len(x) /\ Len(s.ty) \in Nat /\ Len(x) \in Nat
    BY <1>1, ConcatProperties
  <2> QED BY <1>1, <2>1
<1>4. /\ "shift" \in t.on <=> ("shift" \in s.on \/ k \in K!Shifts)
      /\ "ctrl" \in t.on <=> ("ctrl" \in s.on \/ k \in K!Ctrls)
      /\ "alt" \in t.on <=> ("alt" \in s.on \/ k \in K!Alts)
  BY DEF OnMade, ModOf, K!Shifts, K!Ctrls, K!Alts
<1>5. "caps" \in t.on <=> (IF k = "caps" THEN "caps" \notin s.on ELSE "caps" \in s.on)
  BY DEF OnMade, ModOf
<1>6. /\ K!Held(K!Shifts)' <=> (K!Held(K!Shifts) \/ k \in K!Shifts)
      /\ K!Held(K!Ctrls)' <=> (K!Held(K!Ctrls) \/ k \in K!Ctrls)
      /\ K!Held(K!Alts)' <=> (K!Held(K!Alts) \/ k \in K!Alts)
  BY ZenonT(40) DEF K!Held, K!Shifts, K!Ctrls, K!Alts
<1>7. ASSUME ~overlap'
      PROVE  /\ K!Held(K!Shifts)' => "shift" \in t.on
             /\ K!Held(K!Ctrls)' => "ctrl" \in t.on
             /\ K!Held(K!Alts)' => "alt" \in t.on
             /\ "caps" \in t.on <=> capsWanted'
             /\ t.ty = due'
             /\ \A pair \in K!Pairs : ~(pair \subseteq down')
  <2>1. /\ K!Held(K!Shifts) => "shift" \in s.on
        /\ K!Held(K!Ctrls) => "ctrl" \in s.on
        /\ K!Held(K!Alts) => "alt" \in s.on
        /\ "caps" \in s.on <=> capsWanted
        /\ s.ty = due
    BY <1>7 DEF Settled
  <2>2. "caps" \in t.on <=> capsWanted'
    <3>1. capsWanted \in BOOLEAN /\ (k = "caps") \in BOOLEAN
      BY DEF KeyTypes
    <3>2. capsWanted' <=> ~(capsWanted <=> k = "caps")
      BY ZenonT(40), <3>1
    <3> QED BY <1>5, <2>1, <3>2
  <2>3. t.ty = due'
    BY <1>7, <2>1
  <2>4. \A pair \in K!Pairs : ~(pair \subseteq down')
    BY <1>7
  <2> QED BY <1>4, <1>6, <2>1, <2>2, <2>3, <2>4
<1> HIDE DEF OnMade
<1> QED BY ZenonT(40), <1>1, <1>2, <1>3, <1>4, <1>6, <1>7 DEF Settled, K!Shifts, K!Ctrls, K!Alts, K!Pairs

LEMMA BrokenSettled ==
  ASSUME KeyTypes, NEW s \in Decoder, Settled(s), NEW t \in Decoder, NEW k \in Board,
         t.on = OnBroken(s.on, k), t.ty = s.ty, k \in down,
         down' = down \ {k}, events' = events + 1, UNCHANGED <<due, capsWanted, overlap>>
  PROVE  Settled(t)'
<1>1. /\ "ext" \notin s.on /\ s.ty \in Seq(Chars) /\ Len(s.ty) <= events /\ events \in Nat
      /\ "shift" \in s.on => K!Held(K!Shifts)
      /\ "ctrl" \in s.on => K!Held(K!Ctrls)
      /\ "alt" \in s.on => K!Held(K!Alts)
  BY BoardNames DEF Settled, Decoder, KeyTypes
<1>2. "ext" \notin t.on /\ ("caps" \in t.on <=> "caps" \in s.on)
  BY <1>1 DEF OnBroken, ModOf
<1>3. Len(t.ty) <= events'
  <2>1. Len(s.ty) \in Nat
    BY <1>1
  <2> QED BY <1>1, <2>1
<1>4. /\ "shift" \in t.on <=> ("shift" \in s.on /\ k \notin K!Shifts)
      /\ "ctrl" \in t.on <=> ("ctrl" \in s.on /\ k \notin K!Ctrls)
      /\ "alt" \in t.on <=> ("alt" \in s.on /\ k \notin K!Alts)
  BY DEF OnBroken, ModOf, K!Shifts, K!Ctrls, K!Alts
<1>5. /\ k \notin K!Shifts => (K!Held(K!Shifts)' <=> K!Held(K!Shifts))
      /\ k \notin K!Ctrls => (K!Held(K!Ctrls)' <=> K!Held(K!Ctrls))
      /\ k \notin K!Alts => (K!Held(K!Alts)' <=> K!Held(K!Alts))
  BY DEF K!Held, K!Shifts, K!Ctrls, K!Alts
<1>6. ASSUME ~overlap'
      PROVE  /\ K!Held(K!Shifts)' => "shift" \in t.on
             /\ K!Held(K!Ctrls)' => "ctrl" \in t.on
             /\ K!Held(K!Alts)' => "alt" \in t.on
             /\ "caps" \in t.on <=> capsWanted'
             /\ t.ty = due'
             /\ \A pair \in K!Pairs : ~(pair \subseteq down')
  <2>1. /\ K!Held(K!Shifts) => "shift" \in s.on
        /\ K!Held(K!Ctrls) => "ctrl" \in s.on
        /\ K!Held(K!Alts) => "alt" \in s.on
        /\ "caps" \in s.on <=> capsWanted
        /\ s.ty = due
        /\ \A pair \in K!Pairs : ~(pair \subseteq down)
    BY <1>6 DEF Settled
  <2>2. /\ k \in K!Shifts => ~K!Held(K!Shifts)'
        /\ k \in K!Ctrls => ~K!Held(K!Ctrls)'
        /\ k \in K!Alts => ~K!Held(K!Alts)'
    <3>1. ~(K!Shifts \subseteq down) /\ ~(K!Ctrls \subseteq down) /\ ~(K!Alts \subseteq down)
      BY <2>1 DEF K!Pairs
    <3> QED BY <3>1 DEF K!Held, K!Shifts, K!Ctrls, K!Alts
  <2>3. \A pair \in K!Pairs : ~(pair \subseteq down')
    BY <2>1
  <2>4. "caps" \in t.on <=> capsWanted'
    BY <1>2, <2>1
  <2>5. t.ty = due'
    BY <2>1
  <2> QED BY <1>4, <1>5, <2>1, <2>2, <2>3, <2>4, <2>5
<1> QED BY <1>1, <1>2, <1>3, <1>4, <1>5, <1>6 DEF Settled, K!Shifts, K!Ctrls, K!Alts, K!Pairs

LEMMA SendsStep ==
  ASSUME KeyInv, NEW k \in Board, K!Sends(k), events < MaxEvents, events' = events + 1,
         down' = down \cup {k}, latest' \in Board \cup {"none"}, overlap' \in BOOLEAN,
         ~overlap' => ~overlap /\ \A pair \in K!Pairs : ~(pair \subseteq down \cup {k})
  PROVE  KeyInv'
<1>1. PICK n \in Decoder, s \in Decoder : Shows(n) /\ RunOf(keyWire, n, s) /\ Settled(s)
  BY DEF KeyInv
<1>2. KeyTypes
  BY DEF KeyInv
<1>3. /\ K!MakeCode(k) \in Seq(KeyByte)
      /\ \E t \in Decoder, x \in Seq(Chars) :
           /\ RunOf(K!MakeCode(k), s, t)
           /\ t.on = OnMade(s.on, k) /\ t.ty = s.ty \o x
           /\ Len(x) <= 1 /\ (~overlap => x = K!Wanted(k))
  BY ZenonT(40), <1>1, <1>2, MakeRuns
<1>4. PICK t \in Decoder, x \in Seq(Chars) :
        /\ RunOf(K!MakeCode(k), s, t)
        /\ t.on = OnMade(s.on, k) /\ t.ty = s.ty \o x
        /\ Len(x) <= 1 /\ (~overlap => x = K!Wanted(k))
  BY ZenonT(40), <1>3
<1>5. /\ keyWire' = keyWire \o K!MakeCode(k) /\ due' = due \o K!Wanted(k)
      /\ capsWanted' = (capsWanted # (k = "caps"))
      /\ UNCHANGED <<ShiftHeld, CtrlHeld, AltHeld, CapsLockOn, NumLockOn, ScrollLockOn, ExtendedPrefix,
          typed>>
  BY DEF K!Sends, K!modifiers, K!locks
<1>6. PICK w \in Seq(KeyByte) : w = K!MakeCode(k)
  BY <1>3
<1>7. keyWire' \in Seq(KeyByte) /\ RunOf(keyWire, n, s) /\ RunOf(w, s, t)
  <2>1. keyWire \in Seq(KeyByte)
    BY <1>2 DEF KeyTypes
  <2> QED BY <1>1, <1>4, <1>5, <1>6, <2>1, ConcatProperties
<1>8. RunOf(keyWire', n, t)
  <2>1. keyWire \in Seq(KeyByte)
    BY <1>2 DEF KeyTypes
  <2>2. RunOf(keyWire \o w, n, t)
    BY <1>6, <1>7, <2>1, RunConcat
  <2> QED BY <1>5, <1>6, <2>2
<1>9. Settled(t)'
  BY ZenonT(40), <1>1, <1>2, <1>4, <1>5, MadeSettled
<1>10. Shows(n)'
  BY <1>1, <1>5 DEF Shows
<1>11. KeyTypes'
  <2>1. due' \in Seq(Chars)
    <3>1. due \in Seq(Chars) /\ K!Wanted(k) \in Seq(Chars)
      BY <1>2, WantedChars DEF KeyTypes
    <3> QED BY <1>5, <3>1, ConcatProperties
  <2>2. down' \subseteq Board /\ capsWanted' \in BOOLEAN
    BY <1>2, <1>5 DEF KeyTypes
  <2>3. events' \in 0..MaxEvents
    <3>1. events \in 0..MaxEvents /\ MaxEvents \in Nat
      BY <1>2, BoardNames DEF KeyTypes
    <3> QED BY <3>1
  <2> QED BY <1>2, <1>5, <1>7, <2>1, <2>2, <2>3 DEF KeyTypes
<1>12. RunOf(keyWire, n, t)'
  BY ZenonT(40), <1>8 DEF RunOf
<1> QED BY <1>9, <1>10, <1>11, <1>12 DEF KeyInv

LEMMA BreaksStep ==
  ASSUME KeyInv, NEW k \in Board, K!ReleaseKey(k)
  PROVE  KeyInv'
<1>1. PICK n \in Decoder, s \in Decoder : Shows(n) /\ RunOf(keyWire, n, s) /\ Settled(s)
  BY DEF KeyInv
<1>2. KeyTypes
  BY DEF KeyInv
<1>3. K!BreakCode(k) \in Seq(KeyByte)
  BY <1>1, <1>2, BreakRuns
<1>4. PICK t \in Decoder : RunOf(K!BreakCode(k), s, t) /\ t.on = OnBroken(s.on, k) /\ t.ty = s.ty
  BY <1>1, <1>2, BreakRuns
<1>5. /\ keyWire' = keyWire \o K!BreakCode(k) /\ k \in down /\ down' = down \ {k}
      /\ events < MaxEvents /\ events' = events + 1
      /\ UNCHANGED <<latest, capsWanted, due, overlap>>
      /\ UNCHANGED <<ShiftHeld, CtrlHeld, AltHeld, CapsLockOn, NumLockOn, ScrollLockOn, ExtendedPrefix,
          typed>>
  BY DEF K!ReleaseKey, K!modifiers, K!locks
<1>6. PICK w \in Seq(KeyByte) : w = K!BreakCode(k)
  BY <1>3
<1>7. keyWire \in Seq(KeyByte)
  BY <1>2 DEF KeyTypes
<1>8. keyWire' \in Seq(KeyByte) /\ RunOf(keyWire', n, t)
  <2>1. keyWire \o w \in Seq(KeyByte)
    BY <1>7, ConcatProperties
  <2>2. RunOf(w, s, t)
    BY <1>4, <1>6
  <2>3. RunOf(keyWire \o w, n, t)
    BY <1>1, <1>7, <2>2, RunConcat
  <2> QED BY <1>5, <1>6, <2>1, <2>3
<1>9. Settled(t)'
  BY <1>1, <1>2, <1>4, <1>5, BrokenSettled
<1>10. Shows(n)'
  BY <1>1, <1>5 DEF Shows
<1>11. KeyTypes'
  <2>1. events' \in 0..MaxEvents
    <3>1. events \in 0..MaxEvents /\ MaxEvents \in Nat
      BY <1>2, BoardNames DEF KeyTypes
    <3> QED BY <1>5, <3>1
  <2> QED BY <1>2, <1>5, <1>8, <2>1 DEF KeyTypes
<1>12. RunOf(keyWire, n, t)'
  BY <1>8 DEF RunOf
<1> QED BY <1>9, <1>10, <1>11, <1>12 DEF KeyInv

LEMMA TypistStep ==
  ASSUME KeyInv, NEW k \in Board, K!PressKey(k) \/ K!RepeatKey(k) \/ K!ReleaseKey(k)
  PROVE  KeyInv'
<1>0. /\ down \subseteq Board /\ latest \in Board \cup {"none"} /\ overlap \in BOOLEAN
  BY DEF KeyInv, KeyTypes
<1>1. CASE K!PressKey(k)
  <2>1. /\ K!Sends(k) /\ events < MaxEvents /\ events' = events + 1 /\ down' = down \cup {k} /\ latest' = k
        /\ overlap' = (overlap \/ \E pair \in K!Pairs : pair \subseteq down \cup {k})
    BY <1>1 DEF K!PressKey
  <2>2. overlap' \in BOOLEAN
    BY <2>1
  <2>3. ~overlap' => ~overlap /\ \A pair \in K!Pairs : ~(pair \subseteq down \cup {k})
    BY ZenonT(40), <2>1
  <2> QED BY <2>1, <2>2, <2>3, SendsStep
<1>2. CASE K!RepeatKey(k)
  <2>1. /\ K!Sends(k) /\ events < MaxEvents /\ events' = events + 1
        /\ k \in down /\ UNCHANGED <<down, latest, overlap>>
    BY <1>2 DEF K!RepeatKey
  <2>2. down \cup {k} = down
    BY <2>1
  <2>3. ~overlap => \A pair \in K!Pairs : ~(pair \subseteq down)
    BY DEF KeyInv, Settled
  <2>4. ~overlap' => ~overlap /\ \A pair \in K!Pairs : ~(pair \subseteq down \cup {k})
    BY <2>1, <2>2, <2>3
  <2> QED BY <1>0, <2>1, <2>2, <2>4, SendsStep
<1> QED BY <1>1, <1>2, BreaksStep

------------------------------------------------------------------------------
(* The interrupt handler does what After says. *)
LEMMA ModSame ==
  ASSUME NEW n, Shows(n), NEW c
  PROVE  /\ K!Modifier(c) = "shift" <=> Mod(n.on, c) = {"shift"}
         /\ K!Modifier(c) = "ctrl" <=> Mod(n.on, c) = {"ctrl"}
         /\ K!Modifier(c) = "alt" <=> Mod(n.on, c) = {"alt"}
         /\ K!Modifier(c) = "none" <=> Mod(n.on, c) = {}
<1>1. "ext" \in n.on <=> ExtendedPrefix
  BY DEF Shows
<1>2. CASE c \in {"2A", "36"} /\ ~ExtendedPrefix
  BY <1>1, <1>2 DEF K!Modifier, Mod
<1>3. CASE c = "1D"
  BY <1>1, <1>3 DEF K!Modifier, Mod
<1>4. CASE c = "38"
  BY <1>1, <1>4 DEF K!Modifier, Mod
<1>5. CASE ~(c \in {"2A", "36"} /\ ~ExtendedPrefix) /\ c # "1D" /\ c # "38"
  BY <1>1, <1>5 DEF K!Modifier, Mod
<1> QED BY <1>2, <1>3, <1>4, <1>5

LEMMA DecodedSame ==
  ASSUME NEW n, Shows(n), NEW c
  PROVE  K!Decoded(c) = KeyOf(n.on, c)
<1>1. /\ "ext" \in n.on <=> ExtendedPrefix
      /\ "shift" \in n.on <=> ShiftHeld
      /\ "ctrl" \in n.on <=> CtrlHeld
      /\ "alt" \in n.on <=> AltHeld
      /\ "caps" \in n.on <=> CapsLockOn
  BY DEF Shows
<1>2. DOMAIN K!ScancodeToAscii = {"1E", "02", "48"}
  BY DEF K!ScancodeToAscii
<1>3. CASE ExtendedPrefix
  BY <1>1, <1>3 DEF K!Decoded, KeyOf
<1>4. CASE ~ExtendedPrefix /\ c \notin {"1E", "02", "48"}
  BY <1>1, <1>2, <1>4 DEF K!Decoded, KeyOf
<1>5. CASE ~ExtendedPrefix /\ c \in {"1E", "02", "48"}
  <2>1. K!Ascii(c) = Char(n.on, c)
    <3>1. /\ K!ScancodeToAscii["1E"] = "a" /\ K!ScancodeToAscii["02"] = "1" /\ K!ScancodeToAscii["48"] = "8"
          /\ K!ScancodeToAsciiShift["1E"] = "A" /\ K!ScancodeToAsciiShift["02"] = "bang"
          /\ K!ScancodeToAsciiShift["48"] = "8"
      BY DEF K!ScancodeToAscii, K!ScancodeToAsciiShift
    <3>2. CASE c = "1E"
      BY <1>1, <3>1, <3>2 DEF K!Ascii, Char
    <3>3. CASE c = "02"
      BY <1>1, <3>1, <3>3 DEF K!Ascii, Char
    <3>4. CASE c = "48"
      BY <1>1, <3>1, <3>4 DEF K!Ascii, Char
    <3> QED BY <1>5, <3>2, <3>3, <3>4
  <2>2. K!Ascii(c) \in {"a", "A"} <=> c = "1E"
    BY <1>5, <2>1 DEF Char
  <2>3. K!Decoded(c) = IF CtrlHeld /\ ~AltHeld /\ K!Ascii(c) \in {"a", "A"} THEN <<"ctrlA">>
                       ELSE IF CtrlHeld \/ AltHeld THEN << >> ELSE <<K!Ascii(c)>>
    BY <1>2, <1>5 DEF K!Decoded
  <2>4. KeyOf(n.on, c) = IF "ctrl" \in n.on /\ "alt" \notin n.on /\ c = "1E" THEN <<"ctrlA">>
                         ELSE IF "ctrl" \in n.on \/ "alt" \in n.on THEN << >> ELSE <<Char(n.on, c)>>
    BY <1>1, <1>5 DEF KeyOf
  <2> QED BY <1>1, <2>1, <2>2, <2>3, <2>4
<1> QED BY <1>3, <1>4, <1>5

LEMMA HandlerShows ==
  ASSUME KeyTypes, NEW n \in Decoder, Shows(n), K!KeyboardIrqHandler
  PROVE  /\ keyWire # << >>
         /\ \E m \in Decoder : m = After(n, Head(keyWire)) /\ Shows(m)'
         /\ \/ keyWire' = Tail(keyWire)
            \/ keyWire' = <<K!ACK, K!ACK>> \o Tail(keyWire)
            \/ keyWire' = Tail(keyWire) \o <<K!ACK, K!ACK>>
         /\ UNCHANGED <<down, latest, events, capsWanted, due, overlap>>
<1>0. keyWire # << >>
  BY DEF K!KeyboardIrqHandler, K!PrefixByte, K!ModifierByte, K!LockByte, K!CharacterByte, K!Take
<1>1. PICK b \in KeyByte : b = Head(keyWire)
  BY <1>0 DEF KeyTypes
<1>2. K!Byte = b
  BY <1>1 DEF K!Byte
<1>3. PICK m \in Decoder : m = After(n, b)
  BY AfterFacts
<1>4. /\ m.on = OnAfter(n.on, b) /\ m.ty = n.ty \o TypedAfter(n.on, b)
      /\ n.ty \o << >> = n.ty /\ n.ty = typed
  BY <1>3, ConcatEmptySeq DEF After, Decoder, Shows
<1>5. /\ "ext" \in n.on <=> ExtendedPrefix
      /\ "shift" \in n.on <=> ShiftHeld
      /\ "ctrl" \in n.on <=> CtrlHeld
      /\ "alt" \in n.on <=> AltHeld
      /\ "caps" \in n.on <=> CapsLockOn
  BY DEF Shows
<1>6. CASE K!PrefixByte
  <2>1. /\ b = K!E0 /\ ExtendedPrefix' = TRUE /\ keyWire' = Tail(keyWire)
        /\ UNCHANGED <<down, latest, events, capsWanted, due, overlap>>
        /\ UNCHANGED <<ShiftHeld, CtrlHeld, AltHeld, CapsLockOn, NumLockOn, ScrollLockOn, typed>>
    BY <1>2, <1>6 DEF K!PrefixByte, K!user, K!modifiers, K!locks
  <2>2. m.on = n.on \cup {"ext"} /\ m.ty = typed
    BY <1>4, <2>1 DEF OnAfter, TypedAfter
  <2>3. Shows(m)'
    BY <1>5, <2>1, <2>2 DEF Shows
  <2> QED BY <1>0, <1>1, <1>3, <2>1, <2>3
<1>7. CASE K!ModifierByte
  <2>1. /\ b # K!E0 /\ ~ExtendedPrefix' /\ keyWire' = Tail(keyWire)
        /\ UNCHANGED <<down, latest, events, capsWanted, due, overlap>>
        /\ UNCHANGED <<CapsLockOn, NumLockOn, ScrollLockOn, typed>>
        /\ \/ K!Modifier(b.code) = "shift" /\ ShiftHeld' = ~b.up /\ UNCHANGED <<CtrlHeld, AltHeld>>
           \/ K!Modifier(b.code) = "ctrl" /\ CtrlHeld' = ~b.up /\ UNCHANGED <<ShiftHeld, AltHeld>>
           \/ K!Modifier(b.code) = "alt" /\ AltHeld' = ~b.up /\ UNCHANGED <<ShiftHeld, CtrlHeld>>
    BY <1>2, <1>7 DEF K!ModifierByte, K!Take, K!user, K!locks
  <2>2. PICK f \in {"shift", "ctrl", "alt"} : K!Modifier(b.code) = f
    BY <2>1
  <2>3. Mod(n.on, b.code) = {f}
    BY <2>2, ModSame
  <2>4. Lock(n.on, b.code) = {}
    BY <2>3 DEF Mod, Lock
  <2>5. m.on = (IF b.up THEN n.on \ {f} ELSE n.on \cup {f}) \ {"ext"} /\ m.ty = typed
    BY <1>4, <2>1, <2>3, <2>4 DEF OnAfter, TypedAfter
  <2>6. /\ "shift" \in m.on <=> ShiftHeld'
        /\ "ctrl" \in m.on <=> CtrlHeld'
        /\ "alt" \in m.on <=> AltHeld'
        /\ "caps" \in m.on <=> CapsLockOn'
        /\ "ext" \in m.on <=> ExtendedPrefix'
    <3>1. CASE f = "shift"
      <4>1. ShiftHeld' = ~b.up /\ UNCHANGED <<CtrlHeld, AltHeld>>
        BY <2>1, <2>2, <3>1
      <4> QED BY ZenonT(40), <1>5, <2>1, <2>5, <3>1, <4>1
    <3>2. CASE f = "ctrl"
      <4>1. CtrlHeld' = ~b.up /\ UNCHANGED <<ShiftHeld, AltHeld>>
        BY <2>1, <2>2, <3>2
      <4> QED BY ZenonT(40), <1>5, <2>1, <2>5, <3>2, <4>1
    <3>3. CASE f = "alt"
      <4>1. AltHeld' = ~b.up /\ UNCHANGED <<ShiftHeld, CtrlHeld>>
        BY <2>1, <2>2, <3>3
      <4> QED BY ZenonT(40), <1>5, <2>1, <2>5, <3>3, <4>1
    <3> QED BY <3>1, <3>2, <3>3
  <2>7. Shows(m)'
    BY <2>1, <2>5, <2>6 DEF Shows
  <2> QED BY <1>0, <1>1, <1>3, <2>1, <2>7
<1>8. CASE K!LockByte
  <2>1. /\ b # K!E0 /\ ~ExtendedPrefix' /\ ~ExtendedPrefix /\ ~b.up
        /\ UNCHANGED <<down, latest, events, capsWanted, due, overlap>>
        /\ UNCHANGED <<ShiftHeld, CtrlHeld, AltHeld, typed>>
        /\ \/ b.code = "3A" /\ CapsLockOn' = ~CapsLockOn
           \/ b.code \in {"45", "46"} /\ CapsLockOn' = CapsLockOn
        /\ \/ keyWire' = <<K!ACK, K!ACK>> \o Tail(keyWire)
           \/ keyWire' = Tail(keyWire) \o <<K!ACK, K!ACK>>
    BY ZenonT(40), <1>2, <1>8 DEF K!LockByte, K!Take, K!user, K!modifiers
  <2>2. Mod(n.on, b.code) = {} /\ KeyOf(n.on, b.code) = << >>
    BY <1>5, <2>1 DEF Mod, KeyOf
  <2>3. m.ty = typed
    BY <1>4, <2>1, <2>2 DEF TypedAfter
  <2>4. /\ "shift" \in m.on <=> ShiftHeld'
        /\ "ctrl" \in m.on <=> CtrlHeld'
        /\ "alt" \in m.on <=> AltHeld'
        /\ "caps" \in m.on <=> CapsLockOn'
        /\ "ext" \in m.on <=> ExtendedPrefix'
    <3>1. CASE b.code = "3A" /\ CapsLockOn' = ~CapsLockOn
      <4>1. m.on = ((n.on \ {"caps"}) \cup ({"caps"} \ n.on)) \ {"ext"}
        BY <1>4, <1>5, <2>1, <2>2, <3>1 DEF OnAfter, Lock
      <4> QED BY ZenonT(40), <1>5, <2>1, <3>1, <4>1
    <3>2. CASE b.code \in {"45", "46"} /\ CapsLockOn' = CapsLockOn
      <4>1. m.on = n.on \ {"ext"}
        BY <1>4, <1>5, <2>1, <2>2, <3>2 DEF OnAfter, Lock
      <4> QED BY <1>5, <2>1, <3>2, <4>1
    <3> QED BY <2>1, <3>1, <3>2
  <2>5. Shows(m)'
    BY <2>1, <2>3, <2>4 DEF Shows
  <2> QED BY ZenonT(40), <1>0, <1>1, <1>3, <2>1, <2>5
<1>9. CASE K!CharacterByte
  <2>1. /\ b # K!E0 /\ ~ExtendedPrefix' /\ keyWire' = Tail(keyWire)
        /\ UNCHANGED <<down, latest, events, capsWanted, due, overlap>>
        /\ UNCHANGED <<ShiftHeld, CtrlHeld, AltHeld, CapsLockOn, NumLockOn, ScrollLockOn>>
        /\ K!Modifier(b.code) = "none"
        /\ ~(~ExtendedPrefix /\ ~b.up /\ b.code \in {"3A", "45", "46"})
        /\ typed' = IF b.up THEN typed ELSE typed \o K!Decoded(b.code)
    BY <1>2, <1>9 DEF K!CharacterByte, K!Take, K!user, K!modifiers, K!locks
  <2>2. Mod(n.on, b.code) = {} /\ K!Decoded(b.code) = KeyOf(n.on, b.code)
    BY ZenonT(40), <2>1, ModSame, DecodedSame
  <2>3. b.up \/ Lock(n.on, b.code) = {}
    BY <1>5, <2>1 DEF Lock
  <2>4. m.on = n.on \ {"ext"}
    BY <1>4, <2>1, <2>2, <2>3 DEF OnAfter
  <2>5. m.ty = typed'
    BY ZenonT(40), <1>4, <2>1, <2>2 DEF TypedAfter
  <2>6. Shows(m)'
    BY <1>5, <2>1, <2>4, <2>5 DEF Shows
  <2> QED BY <1>0, <1>1, <1>3, <2>1, <2>6
<1> QED BY ZenonT(40), <1>6, <1>7, <1>8, <1>9 DEF K!KeyboardIrqHandler

LEMMA HandlerTypes ==
  ASSUME KeyTypes, K!KeyboardIrqHandler, keyWire' \in Seq(KeyByte), keyWire # << >>
  PROVE  KeyTypes'
<1>1. PICK b \in KeyByte : b = Head(keyWire)
  BY DEF KeyTypes
<1>2. K!Byte = b /\ (~b.up) \in BOOLEAN
  BY <1>1 DEF K!Byte, KeyByte
<1>3. CASE K!PrefixByte
  <2>1. /\ ExtendedPrefix' = TRUE
        /\ UNCHANGED <<down, latest, events, capsWanted, due, overlap>>
        /\ UNCHANGED <<ShiftHeld, CtrlHeld, AltHeld, CapsLockOn, NumLockOn, ScrollLockOn, typed>>
    BY <1>3 DEF K!PrefixByte, K!user, K!modifiers, K!locks
  <2>2. ExtendedPrefix' \in BOOLEAN
    BY <2>1
  <2> QED BY <2>1, <2>2 DEF KeyTypes
<1>4. CASE K!ModifierByte
  <2>1. /\ ExtendedPrefix' = FALSE
        /\ UNCHANGED <<down, latest, events, capsWanted, due, overlap>>
        /\ UNCHANGED <<CapsLockOn, NumLockOn, ScrollLockOn, typed>>
    BY <1>4 DEF K!ModifierByte, K!Take, K!user, K!locks
  <2>2. \/ ShiftHeld' = ~b.up /\ UNCHANGED <<CtrlHeld, AltHeld>>
        \/ CtrlHeld' = ~b.up /\ UNCHANGED <<ShiftHeld, AltHeld>>
        \/ AltHeld' = ~b.up /\ UNCHANGED <<ShiftHeld, CtrlHeld>>
    BY <1>2, <1>4 DEF K!ModifierByte
  <2>3. ShiftHeld' \in BOOLEAN /\ CtrlHeld' \in BOOLEAN /\ AltHeld' \in BOOLEAN
    BY ZenonT(40), <1>2, <2>2 DEF KeyTypes
  <2>4. ExtendedPrefix' \in BOOLEAN
    BY ZenonT(40), <2>1
  <2> QED BY <2>1, <2>3, <2>4 DEF KeyTypes
<1>5. CASE K!LockByte
  <2>1. /\ ExtendedPrefix' = FALSE
        /\ UNCHANGED <<down, latest, events, capsWanted, due, overlap>>
        /\ UNCHANGED <<ShiftHeld, CtrlHeld, AltHeld, typed>>
    BY <1>5 DEF K!LockByte, K!Take, K!user, K!modifiers
  <2>2. \/ CapsLockOn' = ~CapsLockOn /\ UNCHANGED <<NumLockOn, ScrollLockOn>>
        \/ NumLockOn' = ~NumLockOn /\ UNCHANGED <<CapsLockOn, ScrollLockOn>>
        \/ ScrollLockOn' = ~ScrollLockOn /\ UNCHANGED <<CapsLockOn, NumLockOn>>
    BY <1>5 DEF K!LockByte
  <2>3. CapsLockOn' \in BOOLEAN /\ NumLockOn' \in BOOLEAN /\ ScrollLockOn' \in BOOLEAN
    BY ZenonT(40), <2>2 DEF KeyTypes
  <2>4. ExtendedPrefix' \in BOOLEAN
    BY ZenonT(40), <2>1
  <2> QED BY <2>1, <2>3, <2>4 DEF KeyTypes
<1>6. CASE K!CharacterByte
  <2>1. /\ ExtendedPrefix' = FALSE
        /\ UNCHANGED <<down, latest, events, capsWanted, due, overlap>>
        /\ UNCHANGED <<ShiftHeld, CtrlHeld, AltHeld, CapsLockOn, NumLockOn, ScrollLockOn>>
        /\ typed' = IF b.up THEN typed ELSE typed \o K!Decoded(b.code)
    BY <1>2, <1>6 DEF K!CharacterByte, K!Take, K!user, K!modifiers, K!locks
  <2>2. typed' \in Seq(Chars)
    <3>1. K!Decoded(b.code) \in Seq(Chars)
      <4>1. K!Decoded(b.code) = << >> \/ \E c \in Chars : K!Decoded(b.code) = <<c>>
        <5>1. "UP" \in Chars /\ "ctrlA" \in Chars
          BY DEF Chars
        <5>2. CASE b.code \in {"1E", "02", "48"}
          <6>1. K!Ascii(b.code) \in Chars
            BY <5>2 DEF K!Ascii, K!ScancodeToAscii, K!ScancodeToAsciiShift, Chars
          <6>2. b.code \in DOMAIN K!ScancodeToAscii
            BY <5>2 DEF K!ScancodeToAscii
          <6> QED BY <5>1, <6>1, <6>2 DEF K!Decoded
        <5>3. CASE b.code \notin {"1E", "02", "48"}
          <6>1. b.code \notin DOMAIN K!ScancodeToAscii
            BY <5>3 DEF K!ScancodeToAscii
          <6> QED BY <5>1, <6>1 DEF K!Decoded
        <5> QED BY <5>2, <5>3
      <4>2. << >> \in Seq(Chars) /\ \A c \in Chars : <<c>> \in Seq(Chars)
        OBVIOUS
      <4> QED BY ZenonT(40), <4>1, <4>2
    <3>2. typed \in Seq(Chars)
      BY DEF KeyTypes
    <3> QED BY <2>1, <3>1, <3>2, ConcatProperties
  <2>3. ExtendedPrefix' \in BOOLEAN
    BY ZenonT(40), <2>1
  <2> QED BY <2>1, <2>2, <2>3 DEF KeyTypes
<1> QED BY <1>3, <1>4, <1>5, <1>6 DEF K!KeyboardIrqHandler

(* Two acknowledgements change nothing. *)
LEMMA AckRun ==
  ASSUME NEW s \in Decoder, "ext" \notin s.on
  PROVE  <<K!ACK, K!ACK>> \in Seq(KeyByte) /\ RunOf(<<K!ACK, K!ACK>>, s, s)
<1>1. K!ACK \in KeyByte /\ K!ACK # K!E0 /\ K!ACK.up /\ K!ACK.code = "7A"
  BY PrefixBytes
<1>2. After(s, K!ACK) = s
  BY <1>1, IdleByte
<1>3. RunOf(<<K!ACK, K!ACK>>, s, After(After(s, K!ACK), K!ACK))
  BY <1>1, RunPair
<1> QED BY <1>1, <1>2, <1>3

LEMMA HandlerStep ==
  ASSUME KeyInv, K!KeyboardIrqHandler
  PROVE  KeyInv'
<1>1. PICK n \in Decoder, s \in Decoder : Shows(n) /\ RunOf(keyWire, n, s) /\ Settled(s)
  BY DEF KeyInv
<1>2. KeyTypes
  BY DEF KeyInv
<1>3. /\ keyWire # << >>
      /\ \E m \in Decoder : m = After(n, Head(keyWire)) /\ Shows(m)'
      /\ \/ keyWire' = Tail(keyWire)
         \/ keyWire' = <<K!ACK, K!ACK>> \o Tail(keyWire)
         \/ keyWire' = Tail(keyWire) \o <<K!ACK, K!ACK>>
      /\ UNCHANGED <<down, latest, events, capsWanted, due, overlap>>
  BY ZenonT(40), <1>1, <1>2, HandlerShows
<1>4. PICK m \in Decoder : m = After(n, Head(keyWire)) /\ Shows(m)'
  BY <1>3
<1>5. keyWire \in Seq(KeyByte) /\ Tail(keyWire) \in Seq(KeyByte)
  BY <1>2, <1>3 DEF KeyTypes
<1>6. RunOf(Tail(keyWire), m, s)
  BY <1>1, <1>3, <1>4, <1>5, RunTail
<1>7. PICK w \in Seq(KeyByte) : w = Tail(keyWire)
  BY ZenonT(40), <1>5
<1>8. "ext" \notin s.on
  BY <1>1 DEF Settled
<1>9. keyWire' \in Seq(KeyByte) /\ RunOf(keyWire', m, s)
  <2>1. CASE keyWire' = Tail(keyWire)
    BY <1>5, <1>6, <2>1
  <2>2. CASE keyWire' = Tail(keyWire) \o <<K!ACK, K!ACK>>
    <3>1. <<K!ACK, K!ACK>> \in Seq(KeyByte) /\ RunOf(<<K!ACK, K!ACK>>, s, s)
      BY <1>8, AckRun
    <3>2. RunOf(w \o <<K!ACK, K!ACK>>, m, s) /\ w \o <<K!ACK, K!ACK>> \in Seq(KeyByte)
      BY ZenonT(40), <1>6, <1>7, <3>1, RunConcat, ConcatProperties
    <3> QED BY <1>7, <2>2, <3>2
  <2>3. CASE keyWire' = <<K!ACK, K!ACK>> \o Tail(keyWire) /\ K!LockByte
    <3>1. ExtendedPrefix' = FALSE
      BY <2>3 DEF K!LockByte, K!Take
    <3>2. "ext" \notin m.on
      BY <1>4, <3>1 DEF Shows
    <3>3. <<K!ACK, K!ACK>> \in Seq(KeyByte) /\ RunOf(<<K!ACK, K!ACK>>, m, m)
      BY <3>2, AckRun
    <3>4. RunOf(<<K!ACK, K!ACK>> \o w, m, s) /\ <<K!ACK, K!ACK>> \o w \in Seq(KeyByte)
      BY ZenonT(40), <1>6, <1>7, <3>3, RunConcat, ConcatProperties
    <3> QED BY <1>7, <2>3, <3>4
  <2>4. K!LockByte \/ keyWire' = Tail(keyWire)
    BY DEF K!KeyboardIrqHandler, K!PrefixByte, K!ModifierByte, K!CharacterByte
  <2> QED BY ZenonT(40), <1>3, <2>1, <2>2, <2>3, <2>4
<1>10. KeyTypes'
  BY <1>2, <1>3, <1>9, HandlerTypes
<1>11. Settled(s)'
  BY <1>1, <1>3 DEF Settled, K!Held
<1>12. RunOf(keyWire, m, s)'
  BY <1>9 DEF RunOf
<1> QED BY <1>4, <1>10, <1>11, <1>12 DEF KeyInv

------------------------------------------------------------------------------

LEMMA KeyInit == K!Init => KeyInv
<1> SUFFICES ASSUME K!Init PROVE KeyInv
  OBVIOUS
<1>1. /\ down = {} /\ latest = "none" /\ keyWire = << >> /\ events = 0
      /\ capsWanted = FALSE /\ due = << >> /\ overlap = FALSE
      /\ ShiftHeld = FALSE /\ CtrlHeld = FALSE /\ AltHeld = FALSE
      /\ ExtendedPrefix = FALSE /\ CapsLockOn = FALSE
      /\ NumLockOn = FALSE /\ ScrollLockOn = FALSE /\ typed = << >>
  BY DEF K!Init
<1>2. << >> \in Seq(Chars) /\ << >> \in Seq(KeyByte) /\ Len(<< >>) = 0
  OBVIOUS
<1>3. KeyTypes
  <2>1. 0 \in 0..MaxEvents
    BY BoardNames
  <2>2. FALSE \in BOOLEAN
    OBVIOUS
  <2> QED BY ZenonT(40), <1>1, <1>2, <2>1, <2>2 DEF KeyTypes
<1>4. PICK n : n = [on |-> {}, ty |-> << >>]
  BY ZenonT(40)
<1>5. n \in Decoder /\ n.on = {} /\ n.ty = << >>
  BY <1>2, <1>4 DEF Decoder
<1>6. Shows(n) /\ RunOf(keyWire, n, n)
  BY <1>1, <1>5, RunNone DEF Shows
<1>7. Settled(n)
  <2>1. ~K!Held(K!Shifts) /\ ~K!Held(K!Ctrls) /\ ~K!Held(K!Alts)
    BY <1>1 DEF K!Held
  <2>2. \A pair \in K!Pairs : ~(pair \subseteq down)
    BY <1>1 DEF K!Pairs, K!Shifts, K!Ctrls, K!Alts
  <2>3. Len(n.ty) <= events
    BY <1>1, <1>2, <1>5
  <2> HIDE DEF K!Pairs
  <2> QED BY <1>1, <1>5, <2>1, <2>2, <2>3 DEF Settled
<1> QED BY <1>3, <1>5, <1>6, <1>7 DEF KeyInv

LEMMA KeyStep == KeyInv /\ [K!Next]_keyboard => KeyInv'
<1> SUFFICES ASSUME KeyInv, [K!Next]_keyboard PROVE KeyInv'
  OBVIOUS
<1>1. CASE UNCHANGED keyboard
  <2>1. PICK n \in Decoder, s \in Decoder : Shows(n) /\ RunOf(keyWire, n, s) /\ Settled(s)
    BY DEF KeyInv
  <2>2. KeyTypes'
    BY <1>1 DEF KeyInv, KeyTypes, keyboard
  <2>3. Shows(n)'
    BY <1>1, <2>1 DEF Shows, keyboard
  <2>4. RunOf(keyWire, n, s)'
    <3>1. keyWire' = keyWire
      BY <1>1 DEF keyboard
    <3> QED BY <2>1, <3>1 DEF RunOf
  <2>5. Settled(s)'
    BY <1>1, <2>1 DEF Settled, keyboard, K!Held
  <2> QED BY <2>2, <2>3, <2>4, <2>5 DEF KeyInv
<1>2. CASE K!Next
  BY <1>2, TypistStep, HandlerStep DEF K!Next
<1> QED BY <1>1, <1>2

LEMMA RunStart ==
  ASSUME NEW w, NEW s, NEW t, RunOf(w, s, t), Len(w) \in Nat
  PROVE  s \in Decoder /\ t \in Decoder /\ PrefixOf(s.ty, t.ty) /\ (Len(w) = 0 => s = t)
<1>1. PICK r \in [0..Len(w) -> Decoder] :
        /\ r[0] = s /\ r[Len(w)] = t
        /\ \A i \in 0..Len(w) : PrefixOf(r[i].ty, t.ty)
  BY DEF RunOf
<1>2. 0 \in 0..Len(w) /\ Len(w) \in 0..Len(w)
  OBVIOUS
<1> QED BY <1>1, <1>2

LEMMA PrefixIs ==
  ASSUME NEW s \in Seq(Chars), NEW t \in Seq(Chars), PrefixOf(s, t)
  PROVE  K!IsPrefix(s, t)
<1>1. Len(s) \in Nat /\ Len(t) \in Nat /\ Len(s) <= Len(t) /\ \A i \in 1..Len(s) : s[i] = t[i]
  BY DEF PrefixOf
<1>2. SubSeq(s, 1, Len(s)) = s
  BY SubSeqFull
<1>3. PICK u : u = SubSeq(t, 1, Len(s))
  BY ZenonT(40)
<1>4. u \in Seq(Chars) /\ Len(u) = Len(s) /\ \A i \in 1..Len(s) : u[i] = t[i]
  <2>1. \A i \in 1..Len(s) : t[i] \in Chars
    <3>1. \A i \in 1..Len(s) : i \in 1..Len(t)
      BY <1>1
    <3> QED BY <3>1, ElementOfSeq
  <2>2. 1 \in Int /\ Len(s) \in Int
    BY <1>1
  <2>3. /\ SubSeq(t, 1, Len(s)) \in Seq(Chars)
        /\ Len(SubSeq(t, 1, Len(s))) = IF 1 <= Len(s) THEN Len(s) - 1 + 1 ELSE 0
        /\ \A i \in 1..(Len(s) - 1 + 1) : SubSeq(t, 1, Len(s))[i] = t[1 + i - 1]
    BY <2>1, <2>2, SubSeqProperties
  <2>4. Len(s) - 1 + 1 = Len(s) /\ \A i \in 1..Len(s) : 1 + i - 1 = i
    BY <1>1
  <2> QED BY <1>1, <1>3, <2>3, <2>4
<1>5. u = s
  BY <1>1, <1>4, SeqEqual
<1> QED BY <1>1, <1>2, <1>3, <1>5 DEF K!IsPrefix

LEMMA KeyInvRight == KeyInv => K!TypedRight /\ K!NoStuckModifier /\ K!TypeOK
<1> SUFFICES ASSUME KeyInv PROVE K!TypedRight /\ K!NoStuckModifier /\ K!TypeOK
  OBVIOUS
<1>1. PICK n \in Decoder, s \in Decoder : Shows(n) /\ RunOf(keyWire, n, s) /\ Settled(s)
  BY DEF KeyInv
<1>2. KeyTypes
  BY DEF KeyInv
<1>3. Len(keyWire) \in Nat /\ (keyWire = << >> => Len(keyWire) = 0)
  BY <1>2 DEF KeyTypes
<1>4. PrefixOf(n.ty, s.ty) /\ (keyWire = << >> => n = s)
  BY <1>1, <1>3, RunStart
<1>5. n.ty = typed /\ n.ty \in Seq(Chars) /\ s.ty \in Seq(Chars)
  BY <1>1 DEF Shows, Decoder
<1>6. K!TypedRight
  <2> SUFFICES ASSUME ~overlap
               PROVE  IF keyWire = << >> THEN typed = due /\ CapsLockOn = capsWanted ELSE K!IsPrefix(typed,
                        due)
    BY DEF K!TypedRight
  <2>1. s.ty = due /\ ("caps" \in s.on <=> capsWanted)
    BY <1>1 DEF Settled
  <2>2. CASE keyWire = << >>
    <3>1. CapsLockOn <=> capsWanted
      BY <1>1, <1>4, <2>1, <2>2 DEF Shows
    <3>2. CapsLockOn \in BOOLEAN /\ capsWanted \in BOOLEAN
      BY <1>2 DEF KeyTypes
    <3>3. CapsLockOn = capsWanted
      BY <3>1, <3>2
    <3> QED BY <1>4, <1>5, <2>1, <2>2, <3>3
  <2>3. CASE keyWire # << >>
    BY <1>4, <1>5, <2>1, <2>3, PrefixIs
  <2> QED BY <2>2, <2>3
<1>7. K!NoStuckModifier
  BY <1>1, <1>4 DEF K!NoStuckModifier, Shows, Settled
<1>8. K!TypeOK
  <2>1. Len(typed) <= MaxEvents
    <3>1. Len(typed) <= Len(s.ty) /\ Len(s.ty) <= events
      BY <1>1, <1>4, <1>5 DEF PrefixOf, Settled
    <3>2. Len(typed) \in Nat /\ Len(s.ty) \in Nat /\ events \in 0..MaxEvents /\ MaxEvents \in Nat
      BY <1>2, <1>5, BoardNames DEF KeyTypes
    <3> QED BY <3>1, <3>2
  <2>2. \A i \in DOMAIN keyWire : keyWire[i].up \in BOOLEAN
    <3>1. keyWire \in Seq(KeyByte) /\ DOMAIN keyWire = 1..Len(keyWire)
      BY <1>2 DEF KeyTypes
    <3>2. \A i \in DOMAIN keyWire : keyWire[i] \in KeyByte
      BY <3>1, ElementOfSeq
    <3> QED BY <3>2 DEF KeyByte
  <2>3. {capsWanted, overlap, ExtendedPrefix} \subseteq BOOLEAN
    BY <1>2 DEF KeyTypes
  <2>4. {ShiftHeld, CtrlHeld, AltHeld, CapsLockOn, NumLockOn, ScrollLockOn} \subseteq BOOLEAN
    BY <1>2 DEF KeyTypes
  <2> QED BY <1>2, <2>1, <2>2, <2>3, <2>4 DEF K!TypeOK, KeyTypes
<1> QED BY <1>6, <1>7, <1>8

LEMMA KeyAlways == InputSpec => []KeyInv
<1>1. InputInit => KeyInv
  BY KeyInit DEF InputInit
<1>2. KeyInv /\ [InputNext]_all => KeyInv'
  <2> SUFFICES ASSUME KeyInv, [InputNext]_all PROVE KeyInv'
    OBVIOUS
  <2>1. [K!Next]_keyboard
    BY DEF InputNext, RingOnly, KeyboardOnly, MouseOnly, ShellOnly, all
  <2> QED BY <2>1, KeyStep
<1> QED BY <1>1, <1>2, PTL DEF InputSpec

(* The keys queued are those the typist expects, in order, and complete    *)
(* once the wire is drained, for any board of these keys and any number of *)
(* presses, releases and repeats, wherever the acknowledgements come in.   *)
THEOREM TypedCorrect == InputSpec => []TypedRight
<1>1. KeyInv => TypedRight
  BY KeyInvRight DEF TypedRight
<1> QED BY <1>1, KeyAlways, PTL

(* Once the wire is drained no modifier is held that nobody holds down and *)
(* no prefix waits; the decoder's variables keep their types.              *)
THEOREM NoModifierSticks == InputSpec => [](K!NoStuckModifier /\ K!TypeOK)
<1>1. KeyInv => K!NoStuckModifier /\ K!TypeOK
  BY KeyInvRight
<1> QED BY <1>1, KeyAlways, PTL
------------------------------------------------------------------------------
(* The console, its cells counted in reading order. *)
LEMMA BoardOfCells ==
  /\ Cols \in Nat \ {0, 1} /\ Rows \in Nat \ {0, 1}
  /\ "space" \in Glyphs /\ {"nl", "cr", "bs", "tab"} \cap Glyphs = {}
  /\ LINE_MAX \in Nat \ {0, 1} /\ HISTORY_SIZE \in Nat \ {0} /\ MaxKeys \in Nat /\ MaxPrints \in Nat
  /\ \A s \in Prompts : s \in Seq(Glyphs) /\ Len(s) + (LINE_MAX - 1) <= (Rows - 1) * Cols
  /\ Printable \subseteq Glyphs \cup {"nl", "tab"}
BY LineConstants DEF S!ShellConstants, S!ConsoleConstants

LEMMA DivMod ==
  ASSUME NEW a \in Nat, NEW b \in Nat \ {0}
  PROVE  a % b \in 0..(b - 1) /\ a \div b \in Nat
OBVIOUS

LEMMA DivModSum ==
  ASSUME NEW a \in Int, NEW b \in Int, b > 0
  PROVE  a = b * (a \div b) + (a % b)
BY Z3

LEMMA Unique ==
  ASSUME NEW b \in Nat \ {0}, NEW q \in Nat, NEW r \in 0..(b - 1)
  PROVE  (q * b + r) \div b = q /\ (q * b + r) % b = r
OBVIOUS

LEMMA ProductMonotone ==
  ASSUME NEW x \in Nat, NEW y \in Nat, NEW b \in Nat, x <= y
  PROVE  x * b <= y * b /\ x * b \in Nat /\ y * b \in Nat
BY Z3

LEMMA NextProduct ==
  ASSUME NEW x \in Int, NEW b \in Int
  PROVE  (x + 1) * b = x * b + b /\ (x - 1) * b = x * b - b /\ x * b \in Int
BY Z3

Size == Rows * Cols
RowOf(p) == p \div Cols
ColOf(p) == p % Cols
Pos(k) == k.row * Cols + k.col
CellAt(k, p) == k.cells[<<RowOf(p), ColOf(p)>>]

(* A row and a column are a place, and a place is one row and column. *)
LEMMA PlaceOf ==
  ASSUME NEW r \in 0..(Rows - 1), NEW c \in 0..(Cols - 1)
  PROVE  /\ r * Cols + c \in 0..(Size - 1) /\ r * Cols \in Nat
         /\ RowOf(r * Cols + c) = r /\ ColOf(r * Cols + c) = c
         /\ (r + 1) * Cols = r * Cols + Cols /\ (r + 1) * Cols <= Size
<1>1. Cols \in Nat /\ Cols > 1 /\ Rows \in Nat /\ Rows > 1 /\ r \in Nat /\ c \in Nat /\ c < Cols
        /\ r + 1 <= Rows
  BY BoardOfCells
<1>2. RowOf(r * Cols + c) = r /\ ColOf(r * Cols + c) = c
  <2>1. Cols \in Nat \ {0} /\ r \in Nat /\ c \in 0..(Cols - 1)
    BY <1>1
  <2> QED BY <2>1, Unique DEF RowOf, ColOf
<1>3. (r + 1) * Cols = r * Cols + Cols /\ r * Cols \in Nat
  <2>1. (r + 1) * Cols = r * Cols + Cols
    <3>1. r \in Int /\ Cols \in Int
      BY <1>1
    <3> QED BY <3>1, NextProduct
  <2>2. r * Cols \in Nat
    <3>1. r <= r /\ r \in Nat /\ Cols \in Nat
      BY <1>1
    <3> QED BY <3>1, ProductMonotone
  <2> QED BY <2>1, <2>2
<1>4. (r + 1) * Cols <= Rows * Cols /\ Rows * Cols \in Nat
  <2>1. r + 1 \in Nat /\ Rows \in Nat /\ Cols \in Nat /\ r + 1 <= Rows
    BY <1>1
  <2> QED BY <2>1, ProductMonotone
<1>5. r * Cols + c \in 0..(Rows * Cols - 1)
  <2>1. PICK a, s : a = r * Cols /\ s = Rows * Cols
    OBVIOUS
  <2>2. a \in Nat /\ s \in Nat /\ a + Cols <= s /\ c < Cols /\ c \in Nat /\ Cols \in Nat
    BY <1>1, <1>3, <1>4, <2>1
  <2>3. a + c \in 0..(s - 1)
    BY ONLY <2>2
  <2> QED BY <2>1, <2>3
<1> QED BY <1>2, <1>3, <1>4, <1>5 DEF Size

LEMMA OfPlace ==
  ASSUME NEW p \in 0..(Size - 1)
  PROVE  /\ RowOf(p) \in 0..(Rows - 1) /\ ColOf(p) \in 0..(Cols - 1)
         /\ p = RowOf(p) * Cols + ColOf(p) /\ <<RowOf(p), ColOf(p)>> \in S!Grid
<1>1. Cols \in Nat /\ Cols > 1 /\ Rows \in Nat /\ Rows > 1
  BY BoardOfCells
<1>2. Rows * Cols \in Nat
  <2>1. Rows <= Rows
    BY <1>1
  <2> QED BY <1>1, <2>1, ProductMonotone
<1>3. p \in Nat /\ p < Rows * Cols
  BY <1>2 DEF Size
<1>4. p % Cols \in 0..(Cols - 1) /\ p \div Cols \in Nat
  <2>1. Cols \in Nat \ {0}
    BY <1>1
  <2> QED BY ZenonT(40), <1>3, <2>1, DivMod
<1>5. p = Cols * (p \div Cols) + (p % Cols)
  <2>1. p \in Int /\ Cols \in Int /\ Cols > 0
    BY <1>1, <1>3
  <2> QED BY <2>1, DivModSum
<1>6. PICK q \in Nat, r \in 0..(Cols - 1) : q = p \div Cols /\ r = p % Cols
  BY <1>4
<1>7. p = q * Cols + r
  <2>1. p = Cols * q + r
    BY <1>5, <1>6
  <2>2. Cols * q = q * Cols
    BY <1>1, Z3
  <2> QED BY <2>1, <2>2
<1>8. q < Rows
  <2> SUFFICES ASSUME ~(q < Rows) PROVE FALSE
    OBVIOUS
  <2>1. Rows <= q
    BY <1>1
  <2>2. Rows * Cols <= q * Cols /\ q * Cols \in Nat
    BY <1>1, <2>1, ProductMonotone
  <2>3. PICK a, s : a = q * Cols /\ s = Rows * Cols
    OBVIOUS
  <2>4. s <= a /\ a \in Nat /\ s \in Nat /\ p = a + r /\ p < s /\ r \in Nat
    BY <1>1, <1>2, <1>3, <1>7, <2>2, <2>3
  <2> QED BY ONLY <2>4
<1>9. q \in 0..(Rows - 1)
  BY <1>1, <1>8
<1> QED BY <1>6, <1>7, <1>9 DEF RowOf, ColOf, S!Grid

------------------------------------------------------------------------------
(* What the console's operations make of its fields. *)
CellType == [char : Glyphs, attr : S!Attrs]

(* The cursor may have just left the row. *)
WideType ==
  [cells : [S!Grid -> CellType], dirty : SUBSET (0..(Rows - 1)),
   col : 0..Cols, row : 0..(Rows - 1), prev : 0..(Rows - 1), attr : S!Attrs,
   screen : [S!Grid -> [char : Glyphs \cup {"other"}, attr : S!Attrs \cup {"cursor"}]]]

LEMMA ConsoleIsWide ==
  ASSUME NEW k
  PROVE  k \in S!ConsoleType <=> k \in WideType /\ k.col \in 0..(Cols - 1)
<1>1. 0..(Cols - 1) \subseteq 0..Cols
  BY BoardOfCells
<1> QED BY <1>1 DEF S!ConsoleType, WideType, CellType

LEMMA BlankCell == S!Blank \in CellType /\ S!Blank.char = "space" /\ S!Blank.attr = "normal"
BY BoardOfCells DEF S!Blank, CellType, S!Attrs

LEMMA NewLineFields ==
  ASSUME NEW k \in WideType
  PROVE  LET n == S!NewLine(k)
         IN  /\ n \in S!ConsoleType /\ n.col = 0
             /\ n.attr = k.attr /\ n.prev = k.prev /\ n.screen = k.screen
             /\ \/ /\ k.row + 1 < Rows /\ n.row = k.row + 1 /\ n.cells = k.cells /\ n.dirty = k.dirty
                \/ /\ k.row + 1 = Rows /\ n.row = k.row /\ n.dirty = 0..(Rows - 1)
                   /\ \A x \in S!Grid :
                        n.cells[x] = IF x[1] = Rows - 1 THEN S!Blank ELSE k.cells[<<x[1] + 1, x[2]>>]
<1> DEFINE n == S!NewLine(k)
<1>0. Cols \in Nat /\ Cols > 1 /\ Rows \in Nat /\ Rows > 1
  BY BoardOfCells
<1>1. k.row \in 0..(Rows - 1) /\ 0 \in 0..(Cols - 1) /\ 0 \in 0..Cols
  BY <1>0 DEF WideType
<1>2. CASE k.row + 1 < Rows
  <2>1. n = [k EXCEPT !.col = 0, !.row = k.row + 1]
    BY <1>2 DEF S!NewLine
  <2>2. k.row + 1 \in 0..(Rows - 1)
    BY <1>0, <1>1, <1>2
  <2> HIDE DEF n
  <2>3. /\ n \in WideType /\ n.col = 0 /\ n.row = k.row + 1 /\ n.cells = k.cells /\ n.dirty = k.dirty
        /\ n.attr = k.attr /\ n.prev = k.prev /\ n.screen = k.screen
    BY ZenonT(40), <1>1, <2>1, <2>2 DEF WideType
  <2>4. n \in S!ConsoleType
    BY <1>1, <2>3, ConsoleIsWide
  <2> QED BY <1>2, <2>3, <2>4 DEF n
<1>3. CASE ~(k.row + 1 < Rows)
  <2>1. PICK g : g = [x \in S!Grid |-> IF x[1] = Rows - 1 THEN S!Blank ELSE k.cells[<<x[1] + 1, x[2]>>]]
    BY ZenonT(40)
  <2>2. PICK m \in WideType : m = [k EXCEPT !.col = 0]
    BY ZenonT(40), <1>1 DEF WideType
  <2>3. /\ m.cells = k.cells /\ m.row = k.row /\ m.attr = k.attr /\ m.prev = k.prev /\ m.screen = k.screen
        /\ m.col = 0
    BY <2>2 DEF WideType
  <2>4. n = S!ScrollUp(m)
    BY <1>3, <2>2 DEF S!NewLine
  <2>5. S!ScrollUp(m) = [m EXCEPT !.cells = g, !.dirty = 0..(Rows - 1)]
    BY ZenonT(40), <2>1, <2>3 DEF S!ScrollUp
  <2>6. g \in [S!Grid -> CellType]
    <3>1. \A x \in S!Grid : x[1] \in 0..(Rows - 1) /\ x[2] \in 0..(Cols - 1)
      BY DEF S!Grid
    <3>2. \A x \in S!Grid : x[1] # Rows - 1 => x[1] + 1 \in 0..(Rows - 1)
      BY <1>0, <3>1
    <3>3. \A x \in S!Grid : x[1] # Rows - 1 => <<x[1] + 1, x[2]>> \in S!Grid
      BY <3>1, <3>2 DEF S!Grid
    <3>4. k.cells \in [S!Grid -> CellType]
      BY DEF WideType
    <3> QED BY <2>1, <3>3, <3>4, BlankCell
  <2> HIDE DEF n
  <2>7. /\ n \in WideType /\ n.col = 0 /\ n.row = k.row /\ n.cells = g /\ n.dirty = 0..(Rows - 1)
        /\ n.attr = k.attr /\ n.prev = k.prev /\ n.screen = k.screen
    BY ZenonT(40), <2>3, <2>4, <2>5, <2>6 DEF WideType
  <2>8. n \in S!ConsoleType /\ k.row + 1 = Rows
    BY <1>0, <1>1, <1>3, <2>7, ConsoleIsWide
  <2> QED BY <2>1, <2>7, <2>8 DEF n
<1> QED BY <1>2, <1>3

LEMMA PutFields ==
  ASSUME NEW k \in S!ConsoleType, NEW c \in Glyphs
  PROVE  LET n == S!PutGlyph(k, c)
             put == [k.cells EXCEPT ![<<k.row, k.col>>] = [char |-> c, attr |-> k.attr]]
         IN  /\ n \in S!ConsoleType /\ n.attr = k.attr /\ n.prev = k.prev /\ n.screen = k.screen
             /\ \/ /\ k.col + 1 < Cols /\ n.row = k.row /\ n.col = k.col + 1
                   /\ n.cells = put /\ n.dirty = k.dirty \cup {k.row}
                \/ /\ k.col + 1 = Cols /\ n.col = 0
                   /\ k.row + 1 < Rows /\ n.row = k.row + 1 /\ n.cells = put
                       /\ n.dirty = k.dirty \cup {k.row}
                \/ /\ k.col + 1 = Cols /\ n.col = 0
                   /\ k.row + 1 = Rows /\ n.row = k.row /\ n.dirty = 0..(Rows - 1)
                   /\ \A x \in S!Grid :
                        n.cells[x] = IF x[1] = Rows - 1 THEN S!Blank ELSE put[<<x[1] + 1, x[2]>>]
<1> DEFINE n == S!PutGlyph(k, c)
<1>0. Cols \in Nat /\ Cols > 1 /\ Rows \in Nat /\ Rows > 1
  BY BoardOfCells
<1>1. k \in WideType /\ k.col \in 0..(Cols - 1) /\ k.row \in 0..(Rows - 1)
  BY ConsoleIsWide DEF WideType
<1>2. PICK put : put = [k.cells EXCEPT ![<<k.row, k.col>>] = [char |-> c, attr |-> k.attr]]
  BY ZenonT(40)
<1>3. put \in [S!Grid -> CellType]
  <2>1. [char |-> c, attr |-> k.attr] \in CellType /\ k.cells \in [S!Grid -> CellType]
    BY <1>1 DEF WideType, CellType
  <2> QED BY ZenonT(40), <1>2, <2>1
<1>4. PICK m : m = [k EXCEPT !.cells[<<k.row, k.col>>] = [char |-> c, attr |-> k.attr],
                            !.dirty = k.dirty \cup {k.row}, !.col = k.col + 1]
  OBVIOUS
<1>5. /\ m \in WideType /\ m.cells = put /\ m.dirty = k.dirty \cup {k.row} /\ m.col = k.col + 1
      /\ m.row = k.row /\ m.attr = k.attr /\ m.prev = k.prev /\ m.screen = k.screen
  <2>1. k.col + 1 \in 0..Cols
    BY <1>0, <1>1
  <2>2. m = [k EXCEPT !.cells = put, !.dirty = k.dirty \cup {k.row}, !.col = k.col + 1]
    BY <1>1, <1>2, <1>4 DEF WideType
  <2> QED BY ZenonT(40), <1>1, <1>3, <2>1, <2>2 DEF WideType
<1>6. n = IF m.col >= Cols THEN S!NewLine(m) ELSE m
  BY <1>4 DEF S!PutGlyph
<1> HIDE DEF n
<1>7. CASE k.col + 1 < Cols
  <2>1. n = m /\ m.col \in 0..(Cols - 1)
    BY <1>0, <1>1, <1>5, <1>6, <1>7
  <2>2. n \in S!ConsoleType
    BY <1>5, <2>1, ConsoleIsWide
  <2> QED BY <1>2, <1>5, <1>7, <2>1, <2>2 DEF n
<1>8. CASE k.col + 1 = Cols
  <2>1. n = S!NewLine(m)
    BY <1>0, <1>5, <1>6, <1>8
  <2>2. /\ n \in S!ConsoleType /\ n.col = 0
        /\ n.attr = m.attr /\ n.prev = m.prev /\ n.screen = m.screen
        /\ \/ /\ m.row + 1 < Rows /\ n.row = m.row + 1 /\ n.cells = m.cells /\ n.dirty = m.dirty
           \/ /\ m.row + 1 = Rows /\ n.row = m.row /\ n.dirty = 0..(Rows - 1)
              /\ \A x \in S!Grid :
                   n.cells[x] = IF x[1] = Rows - 1 THEN S!Blank ELSE m.cells[<<x[1] + 1, x[2]>>]
    BY <1>5, <2>1, NewLineFields
  <2> QED BY <1>2, <1>5, <1>8, <2>2 DEF n
<1>9. k.col + 1 < Cols \/ k.col + 1 = Cols
  BY <1>0, <1>1
<1> QED BY <1>7, <1>8, <1>9

LEMMA BackFields ==
  ASSUME NEW k \in S!ConsoleType
  PROVE  LET n == S!Backspace(k)
         IN  /\ n \in S!ConsoleType /\ n.attr = k.attr /\ n.prev = k.prev /\ n.screen = k.screen
             /\ \/ k.col = 0 /\ k.row = 0 /\ n = k
                \/ /\ k.col > 0 /\ n.row = k.row /\ n.col = k.col - 1
                   /\ n.dirty = k.dirty \cup {k.row}
                   /\ n.cells = [k.cells EXCEPT ![<<n.row, n.col>>] = S!Blank]
                \/ /\ k.col = 0 /\ k.row > 0 /\ n.row = k.row - 1 /\ n.col = Cols - 1
                   /\ n.dirty = k.dirty \cup {k.row, k.row - 1}
                   /\ n.cells = [k.cells EXCEPT ![<<n.row, n.col>>] = S!Blank]
<1> DEFINE n == S!Backspace(k)
<1>0. Cols \in Nat /\ Cols > 1 /\ Rows \in Nat /\ Rows > 1
  BY BoardOfCells
<1>1. k.col \in 0..(Cols - 1) /\ k.row \in 0..(Rows - 1)
  BY DEF S!ConsoleType
<1>2. ASSUME NEW m \in S!ConsoleType
      PROVE  LET e == S!Erase(m)
             IN  /\ e \in S!ConsoleType /\ e.attr = m.attr /\ e.prev = m.prev /\ e.screen = m.screen
                 /\ e.row = m.row /\ e.col = m.col /\ e.dirty = m.dirty \cup {m.row}
                 /\ e.cells = [m.cells EXCEPT ![<<m.row, m.col>>] = S!Blank]
  <2>1. PICK g : g = [m.cells EXCEPT ![<<m.row, m.col>>] = S!Blank]
    BY ZenonT(40)
  <2>2. g \in [S!Grid -> CellType]
    BY ZenonT(40), <2>1, BlankCell DEF S!ConsoleType, CellType
  <2>3. PICK e : e = S!Erase(m)
    OBVIOUS
  <2>4. e = [m EXCEPT !.cells = g, !.dirty = m.dirty \cup {m.row}]
    BY <2>1, <2>3 DEF S!Erase, S!ConsoleType
  <2>5. /\ e \in S!ConsoleType /\ e.attr = m.attr /\ e.prev = m.prev /\ e.screen = m.screen
        /\ e.row = m.row /\ e.col = m.col /\ e.dirty = m.dirty \cup {m.row} /\ e.cells = g
    BY ZenonT(40), <2>2, <2>4 DEF S!ConsoleType, CellType
  <2> QED BY <2>1, <2>3, <2>5
<1>3. CASE k.col > 0
  <2>1. PICK m : m = [k EXCEPT !.col = k.col - 1]
    BY ZenonT(40)
  <2>2. k.col - 1 \in 0..(Cols - 1)
    BY <1>0, <1>1, <1>3
  <2>3. /\ m \in S!ConsoleType /\ m.attr = k.attr /\ m.prev = k.prev /\ m.screen = k.screen
        /\ m.row = k.row /\ m.col = k.col - 1 /\ m.dirty = k.dirty /\ m.cells = k.cells
    BY <2>1, <2>2 DEF S!ConsoleType
  <2>4. n = S!Erase(m)
    BY <1>3, <2>1 DEF S!Backspace
  <2> HIDE DEF n
  <2>5. /\ n \in S!ConsoleType /\ n.attr = m.attr /\ n.prev = m.prev /\ n.screen = m.screen
        /\ n.row = m.row /\ n.col = m.col /\ n.dirty = m.dirty \cup {m.row}
        /\ n.cells = [m.cells EXCEPT ![<<m.row, m.col>>] = S!Blank]
    BY <1>2, <2>3, <2>4
  <2> QED BY <1>3, <2>3, <2>5 DEF n
<1>4. CASE ~(k.col > 0) /\ k.row > 0
  <2>1. PICK m : m = [k EXCEPT !.dirty = k.dirty \cup {k.row}, !.row = k.row - 1, !.col = Cols - 1]
    OBVIOUS
  <2>2. k.row - 1 \in 0..(Rows - 1) /\ Cols - 1 \in 0..(Cols - 1) /\ k.col = 0
    BY <1>0, <1>1, <1>4
  <2>3. /\ m \in S!ConsoleType /\ m.attr = k.attr /\ m.prev = k.prev /\ m.screen = k.screen
        /\ m.row = k.row - 1 /\ m.col = Cols - 1 /\ m.dirty = k.dirty \cup {k.row} /\ m.cells = k.cells
    BY ZenonT(40), <1>1, <2>1, <2>2 DEF S!ConsoleType
  <2>4. n = S!Erase(m)
    BY <1>4, <2>1 DEF S!Backspace
  <2> HIDE DEF n
  <2>5. /\ n \in S!ConsoleType /\ n.attr = m.attr /\ n.prev = m.prev /\ n.screen = m.screen
        /\ n.row = m.row /\ n.col = m.col /\ n.dirty = m.dirty \cup {m.row}
        /\ n.cells = [m.cells EXCEPT ![<<m.row, m.col>>] = S!Blank]
    BY <1>2, <2>3, <2>4
  <2>6. n.dirty = k.dirty \cup {k.row, k.row - 1}
    BY <2>3, <2>5
  <2> QED BY <1>4, <2>2, <2>3, <2>5, <2>6 DEF n
<1>5. CASE ~(k.col > 0) /\ ~(k.row > 0)
  <2>1. n = k /\ k.col = 0 /\ k.row = 0
    BY <1>1, <1>5 DEF S!Backspace
  <2> QED BY <2>1
<1> QED BY <1>3, <1>4, <1>5

(* A flush draws every row that does not show its cells. *)
Follows(k) == \A x \in S!Grid : x[1] \notin k.dirty \cup {k.prev} => k.screen[x] = k.cells[x]

LEMMA DrawFields ==
  ASSUME NEW k \in S!ConsoleType, NEW rows
  PROVE  LET n == S!DrawRows(k, rows)
         IN  /\ n \in S!ConsoleType /\ n.cells = k.cells /\ n.row = k.row /\ n.col = k.col
                 /\ n.attr = k.attr
             /\ n.dirty = {} /\ n.prev = k.row
             /\ \A x \in S!Grid : n.screen[x] = IF x[1] \in rows THEN S!DrawCell(k, x) ELSE k.screen[x]
<1>1. PICK g : g = [x \in S!Grid |-> IF x[1] \in rows THEN S!DrawCell(k, x) ELSE k.screen[x]]
  BY ZenonT(40)
<1>2. ASSUME NEW x \in S!Grid
      PROVE  S!DrawCell(k, x) \in [char : Glyphs \cup {"other"}, attr : S!Attrs \cup {"cursor"}]
  <2>1. k.cells[x] \in [char : Glyphs, attr : S!Attrs]
    BY DEF S!ConsoleType
  <2>2. PICK c \in [char : Glyphs, attr : S!Attrs] : c = k.cells[x]
    BY <2>1
  <2>3. S!DrawCell(k, x) = [c EXCEPT !.attr = "cursor"] \/ S!DrawCell(k, x) = c
    BY <2>2 DEF S!DrawCell
  <2>4. [c EXCEPT !.attr = "cursor"] \in [char : Glyphs \cup {"other"}, attr : S!Attrs \cup {"cursor"}]
    OBVIOUS
  <2>5. c \in [char : Glyphs \cup {"other"}, attr : S!Attrs \cup {"cursor"}]
    OBVIOUS
  <2> QED BY <2>3, <2>4, <2>5
<1>3. g \in [S!Grid -> [char : Glyphs \cup {"other"}, attr : S!Attrs \cup {"cursor"}]]
  <2>1. k.screen \in [S!Grid -> [char : Glyphs \cup {"other"}, attr : S!Attrs \cup {"cursor"}]]
    BY DEF S!ConsoleType
  <2> QED BY <1>1, <1>2, <2>1
<1>4. PICK n : n = S!DrawRows(k, rows)
  OBVIOUS
<1>5. n = [k EXCEPT !.screen = g, !.dirty = {}, !.prev = k.row]
  BY <1>1, <1>4 DEF S!DrawRows
<1>6. /\ n \in S!ConsoleType /\ n.cells = k.cells /\ n.row = k.row /\ n.col = k.col /\ n.attr = k.attr
      /\ n.dirty = {} /\ n.prev = k.row /\ n.screen = g
  BY ZenonT(40), <1>3, <1>5 DEF S!ConsoleType
<1> QED BY <1>1, <1>4, <1>6

LEMMA FlushFields ==
  ASSUME NEW k \in S!ConsoleType, Follows(k)
  PROVE  LET n == S!ConsoleFlush(k)
         IN  /\ n \in S!ConsoleType /\ n.cells = k.cells /\ n.row = k.row /\ n.col = k.col
                 /\ n.attr = k.attr
             /\ Follows(n) /\ S!Current(n)
<1>1. PICK n : n = S!ConsoleFlush(k)
  OBVIOUS
<1>2. /\ n \in S!ConsoleType /\ n.cells = k.cells /\ n.row = k.row /\ n.col = k.col /\ n.attr = k.attr
      /\ n.dirty = {} /\ n.prev = k.row
      /\ \A x \in S!Grid :
           n.screen[x] = IF x[1] \in k.dirty \cup {k.row, k.prev} THEN S!DrawCell(k, x) ELSE k.screen[x]
  BY <1>1, DrawFields DEF S!ConsoleFlush
<1>3. \A x \in S!Grid : S!DrawCell(n, x) = S!DrawCell(k, x)
  BY <1>2 DEF S!DrawCell
<1>4. \A x \in S!Grid : x[1] # k.row => S!DrawCell(k, x) = k.cells[x]
  BY DEF S!DrawCell
<1>5. \A x \in S!Grid : n.screen[x] = S!DrawCell(k, x)
  BY <1>2, <1>4 DEF Follows
<1>6. S!Current(n)
  BY <1>3, <1>5 DEF S!Current
<1>7. Follows(n)
  BY <1>2, <1>4, <1>5 DEF Follows
<1> QED BY <1>1, <1>2, <1>6, <1>7

------------------------------------------------------------------------------
(* The same in reading order. *)
LEMMA SizeFacts ==
  /\ Cols \in Nat /\ Cols > 1 /\ Rows \in Nat /\ Rows > 1
  /\ Size \in Nat /\ (Rows - 1) * Cols = Size - Cols /\ Size - Cols \in Nat
<1>1. Cols \in Nat /\ Cols > 1 /\ Rows \in Nat /\ Rows > 1
  BY BoardOfCells
<1>2. (Rows - 1) * Cols = Size - Cols
  <2>1. Rows \in Int /\ Cols \in Int
    BY <1>1
  <2> QED BY <2>1, NextProduct DEF Size
<1>3. (Rows - 1) * Cols \in Nat /\ Rows * Cols \in Nat
  <2>1. Rows - 1 \in Nat /\ Rows - 1 <= Rows
    BY <1>1
  <2> QED BY <1>1, <2>1, ProductMonotone
<1> QED BY <1>1, <1>2, <1>3 DEF Size

LEMMA PosType ==
  ASSUME NEW k \in S!ConsoleType
  PROVE  /\ Pos(k) \in 0..(Size - 1) /\ RowOf(Pos(k)) = k.row /\ ColOf(Pos(k)) = k.col
         /\ k.row \in 0..(Rows - 1) /\ k.col \in 0..(Cols - 1)
<1>1. k.row \in 0..(Rows - 1) /\ k.col \in 0..(Cols - 1)
  BY DEF S!ConsoleType
<1>2. PICK r \in 0..(Rows - 1), c \in 0..(Cols - 1) : r = k.row /\ c = k.col
  BY <1>1
<1> QED BY <1>1, <1>2, PlaceOf DEF Pos

LEMMA UnderCursor ==
  ASSUME NEW k \in S!ConsoleType, NEW p \in 0..(Size - 1)
  PROVE  (<<RowOf(p), ColOf(p)>> = <<k.row, k.col>>) <=> p = Pos(k)
<1>1. p = RowOf(p) * Cols + ColOf(p)
  BY ZenonT(40), OfPlace
<1>2. <<RowOf(p), ColOf(p)>> = <<k.row, k.col>> => p = Pos(k)
  BY <1>1 DEF Pos
<1>3. p = Pos(k) => <<RowOf(p), ColOf(p)>> = <<k.row, k.col>>
  BY PosType
<1> QED BY <1>2, <1>3

LEMMA RowBelow ==
  ASSUME NEW p \in 0..(Size - 1)
  PROVE  /\ p < Size - Cols => /\ RowOf(p) # Rows - 1 /\ p + Cols \in 0..(Size - 1)
                               /\ RowOf(p + Cols) = RowOf(p) + 1 /\ ColOf(p + Cols) = ColOf(p)
         /\ ~(p < Size - Cols) => RowOf(p) = Rows - 1
<1>1. PICK r \in 0..(Rows - 1), c \in 0..(Cols - 1) : r = RowOf(p) /\ c = ColOf(p) /\ p = r * Cols + c
  BY ZenonT(40), OfPlace
<1>2. Cols \in Nat /\ Cols > 1 /\ Rows \in Nat /\ Rows > 1 /\ Size \in Nat
        /\ (Rows - 1) * Cols = Size - Cols
  BY SizeFacts
<1>3. r \in Nat /\ c \in Nat /\ c < Cols /\ r <= Rows - 1
  BY <1>2
<1>4. PICK a \in Int : a = r * Cols /\ (r + 1) * Cols = a + Cols
  BY <1>2, <1>3, NextProduct
<1>5. CASE r = Rows - 1
  <2>1. a = Size - Cols
    BY <1>2, <1>4, <1>5
  <2>2. ~(p < Size - Cols)
    BY <1>1, <1>2, <1>3, <1>4, <2>1
  <2> QED BY <1>1, <1>5, <2>2
<1>6. CASE r # Rows - 1
  <2>1. r + 1 \in 0..(Rows - 1) /\ r + 1 \in Nat /\ Rows - 1 \in Nat /\ r + 1 <= Rows - 1
    BY <1>2, <1>3, <1>6
  <2>2. (r + 1) * Cols <= (Rows - 1) * Cols
    BY <1>2, <2>1, ProductMonotone
  <2>3. a + Cols <= Size - Cols
    BY <1>2, <1>4, <2>2
  <2>4. p < Size - Cols
    BY <1>1, <1>2, <1>3, <1>4, <2>3
  <2>5. PICK s \in 0..(Rows - 1) : s = r + 1
    BY <2>1
  <2>6. /\ s * Cols + c \in 0..(Size - 1)
        /\ RowOf(s * Cols + c) = s /\ ColOf(s * Cols + c) = c
    BY PlaceOf
  <2>7. s * Cols + c = p + Cols
    <3>1. s * Cols = a + Cols
      BY <1>4, <2>5
    <3> QED BY <1>1, <1>2, <1>3, <1>4, <3>1
  <2> QED BY ZenonT(40), <1>1, <1>6, <2>4, <2>5, <2>6, <2>7
<1> QED BY <1>5, <1>6

LEMMA Scrolled ==
  ASSUME NEW n, NEW g,
         \A x \in S!Grid : n.cells[x] = IF x[1] = Rows - 1 THEN S!Blank ELSE g[<<x[1] + 1, x[2]>>],
         NEW p \in 0..(Size - 1)
  PROVE  CellAt(n, p) = IF p < Size - Cols THEN g[<<RowOf(p + Cols), ColOf(p + Cols)>>] ELSE S!Blank
<1>1. PICK x \in S!Grid : x = <<RowOf(p), ColOf(p)>>
  BY ZenonT(40), OfPlace
<1>2. CellAt(n, p) = IF x[1] = Rows - 1 THEN S!Blank ELSE g[<<x[1] + 1, x[2]>>]
  BY <1>1 DEF CellAt
<1>3. x[1] = RowOf(p) /\ x[2] = ColOf(p)
  BY <1>1
<1> QED BY <1>2, <1>3, RowBelow

Shift(k, n, c, d) ==
  /\ Pos(n) = (Pos(k) + 1) - d /\ (d = 0 \/ (d = Cols /\ Pos(k) = Size - 1))
  /\ Pos(n) \in 0..(Size - 1)
  /\ \A p \in 0..(Size - 1) :
       CellAt(n, p) = IF p + d > Size - 1 THEN S!Blank
                      ELSE IF p + d = Pos(k) THEN [char |-> c, attr |-> k.attr] ELSE CellAt(k, p + d)

LEMMA PutInOrder ==
  ASSUME NEW k \in S!ConsoleType, NEW c \in Glyphs
  PROVE  /\ S!PutGlyph(k, c) \in S!ConsoleType
         /\ Follows(k) => Follows(S!PutGlyph(k, c))
         /\ \E d \in {0, Cols} : Shift(k, S!PutGlyph(k, c), c, d)
<1>1. PICK n : n = S!PutGlyph(k, c)
  OBVIOUS
<1>2. PICK cell : cell = [char |-> c, attr |-> k.attr]
  BY ZenonT(40)
<1>3. PICK put : put = [k.cells EXCEPT ![<<k.row, k.col>>] = cell]
  BY ZenonT(40)
<1>4. /\ n \in S!ConsoleType /\ n.attr = k.attr /\ n.prev = k.prev /\ n.screen = k.screen
      /\ \/ /\ k.col + 1 < Cols /\ n.row = k.row /\ n.col = k.col + 1
            /\ n.cells = put /\ n.dirty = k.dirty \cup {k.row}
         \/ /\ k.col + 1 = Cols /\ n.col = 0
            /\ k.row + 1 < Rows /\ n.row = k.row + 1 /\ n.cells = put /\ n.dirty = k.dirty \cup {k.row}
         \/ /\ k.col + 1 = Cols /\ n.col = 0
            /\ k.row + 1 = Rows /\ n.row = k.row /\ n.dirty = 0..(Rows - 1)
            /\ \A x \in S!Grid :
                 n.cells[x] = IF x[1] = Rows - 1 THEN S!Blank ELSE put[<<x[1] + 1, x[2]>>]
  BY <1>1, <1>2, <1>3, PutFields
<1>5. Cols \in Nat /\ Cols > 1 /\ Rows \in Nat /\ Rows > 1 /\ Size \in Nat
        /\ (Rows - 1) * Cols = Size - Cols
  BY SizeFacts
<1>6. /\ Pos(k) \in 0..(Size - 1) /\ k.row \in 0..(Rows - 1) /\ k.col \in 0..(Cols - 1)
      /\ Pos(n) \in 0..(Size - 1)
  BY <1>4, PosType
<1>7. ASSUME NEW p \in 0..(Size - 1)
      PROVE  put[<<RowOf(p), ColOf(p)>>] = IF p = Pos(k) THEN cell ELSE CellAt(k, p)
  <2>1. DOMAIN k.cells = S!Grid
    BY DEF S!ConsoleType
  <2>2. PICK x \in S!Grid : x = <<RowOf(p), ColOf(p)>>
    BY ZenonT(40), OfPlace
  <2>3. put[x] = IF x = <<k.row, k.col>> THEN cell ELSE k.cells[x]
    BY <1>3, <2>1
  <2>4. x = <<k.row, k.col>> <=> p = Pos(k)
    BY <2>2, UnderCursor
  <2> QED BY <2>2, <2>3, <2>4 DEF CellAt
<1>8. k.row * Cols \in Int /\ (k.row + 1) * Cols = k.row * Cols + Cols
  <2>1. k.row \in Int /\ Cols \in Int
    BY <1>5, <1>6
  <2> QED BY <2>1, NextProduct
<1>9. ASSUME n.cells = put, Pos(n) = Pos(k) + 1
      PROVE  Shift(k, n, c, 0)
  <2>1. \A p \in 0..(Size - 1) : ~(p + 0 > Size - 1) /\ p + 0 = p
    BY <1>5
  <2>2. \A p \in 0..(Size - 1) : CellAt(n, p) = IF p = Pos(k) THEN cell ELSE CellAt(k, p)
    BY <1>7, <1>9 DEF CellAt
  <2>3. Pos(n) = (Pos(k) + 1) - 0
    BY <1>5, <1>6, <1>9
  <2> QED BY <1>2, <1>6, <2>1, <2>2, <2>3 DEF Shift
<1>10. ASSUME k.col + 1 = Cols, n.col = 0, k.row + 1 = Rows, n.row = k.row,
              \A x \in S!Grid :
                n.cells[x] = IF x[1] = Rows - 1 THEN S!Blank ELSE put[<<x[1] + 1, x[2]>>]
       PROVE  Shift(k, n, c, Cols)
  <2>1. k.row = Rows - 1 /\ k.col = Cols - 1
    BY <1>5, <1>6, <1>10
  <2>2. Pos(k) = Size - 1 /\ Pos(n) = Size - Cols
    <3>1. Pos(k) = (Rows - 1) * Cols + (Cols - 1) /\ Pos(n) = (Rows - 1) * Cols + 0
      BY <1>10, <2>1 DEF Pos
    <3> QED BY <1>5, <3>1
  <2>3. ASSUME NEW p \in 0..(Size - 1)
        PROVE  CellAt(n, p) = IF p + Cols > Size - 1 THEN S!Blank
                              ELSE IF p + Cols = Pos(k) THEN cell ELSE CellAt(k, p + Cols)
    <3>1. CellAt(n, p) = IF p < Size - Cols THEN put[<<RowOf(p + Cols), ColOf(p + Cols)>>] ELSE S!Blank
      BY <1>10, Scrolled
    <3>2. p < Size - Cols <=> ~(p + Cols > Size - 1)
      BY <1>5
    <3>3. CASE ~(p < Size - Cols)
      BY <3>1, <3>2, <3>3
    <3>4. CASE p < Size - Cols
      <4>1. PICK q \in 0..(Size - 1) : q = p + Cols
        BY <3>4, RowBelow
      <4>2. put[<<RowOf(q), ColOf(q)>>] = IF q = Pos(k) THEN cell ELSE CellAt(k, q)
        BY <1>7
      <4> QED BY <3>1, <3>2, <3>4, <4>1, <4>2
    <3> QED BY <3>3, <3>4
  <2>4. Pos(n) = (Pos(k) + 1) - Cols
    BY <1>5, <2>2
  <2> QED BY <1>2, <1>6, <2>2, <2>3, <2>4 DEF Shift
<1>11. \E d \in {0, Cols} : Shift(k, n, c, d)
  <2>1. CASE k.col + 1 < Cols /\ n.row = k.row /\ n.col = k.col + 1 /\ n.cells = put
    <3>1. Pos(n) = Pos(k) + 1
      BY <1>5, <1>6, <1>8, <2>1 DEF Pos
    <3> QED BY <1>9, <2>1, <3>1
  <2>2. CASE k.col + 1 = Cols /\ n.col = 0 /\ n.row = k.row + 1 /\ n.cells = put
    <3>1. Pos(n) = Pos(k) + 1
      <4>1. Pos(n) = (k.row + 1) * Cols + 0 /\ Pos(k) = k.row * Cols + k.col
        BY <2>2 DEF Pos
      <4> QED BY <1>5, <1>6, <1>8, <2>2, <4>1
    <3> QED BY <1>9, <2>2, <3>1
  <2> QED BY <1>4, <1>10, <2>1, <2>2
<1>12. ASSUME Follows(k) PROVE Follows(n)
  <2>1. \A x \in S!Grid : x[1] # k.row => put[x] = k.cells[x]
    <3>1. DOMAIN k.cells = S!Grid
      BY DEF S!ConsoleType
    <3>2. \A x \in S!Grid : x[1] # k.row => x # <<k.row, k.col>>
      OBVIOUS
    <3> QED BY <1>3, <3>1, <3>2
  <2>2. \A x \in S!Grid : x[1] \in 0..(Rows - 1)
    BY DEF S!Grid
  <2>3. CASE n.dirty = 0..(Rows - 1)
    BY <2>2, <2>3 DEF Follows
  <2>4. CASE n.dirty = k.dirty \cup {k.row} /\ n.cells = put
    BY <1>4, <1>12, <2>1, <2>4 DEF Follows
  <2> QED BY <1>4, <2>3, <2>4
<1> QED BY <1>1, <1>4, <1>11, <1>12

------------------------------------------------------------------------------
(* What stands before the cursor, and nothing after it. *)
Free(k) == \A p \in 0..(Size - 1) : p >= Pos(k) => CellAt(k, p) = S!Blank

ShownTo(k, u, m) == m <= Pos(k) /\ \A i \in 1..m : CellAt(k, Pos(k) - i).char = u[(m - i) + 1]

(* What the shell's own calls of the console keep. *)
Tidy(k) == k \in S!ConsoleType /\ Follows(k) /\ Free(k)

LEMMA PutShows ==
  ASSUME NEW k, Tidy(k), NEW c \in Glyphs
  PROVE  /\ Tidy(S!PutGlyph(k, c))
         /\ \A m \in Nat : \A u :
              ShownTo(k, u, m) /\ u[m + 1] = c /\ m + 1 <= Size - Cols => ShownTo(S!PutGlyph(k, c), u,
                m + 1)
<1>1. k \in S!ConsoleType /\ Follows(k) /\ Free(k)
  BY DEF Tidy
<1>2. PICK n : n = S!PutGlyph(k, c)
  OBVIOUS
<1>3. n \in S!ConsoleType /\ Follows(n) /\ \E d \in {0, Cols} : Shift(k, n, c, d)
  BY <1>1, <1>2, PutInOrder
<1>4. PICK d \in {0, Cols} : Shift(k, n, c, d)
  BY <1>3
<1>5. Cols \in Nat /\ Cols > 1 /\ Size \in Nat /\ Size - Cols \in Nat /\ d \in Nat
  BY SizeFacts
<1>6. PICK a \in 0..(Size - 1), b \in 0..(Size - 1) : a = Pos(k) /\ b = Pos(n)
  BY <1>1, <1>3, PosType
<1>7. b = (a + 1) - d /\ (d = 0 \/ (d = Cols /\ a = Size - 1))
  BY <1>4, <1>6 DEF Shift
<1>8. \A p \in 0..(Size - 1) :
        CellAt(n, p) = IF p + d > Size - 1 THEN S!Blank
                       ELSE IF p + d = a THEN [char |-> c, attr |-> k.attr] ELSE CellAt(k, p + d)
  BY <1>4, <1>6 DEF Shift
<1>9. Free(n)
  <2> SUFFICES ASSUME NEW p \in 0..(Size - 1), p >= b PROVE CellAt(n, p) = S!Blank
    BY <1>6 DEF Free
  <2>1. p + d # a
    BY <1>5, <1>7
  <2>2. CASE p + d > Size - 1
    BY <1>8, <2>2
  <2>3. CASE ~(p + d > Size - 1)
    <3>1. p + d \in 0..(Size - 1) /\ p + d >= a
      BY <1>5, <1>7, <2>3
    <3>2. PICK q \in 0..(Size - 1) : q = p + d /\ q >= a
      BY <3>1
    <3>3. CellAt(k, q) = S!Blank
      BY <1>1, <1>6, <3>2 DEF Free
    <3> QED BY <1>8, <2>1, <2>3, <3>2, <3>3
  <2> QED BY <2>2, <2>3
<1>10. ASSUME NEW m \in Nat, NEW u, ShownTo(k, u, m), u[m + 1] = c, m + 1 <= Size - Cols
       PROVE  ShownTo(n, u, m + 1)
  <2>1. m <= a /\ \A i \in 1..m : CellAt(k, a - i).char = u[(m - i) + 1]
    BY <1>6, <1>10 DEF ShownTo
  <2>2. m + 1 <= b
    BY <1>5, <1>7, <1>10, <2>1
  <2>3. ASSUME NEW i \in 1..(m + 1)
        PROVE  CellAt(n, b - i).char = u[((m + 1) - i) + 1]
    <3>1. b - i \in 0..(Size - 1) /\ (b - i) + d = a - (i - 1) /\ ~((b - i) + d > Size - 1)
      BY <1>5, <1>7, <2>2
    <3>2. CASE i = 1
      <4>1. (b - i) + d = a /\ ((m + 1) - i) + 1 = m + 1
        BY <1>5, <3>1, <3>2
      <4>2. CellAt(n, b - i) = [char |-> c, attr |-> k.attr]
        BY <1>8, <3>1, <4>1
      <4> QED BY <1>10, <4>1, <4>2
    <3>3. CASE i # 1
      <4>1. PICK j \in 1..m : j = i - 1
        BY <3>3
      <4>2. (b - i) + d = a - j /\ (b - i) + d # a /\ ((m + 1) - i) + 1 = (m - j) + 1
        BY <1>5, <3>1, <4>1
      <4>3. CellAt(n, b - i) = CellAt(k, a - j)
        BY <1>8, <3>1, <4>2
      <4> QED BY <2>1, <4>2, <4>3
    <3> QED BY <3>2, <3>3
  <2> QED BY <1>6, <2>2, <2>3 DEF ShownTo
<1> QED BY <1>2, <1>3, <1>9, <1>10 DEF Tidy

LEMMA BackShows ==
  ASSUME NEW k, Tidy(k)
  PROVE  /\ Tidy(S!Backspace(k))
         /\ \A m \in Nat : \A u : ShownTo(k, u, m) /\ m > 0 => ShownTo(S!Backspace(k), u, m - 1)
<1>1. k \in S!ConsoleType /\ Follows(k) /\ Free(k)
  BY DEF Tidy
<1>2. PICK n : n = S!Backspace(k)
  OBVIOUS
<1>3. /\ n \in S!ConsoleType /\ n.attr = k.attr /\ n.prev = k.prev /\ n.screen = k.screen
      /\ \/ k.col = 0 /\ k.row = 0 /\ n = k
         \/ /\ k.col > 0 /\ n.row = k.row /\ n.col = k.col - 1
            /\ n.dirty = k.dirty \cup {k.row}
            /\ n.cells = [k.cells EXCEPT ![<<n.row, n.col>>] = S!Blank]
         \/ /\ k.col = 0 /\ k.row > 0 /\ n.row = k.row - 1 /\ n.col = Cols - 1
            /\ n.dirty = k.dirty \cup {k.row, k.row - 1}
            /\ n.cells = [k.cells EXCEPT ![<<n.row, n.col>>] = S!Blank]
  BY <1>1, <1>2, BackFields
<1>4. Cols \in Nat /\ Cols > 1 /\ Rows \in Nat /\ Size \in Nat
  BY SizeFacts
<1>5. k.row \in 0..(Rows - 1) /\ k.col \in 0..(Cols - 1)
  BY <1>1, PosType
<1>6. PICK a \in 0..(Size - 1), b \in 0..(Size - 1) : a = Pos(k) /\ b = Pos(n)
  BY <1>1, <1>3, PosType
<1>7. CASE k.col = 0 /\ k.row = 0 /\ n = k
  <2>1. a = 0
    <3>1. a = 0 * Cols + 0 /\ 0 * Cols = 0
      BY <1>4, <1>6, <1>7 DEF Pos
    <3> QED BY <3>1
  <2>2. \A m \in Nat : \A u : ~(ShownTo(k, u, m) /\ m > 0)
    BY <1>6, <2>1 DEF ShownTo
  <2>3. Tidy(n)
    BY <1>1, <1>7 DEF Tidy
  <2> QED BY <1>2, <2>2, <2>3
<1>8. CASE /\ n.cells = [k.cells EXCEPT ![<<n.row, n.col>>] = S!Blank]
           /\ k.row \in n.dirty /\ n.row \in n.dirty /\ k.dirty \subseteq n.dirty /\ b = a - 1
  <2>1. DOMAIN k.cells = S!Grid
    BY <1>1 DEF S!ConsoleType
  <2>2. Follows(n)
    <3>1. \A x \in S!Grid : x[1] # n.row => x # <<n.row, n.col>>
      OBVIOUS
    <3>2. \A x \in S!Grid : x[1] # n.row => n.cells[x] = k.cells[x]
      BY <1>8, <2>1, <3>1
    <3> QED BY <1>1, <1>3, <1>8, <3>2 DEF Follows
  <2>3. ASSUME NEW p \in 0..(Size - 1)
        PROVE  CellAt(n, p) = IF p = b THEN S!Blank ELSE CellAt(k, p)
    <3>1. PICK x \in S!Grid : x = <<RowOf(p), ColOf(p)>>
      BY ZenonT(40), OfPlace
    <3>2. x = <<n.row, n.col>> <=> p = b
      BY <1>3, <1>6, <3>1, UnderCursor
    <3> QED BY <1>8, <2>1, <3>1, <3>2 DEF CellAt
  <2>4. Free(n)
    <3> SUFFICES ASSUME NEW p \in 0..(Size - 1), p >= b PROVE CellAt(n, p) = S!Blank
      BY <1>6 DEF Free
    <3>1. p # b => p >= a
      BY <1>8
    <3> QED BY <1>1, <1>6, <2>3, <3>1 DEF Free
  <2>5. ASSUME NEW m \in Nat, NEW u, ShownTo(k, u, m), m > 0
        PROVE  ShownTo(n, u, m - 1)
    <3>1. m <= a /\ \A i \in 1..m : CellAt(k, a - i).char = u[(m - i) + 1]
      BY <1>6, <2>5 DEF ShownTo
    <3>2. ASSUME NEW i \in 1..(m - 1)
          PROVE  CellAt(n, b - i).char = u[((m - 1) - i) + 1]
      <4>1. PICK j \in 1..m : j = i + 1
        BY <2>5
      <4>2. m <= a /\ b = a - 1
        BY <1>8, <3>1
      <4>3. b - i \in 0..(Size - 1) /\ b - i # b /\ b - i = a - j /\ ((m - 1) - i) + 1 = (m - j) + 1
        BY <1>4, <2>5, <4>1, <4>2
      <4> QED BY <2>3, <3>1, <4>1, <4>3
    <3>3. m - 1 <= b
      BY <1>8, <3>1
    <3> QED BY <1>6, <3>2, <3>3 DEF ShownTo
  <2> QED BY <1>2, <1>3, <2>2, <2>4, <2>5 DEF Tidy
<1>9. CASE /\ k.col > 0 /\ n.row = k.row /\ n.col = k.col - 1 /\ n.dirty = k.dirty \cup {k.row}
           /\ n.cells = [k.cells EXCEPT ![<<n.row, n.col>>] = S!Blank]
  <2>1. b = a - 1
    <3>1. PICK s \in Int : s = k.row * Cols
      <4>1. k.row \in Int /\ Cols \in Int
        BY <1>4, <1>5
      <4> QED BY <4>1, NextProduct
    <3>2. a = s + k.col /\ b = s + (k.col - 1)
      BY <1>6, <1>9, <3>1 DEF Pos
    <3> QED BY <1>5, <3>2
  <2> QED BY <1>8, <1>9, <2>1
<1>10. CASE /\ k.col = 0 /\ k.row > 0 /\ n.row = k.row - 1 /\ n.col = Cols - 1
            /\ n.dirty = k.dirty \cup {k.row, k.row - 1}
            /\ n.cells = [k.cells EXCEPT ![<<n.row, n.col>>] = S!Blank]
  <2>1. b = a - 1
    <3>1. PICK s \in Int : s = k.row * Cols /\ (k.row - 1) * Cols = s - Cols
      <4>1. k.row \in Int /\ Cols \in Int
        BY <1>4, <1>5
      <4> QED BY <4>1, NextProduct
    <3>2. a = s + 0 /\ b = (s - Cols) + (Cols - 1)
      BY <1>6, <1>10, <3>1 DEF Pos
    <3> QED BY <1>4, <3>2
  <2> QED BY <1>8, <1>10, <2>1
<1> QED BY <1>3, <1>7, <1>9, <1>10

LEMMA NewLineTidy ==
  ASSUME NEW k, Tidy(k)
  PROVE  Tidy(S!NewLine(k))
<1>1. k \in S!ConsoleType /\ Follows(k) /\ Free(k)
  BY DEF Tidy
<1>2. PICK n : n = S!NewLine(k)
  OBVIOUS
<1>3. /\ n \in S!ConsoleType /\ n.col = 0
      /\ n.attr = k.attr /\ n.prev = k.prev /\ n.screen = k.screen
      /\ \/ /\ k.row + 1 < Rows /\ n.row = k.row + 1 /\ n.cells = k.cells /\ n.dirty = k.dirty
         \/ /\ k.row + 1 = Rows /\ n.row = k.row /\ n.dirty = 0..(Rows - 1)
            /\ \A x \in S!Grid :
                 n.cells[x] = IF x[1] = Rows - 1 THEN S!Blank ELSE k.cells[<<x[1] + 1, x[2]>>]
  BY <1>1, <1>2, ConsoleIsWide, NewLineFields
<1>4. Cols \in Nat /\ Cols > 1 /\ Rows \in Nat /\ Size \in Nat /\ (Rows - 1) * Cols = Size - Cols
  BY SizeFacts
<1>5. k.row \in 0..(Rows - 1) /\ k.col \in 0..(Cols - 1)
  BY <1>1, PosType
<1>6. PICK a \in 0..(Size - 1), b \in 0..(Size - 1) : a = Pos(k) /\ b = Pos(n)
  BY <1>1, <1>3, PosType
<1>7. CASE k.row + 1 < Rows /\ n.row = k.row + 1 /\ n.cells = k.cells /\ n.dirty = k.dirty
  <2>1. PICK s \in Int : s = k.row * Cols /\ (k.row + 1) * Cols = s + Cols
    <3>1. k.row \in Int /\ Cols \in Int
      BY <1>4, <1>5
    <3> QED BY <3>1, NextProduct
  <2>2. a = s + k.col /\ b = (s + Cols) + 0
    BY <1>3, <1>6, <1>7, <2>1 DEF Pos
  <2>3. a <= b
    BY <1>4, <1>5, <2>2
  <2>4. \A p \in 0..(Size - 1) : p >= b => p >= a
    BY <2>3
  <2>5. Free(n)
    BY <1>1, <1>6, <1>7, <2>4 DEF Free, CellAt
  <2>6. Follows(n)
    BY <1>1, <1>3, <1>7 DEF Follows
  <2> QED BY <1>2, <1>3, <2>5, <2>6 DEF Tidy
<1>8. CASE /\ k.row + 1 = Rows /\ n.row = k.row /\ n.dirty = 0..(Rows - 1)
           /\ \A x \in S!Grid :
                n.cells[x] = IF x[1] = Rows - 1 THEN S!Blank ELSE k.cells[<<x[1] + 1, x[2]>>]
  <2>1. b = Size - Cols
    <3>1. n.row = Rows - 1
      BY <1>4, <1>5, <1>8
    <3>2. b = (Rows - 1) * Cols + 0
      BY <1>3, <1>6, <3>1 DEF Pos
    <3> QED BY <1>4, <3>2
  <2>2. Free(n)
    <3> SUFFICES ASSUME NEW p \in 0..(Size - 1), p >= b PROVE CellAt(n, p) = S!Blank
      BY <1>6 DEF Free
    <3>1. ~(p < Size - Cols)
      BY <1>4, <2>1
    <3>2. PICK g : g = k.cells
      OBVIOUS
    <3>3. \A x \in S!Grid : n.cells[x] = IF x[1] = Rows - 1 THEN S!Blank ELSE g[<<x[1] + 1, x[2]>>]
      BY ZenonT(40), <1>8, <3>2
    <3>4. CellAt(n, p) = IF p < Size - Cols THEN g[<<RowOf(p + Cols), ColOf(p + Cols)>>] ELSE S!Blank
      BY ZenonT(40), <3>3, Scrolled
    <3> QED BY <3>1, <3>4
  <2>3. Follows(n)
    <3>1. \A x \in S!Grid : x[1] \in 0..(Rows - 1)
      BY DEF S!Grid
    <3> QED BY <1>8, <3>1 DEF Follows
  <2> QED BY <1>2, <1>3, <2>2, <2>3 DEF Tidy
<1> QED BY <1>3, <1>7, <1>8

LEMMA FlushTidy ==
  ASSUME NEW k, Tidy(k)
  PROVE  /\ Tidy(S!ConsoleFlush(k)) /\ S!Current(S!ConsoleFlush(k))
         /\ \A m \in Nat : \A u : ShownTo(k, u, m) => ShownTo(S!ConsoleFlush(k), u, m)
<1>1. k \in S!ConsoleType /\ Follows(k) /\ Free(k)
  BY DEF Tidy
<1>2. PICK n : n = S!ConsoleFlush(k)
  OBVIOUS
<1>3. /\ n \in S!ConsoleType /\ n.cells = k.cells /\ n.row = k.row /\ n.col = k.col /\ n.attr = k.attr
      /\ Follows(n) /\ S!Current(n)
  BY <1>1, <1>2, FlushFields
<1>4. Pos(n) = Pos(k) /\ \A p : CellAt(n, p) = CellAt(k, p)
  BY <1>3 DEF Pos, CellAt
<1>5. Free(n)
  BY <1>1, <1>4 DEF Free
<1>6. \A m \in Nat : \A u : ShownTo(k, u, m) => ShownTo(n, u, m)
  BY <1>4 DEF ShownTo
<1> QED BY <1>2, <1>3, <1>5, <1>6 DEF Tidy

LEMMA AttrTidy ==
  ASSUME NEW k, Tidy(k), NEW a \in S!Attrs
  PROVE  /\ Tidy(S!ConsoleSetAttr(k, a))
         /\ \A m \in Nat : \A u : ShownTo(k, u, m) => ShownTo(S!ConsoleSetAttr(k, a), u, m)
<1>1. k \in S!ConsoleType /\ Follows(k) /\ Free(k)
  BY DEF Tidy
<1>2. PICK n : n = S!ConsoleSetAttr(k, a)
  OBVIOUS
<1>3. /\ n \in S!ConsoleType /\ n.cells = k.cells /\ n.row = k.row /\ n.col = k.col
      /\ n.dirty = k.dirty /\ n.prev = k.prev /\ n.screen = k.screen
  BY ZenonT(40), <1>1, <1>2 DEF S!ConsoleSetAttr, S!ConsoleType
<1>4. Pos(n) = Pos(k) /\ \A p : CellAt(n, p) = CellAt(k, p)
  BY <1>3 DEF Pos, CellAt
<1>5. Free(n) /\ Follows(n)
  BY <1>1, <1>3, <1>4 DEF Free, Follows
<1>6. \A m \in Nat : \A u : ShownTo(k, u, m) => ShownTo(n, u, m)
  BY <1>4 DEF ShownTo
<1> QED BY <1>2, <1>3, <1>5, <1>6 DEF Tidy

LEMMA FillTidy ==
  ASSUME NEW k \in S!ConsoleType, NEW cell \in {S!Blank, S!Foreign}
  PROVE  LET n == S!FillScreen(k, cell)
         IN  /\ n \in S!ConsoleType /\ n.cells = k.cells /\ n.row = k.row /\ n.col = k.col
             /\ n.attr = k.attr /\ n.dirty = k.dirty /\ n.prev = k.prev
<1>1. cell \in [char : Glyphs \cup {"other"}, attr : S!Attrs \cup {"cursor"}]
  BY BoardOfCells DEF S!Blank, S!Foreign, S!Attrs
<1>2. PICK g : g = [x \in S!Grid |-> cell]
  BY ZenonT(40)
<1>3. g \in [S!Grid -> [char : Glyphs \cup {"other"}, attr : S!Attrs \cup {"cursor"}]]
  BY <1>1, <1>2
<1>4. PICK n : n = S!FillScreen(k, cell)
  OBVIOUS
<1>5. n = [k EXCEPT !.screen = g]
  BY <1>2, <1>4 DEF S!FillScreen
<1>6. /\ n \in S!ConsoleType /\ n.cells = k.cells /\ n.row = k.row /\ n.col = k.col
      /\ n.attr = k.attr /\ n.dirty = k.dirty /\ n.prev = k.prev
  BY ZenonT(40), <1>3, <1>5 DEF S!ConsoleType
<1> QED BY <1>4, <1>6

(* When every row is marked, nothing is asked of the screen before. *)
LEMMA MarkedFollows ==
  ASSUME NEW k, k.dirty = 0..(Rows - 1)
  PROVE  Follows(k)
<1>1. \A x \in S!Grid : x[1] \in 0..(Rows - 1)
  BY DEF S!Grid
<1> QED BY <1>1 DEF Follows

LEMMA RefreshTidy ==
  ASSUME NEW k \in S!ConsoleType, Free(k)
  PROVE  Tidy(S!ConsoleRefresh(k))
<1>1. PICK f : f = S!FillScreen(k, S!Blank)
  OBVIOUS
<1>2. /\ f \in S!ConsoleType /\ f.cells = k.cells /\ f.row = k.row /\ f.col = k.col
      /\ f.attr = k.attr /\ f.dirty = k.dirty /\ f.prev = k.prev
  BY <1>1, FillTidy
<1>3. PICK n : n = [f EXCEPT !.dirty = 0..(Rows - 1)]
  BY ZenonT(40)
<1>4. /\ n \in S!ConsoleType /\ n.cells = k.cells /\ n.row = k.row /\ n.col = k.col
      /\ n.dirty = 0..(Rows - 1)
  BY ZenonT(40), <1>2, <1>3 DEF S!ConsoleType
<1>5. Follows(n)
  BY <1>4, MarkedFollows
<1>6. Free(n)
  BY <1>4 DEF Free, Pos, CellAt
<1>7. S!ConsoleRefresh(k) = S!ConsoleFlush(n)
  BY <1>1, <1>3 DEF S!ConsoleRefresh
<1> QED BY <1>4, <1>5, <1>6, <1>7, FlushTidy DEF Tidy

LEMMA ClearTidy ==
  ASSUME NEW k \in S!ConsoleType
  PROVE  Tidy(S!ConsoleClear(k))
<1>1. PICK g : g = [x \in S!Grid |-> S!Blank]
  BY ZenonT(40)
<1>2. g \in [S!Grid -> [char : Glyphs, attr : S!Attrs]]
  BY <1>1, BlankCell DEF CellType
<1>3. 0 \in 0..(Cols - 1) /\ 0 \in 0..(Rows - 1)
  BY SizeFacts
<1>4. PICK m : m = [k EXCEPT !.cells = g, !.dirty = 0..(Rows - 1), !.col = 0, !.row = 0, !.prev = 0]
  OBVIOUS
<1>5. m \in S!ConsoleType /\ m.cells = g /\ m.dirty = 0..(Rows - 1)
  BY ZenonT(40), <1>2, <1>3, <1>4 DEF S!ConsoleType
<1>6. PICK n : n = S!FillScreen(m, S!Blank)
  OBVIOUS
<1>7. n \in S!ConsoleType /\ n.cells = g /\ n.dirty = 0..(Rows - 1)
  BY <1>5, <1>6, FillTidy
<1>8. Follows(n)
  BY <1>7, MarkedFollows
<1>9. Free(n)
  <2>1. \A p \in 0..(Size - 1) : <<RowOf(p), ColOf(p)>> \in S!Grid
    BY OfPlace
  <2> QED BY <1>1, <1>7, <2>1 DEF Free, CellAt
<1>10. S!ConsoleClear(k) = S!ConsoleFlush(n)
  BY <1>1, <1>4, <1>6 DEF S!ConsoleClear
<1> QED BY <1>7, <1>8, <1>9, <1>10, FlushTidy DEF Tidy

LEMMA InitTidy == Tidy(S!ConsoleInit)
<1>1. PICK g : g = [x \in S!Grid |-> S!Blank]
  BY ZenonT(40)
<1>2. g \in [S!Grid -> [char : Glyphs, attr : S!Attrs]]
  BY <1>1, BlankCell DEF CellType
<1>3. PICK h : h = [x \in S!Grid |-> S!Foreign]
  BY ZenonT(40)
<1>4. h \in [S!Grid -> [char : Glyphs \cup {"other"}, attr : S!Attrs \cup {"cursor"}]]
  BY <1>3 DEF S!Foreign
<1>5. 0 \in 0..(Cols - 1) /\ 0 \in 0..(Rows - 1)
  BY SizeFacts
<1>6. PICK k : k = [cells |-> g, dirty |-> {}, col |-> 0, row |-> 0,
                    prev |-> 0, attr |-> "normal", screen |-> h]
  BY ZenonT(40)
<1>7. k \in S!ConsoleType
  BY <1>2, <1>4, <1>5, <1>6 DEF S!ConsoleType, S!Attrs
<1>8. S!ConsoleInit = S!ConsoleClear(k)
  BY <1>1, <1>3, <1>6 DEF S!ConsoleInit
<1> QED BY <1>7, <1>8, ClearTidy

------------------------------------------------------------------------------
(* A string is printed one character at a time. *)
LEMMA Climb ==
  ASSUME NEW n \in Nat, NEW T, 0 \in T, \A i \in 0..(n - 1) : i \in T => i + 1 \in T
  PROVE  \A i \in 0..n : i \in T
<1>1. PICK U : U = {i \in 0..n : i \notin T}
  BY ZenonT(40)
<1> SUFFICES ASSUME U # {} PROVE FALSE
  BY <1>1
<1>2. U \subseteq Nat
  BY <1>1
<1>3. IsWellFoundedOn(OpToRel(<, Nat), Nat)
  BY ZenonT(40), NatLessThanWellFounded
<1>4. PICK x \in U : \A y \in U : ~(<<y, x>> \in OpToRel(<, Nat))
  BY ZenonT(40), <1>2, <1>3, WFMin
<1>5. \A y \in U : ~(y < x)
  BY ZenonT(40), <1>2, <1>4 DEF OpToRel
<1>6. x \in 0..n /\ x \notin T
  BY <1>1
<1>7. x # 0 /\ x - 1 \in 0..(n - 1) /\ x - 1 \in 0..n /\ x - 1 < x /\ (x - 1) + 1 = x
  BY <1>6
<1>8. x - 1 \in T
  BY <1>1, <1>5, <1>7
<1> QED BY <1>6, <1>7, <1>8

LEMMA PutCharOf ==
  ASSUME NEW k
  PROVE  /\ \A c \in Glyphs : S!ConsolePutChar(k, c) = S!PutGlyph(k, c)
         /\ S!ConsolePutChar(k, "bs") = S!Backspace(k)
         /\ S!ConsolePutChar(k, "nl") = S!NewLine(k)
<1>1. "nl" \notin Glyphs /\ "cr" \notin Glyphs /\ "bs" \notin Glyphs
  BY BoardOfCells
<1>2. S!ConsolePutChar(k, "bs") = S!Backspace(k)
  BY <1>1 DEF S!ConsolePutChar
<1>3. S!ConsolePutChar(k, "nl") = S!NewLine(k)
  BY <1>1 DEF S!ConsolePutChar
<1>4. ASSUME NEW c \in Glyphs PROVE S!ConsolePutChar(k, c) = S!PutGlyph(k, c)
  <2>1. c # "nl" /\ c # "cr" /\ c # "bs"
    BY <1>1
  <2> QED BY <2>1 DEF S!ConsolePutChar
<1> QED BY <1>2, <1>3, <1>4

Run(k, s, n, f) == f = [i \in 0..n |-> IF i = 0 THEN k ELSE S!ConsolePutChar(f[i - 1], s[i])]

LEMMA RunExists ==
  ASSUME NEW k, NEW s, NEW n \in Nat
  PROVE  \E f : Run(k, s, n, f)
<1>1. PICK T : T = {i \in Nat : \E f : Run(k, s, i, f)}
  BY ZenonT(40)
<1>2. 0 \in T
  <2>1. PICK f : f = [i \in 0..0 |-> k]
    BY ZenonT(40)
  <2>2. f = [i \in 0..0 |-> IF i = 0 THEN k ELSE S!ConsolePutChar(f[i - 1], s[i])]
    BY <2>1
  <2> QED BY <1>1, <2>2 DEF Run
<1>3. ASSUME NEW i \in 0..(n - 1), i \in T PROVE i + 1 \in T
  <2>1. PICK f : f = [j \in 0..i |-> IF j = 0 THEN k ELSE S!ConsolePutChar(f[j - 1], s[j])]
    BY <1>1, <1>3 DEF Run
  <2>2. PICK g : g = [j \in 0..(i + 1) |-> IF j = i + 1 THEN S!ConsolePutChar(f[i], s[i + 1]) ELSE f[j]]
    BY ZenonT(40)
  <2>3. \A j \in 0..(i + 1) :
          g[j] = IF j = 0 THEN k ELSE S!ConsolePutChar(g[j - 1], s[j])
    <3> TAKE j \in 0..(i + 1)
    <3>1. CASE j = i + 1
      <4>1. j - 1 = i /\ j # 0 /\ i \in 0..(i + 1) /\ i # i + 1
        BY <3>1
      <4>2. g[j] = S!ConsolePutChar(f[i], s[i + 1]) /\ g[i] = f[i]
        BY <2>2, <3>1, <4>1
      <4> QED BY <3>1, <4>1, <4>2
    <3>2. CASE j # i + 1
      <4>1. j \in 0..i
        BY <3>2
      <4>2. g[j] = f[j] /\ f[j] = IF j = 0 THEN k ELSE S!ConsolePutChar(f[j - 1], s[j])
        BY <2>1, <2>2, <3>2, <4>1
      <4>3. j # 0 => j - 1 \in 0..(i + 1) /\ j - 1 # i + 1
        BY <4>1
      <4>4. j # 0 => g[j - 1] = f[j - 1]
        BY <2>2, <4>3
      <4> QED BY <4>2, <4>4
    <3> QED BY <3>1, <3>2
  <2>4. g = [j \in 0..(i + 1) |-> IF j = 0 THEN k ELSE S!ConsolePutChar(g[j - 1], s[j])]
    <3>1. g = [j \in 0..(i + 1) |-> g[j]]
      BY <2>2
    <3> QED BY ZenonT(40), <2>3, <3>1
  <2> QED BY <1>1, <2>4 DEF Run
<1>4. \A i \in 0..n : i \in T
  BY <1>2, <1>3, Climb
<1>5. n \in 0..n
  OBVIOUS
<1> QED BY <1>1, <1>4, <1>5

Printing(k, s, n, f) ==
  /\ f[0] = k /\ f[n] = S!ConsolePrint(k, s)
  /\ \A i \in 0..(n - 1) : f[i + 1] = S!ConsolePutChar(f[i], s[i + 1])

LEMMA PrintSteps ==
  ASSUME NEW k, NEW s, NEW n \in Nat, Len(s) = n
  PROVE  \E f : Printing(k, s, n, f)
<1>1. PICK f : /\ f = [i \in 0..Len(s) |-> IF i = 0 THEN k ELSE S!ConsolePutChar(f[i - 1], s[i])]
               /\ f[Len(s)] = S!ConsolePrint(k, s)
  <2>1. \E f : f = [i \in 0..Len(s) |-> IF i = 0 THEN k ELSE S!ConsolePutChar(f[i - 1], s[i])]
    <3>1. PICK f : Run(k, s, n, f)
      BY RunExists
    <3> QED BY Zenon, <3>1 DEF Run
  <2> QED BY <2>1, Zenon DEF S!ConsolePrint
<1>2. 0 \in 0..n /\ \A i \in 0..(n - 1) : i + 1 \in 0..n /\ i + 1 # 0 /\ (i + 1) - 1 = i
  OBVIOUS
<1>3. f[0] = k /\ \A i \in 0..(n - 1) : f[i + 1] = S!ConsolePutChar(f[i], s[i + 1])
  BY <1>1, <1>2
<1> QED BY <1>1, <1>3 DEF Printing

LEMMA SameText ==
  ASSUME NEW k, NEW u, NEW v, NEW m \in Nat, ShownTo(k, u, m), \A i \in 1..m : u[i] = v[i]
  PROVE  ShownTo(k, v, m)
<1>1. \A i \in 1..m : (m - i) + 1 \in 1..m
  OBVIOUS
<1> QED BY <1>1 DEF ShownTo

LEMMA NothingShown ==
  ASSUME NEW k, Tidy(k), NEW u
  PROVE  ShownTo(k, u, 0)
<1>1. Pos(k) \in 0..(Size - 1)
  BY PosType DEF Tidy
<1> QED BY <1>1 DEF ShownTo

LEMMA PrintShows ==
  ASSUME NEW k, Tidy(k), NEW s \in Seq(Glyphs), NEW u, NEW m \in Nat, ShownTo(k, u, m),
         \A i \in 1..Len(s) : u[m + i] = s[i], m + Len(s) <= Size - Cols
  PROVE  Tidy(S!ConsolePrint(k, s)) /\ ShownTo(S!ConsolePrint(k, s), u, m + Len(s))
<1>1. PICK n \in Nat : n = Len(s)
  OBVIOUS
<1>2. PICK f : /\ f[0] = k /\ f[n] = S!ConsolePrint(k, s)
               /\ \A i \in 0..(n - 1) : f[i + 1] = S!ConsolePutChar(f[i], s[i + 1])
  <2>1. PICK f : Printing(k, s, n, f)
    BY ZenonT(40), <1>1, PrintSteps
  <2> QED BY ZenonT(40), <2>1 DEF Printing
<1>3. PICK T : T = {i \in Nat : Tidy(f[i]) /\ ShownTo(f[i], u, m + i)}
  BY ZenonT(40)
<1>4. 0 \in T
  BY <1>2, <1>3
<1>5. ASSUME NEW i \in 0..(n - 1), i \in T PROVE i + 1 \in T
  <2>1. PICK h : h = f[i] /\ Tidy(h) /\ ShownTo(h, u, m + i)
    BY <1>3, <1>5
  <2>2. i + 1 \in 1..Len(s) /\ (m + i) + 1 = m + (i + 1) /\ m + i \in Nat
    BY <1>1
  <2>3. PICK c \in Glyphs : c = s[i + 1]
    BY <2>2
  <2>4. u[(m + i) + 1] = c
    BY <2>2, <2>3
  <2>5. (m + i) + 1 <= Size - Cols
    BY <1>1, SizeFacts
  <2>6. PICK j \in Nat : j = m + i
    BY <2>2
  <2>7. Tidy(S!PutGlyph(h, c)) /\ ShownTo(S!PutGlyph(h, c), u, j + 1)
    BY <2>1, <2>4, <2>5, <2>6, PutShows
  <2>8. f[i + 1] = S!PutGlyph(h, c)
    BY ZenonT(40), <1>2, <2>1, <2>3, PutCharOf
  <2> QED BY <1>3, <2>2, <2>6, <2>7, <2>8
<1>6. n \in T
  <2>1. \A i \in 0..n : i \in T
    BY ZenonT(40), <1>4, <1>5, Climb
  <2> QED BY <2>1
<1> QED BY <1>1, <1>2, <1>3, <1>6

LEMMA EraseShows ==
  ASSUME NEW k, Tidy(k), NEW u, NEW m \in Nat, NEW n \in Nat, ShownTo(k, u, m + n)
  PROVE  LET erased == S!ConsolePrint(k, [i \in 1..n |-> "bs"])
         IN  Tidy(erased) /\ ShownTo(erased, u, m)
<1>1. PICK s : s = [i \in 1..n |-> "bs"]
  BY ZenonT(40)
<1>2. Len(s) = n /\ \A i \in 1..n : s[i] = "bs"
  <2>1. s \in Seq({"bs"})
    BY <1>1
  <2> QED BY <1>1, <2>1
<1>3. PICK f : /\ f[0] = k /\ f[n] = S!ConsolePrint(k, s)
               /\ \A i \in 0..(n - 1) : f[i + 1] = S!ConsolePutChar(f[i], s[i + 1])
  <2>1. PICK f : Printing(k, s, n, f)
    BY <1>2, PrintSteps
  <2> QED BY <2>1 DEF Printing
<1>4. PICK T : T = {i \in Nat : Tidy(f[i]) /\ ShownTo(f[i], u, (m + n) - i)}
  BY ZenonT(40)
<1>5. 0 \in T
  <2>1. (m + n) - 0 = m + n
    OBVIOUS
  <2> QED BY <1>3, <1>4, <2>1
<1>6. ASSUME NEW i \in 0..(n - 1), i \in T PROVE i + 1 \in T
  <2>1. PICK h : h = f[i] /\ Tidy(h) /\ ShownTo(h, u, (m + n) - i)
    BY <1>4, <1>6
  <2>2. i + 1 \in 1..n /\ (m + n) - i \in Nat /\ (m + n) - i > 0
    OBVIOUS
  <2>3. PICK j \in Nat : j = (m + n) - i /\ j > 0 /\ (m + n) - (i + 1) = j - 1
    BY <2>2
  <2>4. Tidy(S!Backspace(h)) /\ ShownTo(S!Backspace(h), u, j - 1)
    BY <2>1, <2>3, BackShows
  <2>5. f[i + 1] = S!Backspace(h)
    BY <1>2, <1>3, <2>1, <2>2, PutCharOf
  <2> QED BY <1>4, <2>3, <2>4, <2>5
<1>7. n \in T
  <2>1. \A i \in 0..n : i \in T
    BY <1>5, <1>6, Climb
  <2> QED BY <2>1
<1>8. (m + n) - n = m
  OBVIOUS
<1> QED BY <1>1, <1>3, <1>4, <1>7, <1>8

(* The screen shows the text before the cursor and nothing after it. *)
Displays(k, text) == Tidy(k) /\ S!Current(k) /\ ShownTo(k, text, Len(text))

LEMMA PromptRoom ==
  ASSUME NEW p \in Prompts
  PROVE  p \in Seq(Glyphs) /\ Len(p) \in Nat /\ Len(p) + (LINE_MAX - 1) <= Size - Cols
BY BoardOfCells, SizeFacts

LEMMA PromptShows ==
  ASSUME NEW k, Tidy(k), NEW p \in Prompts
  PROVE  Displays(S!Prompted(k, p), p \o << >>)
<1>1. p \in Seq(Glyphs) /\ Len(p) \in Nat /\ Len(p) <= Size - Cols
  BY PromptRoom, BoardOfCells, SizeFacts
<1>2. "accent" \in S!Attrs /\ "normal" \in S!Attrs
  BY DEF S!Attrs
<1>3. PICK a : a = S!ConsoleSetAttr(k, "accent") /\ Tidy(a)
  BY <1>2, AttrTidy
<1>4. PICK b : b = S!ConsolePrint(a, p)
  OBVIOUS
<1>5. Tidy(b) /\ ShownTo(b, p, Len(p))
  <2>1. ShownTo(a, p, 0)
    BY <1>3, NothingShown
  <2>2. \A i \in 1..Len(p) : p[0 + i] = p[i]
    BY <1>1
  <2>3. 0 + Len(p) = Len(p)
    BY <1>1
  <2> QED BY <1>1, <1>3, <1>4, <2>1, <2>2, <2>3, PrintShows
<1>6. PICK c : c = S!ConsoleSetAttr(b, "normal")
  OBVIOUS
<1>7. Tidy(c) /\ ShownTo(c, p, Len(p))
  BY <1>1, <1>2, <1>5, <1>6, AttrTidy
<1>8. PICK d : d = S!ConsoleFlush(c)
  OBVIOUS
<1>9. Tidy(d) /\ S!Current(d) /\ ShownTo(d, p, Len(p))
  BY <1>1, <1>7, <1>8, FlushTidy
<1>10. S!Prompted(k, p) = d
  BY <1>3, <1>4, <1>6, <1>8 DEF S!Prompted
<1>11. p \o << >> = p
  BY <1>1, ConcatEmptySeq
<1> QED BY <1>9, <1>10, <1>11 DEF Displays

(* One text put in the place of another after the same prompt. *)
LEMMA ReplaceShows ==
  ASSUME NEW k, NEW p \in Prompts, NEW old \in Seq(Glyphs), NEW new \in Seq(Glyphs),
         Displays(k, p \o old), Len(new) < LINE_MAX
  PROVE  LET erased == S!ConsolePrint(k, [i \in 1..Len(old) |-> "bs"])
         IN  Displays(S!ConsoleFlush(S!ConsolePrint(erased, new)), p \o new)
<1>1. p \in Seq(Glyphs) /\ Len(p) \in Nat /\ Len(old) \in Nat /\ Len(new) \in Nat
  BY PromptRoom
<1>2. PICK a \in Nat, b \in Nat, c \in Nat : a = Len(p) /\ b = Len(old) /\ c = Len(new)
  BY <1>1
<1>3. a + c <= Size - Cols
  BY <1>2, PromptRoom, BoardOfCells, SizeFacts
<1>4. PICK u : u = p \o old
  BY ZenonT(40)
<1>5. PICK v : v = p \o new
  BY ZenonT(40)
<1>6. Len(u) = a + b /\ \A i \in 1..a : u[i] = p[i]
  <2>1. Len(u) = Len(p) + Len(old) /\ \A i \in 1..(Len(p) + Len(old)) :
          u[i] = IF i <= Len(p) THEN p[i] ELSE old[i - Len(p)]
    BY <1>1, <1>4, ConcatProperties
  <2> QED BY <1>2, <2>1
<1>7. Len(v) = a + c /\ (\A i \in 1..a : v[i] = p[i]) /\ \A i \in 1..c : v[a + i] = new[i]
  <2>1. Len(v) = Len(p) + Len(new) /\ \A i \in 1..(Len(p) + Len(new)) :
          v[i] = IF i <= Len(p) THEN p[i] ELSE new[i - Len(p)]
    BY <1>1, <1>5, ConcatProperties
  <2>2. \A i \in 1..c : a + i \in 1..(a + c) /\ ~(a + i <= a) /\ (a + i) - a = i
    OBVIOUS
  <2>3. \A i \in 1..a : i \in 1..(a + c)
    OBVIOUS
  <2>4. \A i \in 1..(a + c) : v[i] = IF i <= a THEN p[i] ELSE new[i - a]
    BY <1>2, <2>1
  <2>5. \A i \in 1..c : v[a + i] = new[i]
    BY <2>2, <2>4
  <2>6. \A i \in 1..a : v[i] = p[i]
    BY <2>3, <2>4
  <2> QED BY <1>2, <2>1, <2>5, <2>6
<1>8. Tidy(k) /\ ShownTo(k, u, a + b)
  BY <1>4, <1>6 DEF Displays
<1>9. PICK erased : erased = S!ConsolePrint(k, [i \in 1..b |-> "bs"])
  OBVIOUS
<1>10. Tidy(erased) /\ ShownTo(erased, u, a)
  BY ZenonT(40), <1>8, <1>9, EraseShows
<1>11. ShownTo(erased, v, a)
  <2>1. \A i \in 1..a : u[i] = v[i]
    BY ZenonT(40), <1>6, <1>7
  <2> QED BY <1>10, <2>1, SameText
<1>12. PICK n : n = S!ConsolePrint(erased, new)
  OBVIOUS
<1>13. Tidy(n) /\ ShownTo(n, v, a + c)
  <2>1. \A i \in 1..Len(new) : v[a + i] = new[i]
    BY <1>2, <1>7
  <2>2. a + Len(new) <= Size - Cols
    BY <1>2, <1>3
  <2>3. Tidy(n) /\ ShownTo(n, v, a + Len(new))
    BY <1>10, <1>11, <1>12, <2>1, <2>2, PrintShows
  <2> QED BY <1>2, <2>3
<1>14. PICK r : r = S!ConsoleFlush(n)
  OBVIOUS
<1>15. Tidy(r) /\ S!Current(r) /\ ShownTo(r, v, a + c)
  <2>1. PICK l \in Nat : l = a + c
    OBVIOUS
  <2> QED BY <1>13, <1>14, <2>1, FlushTidy
<1>16. Displays(r, v)
  BY <1>7, <1>15 DEF Displays
<1> QED BY <1>2, <1>5, <1>9, <1>12, <1>14, <1>16

LEMMA TypeShows ==
  ASSUME NEW k, NEW p \in Prompts, NEW old \in Seq(Glyphs), NEW c \in Glyphs,
         Displays(k, p \o old), Len(old) < LINE_MAX - 1
  PROVE  Displays(S!ConsoleFlush(S!ConsolePutChar(k, c)), p \o Append(old, c))
<1>1. p \in Seq(Glyphs) /\ Len(p) \in Nat /\ Len(old) \in Nat /\ Append(old, c) \in Seq(Glyphs)
  BY PromptRoom
<1>2. PICK a \in Nat, b \in Nat : a = Len(p) /\ b = Len(old)
  BY <1>1
<1>3. (a + b) + 1 <= Size - Cols
  BY <1>2, PromptRoom, BoardOfCells, SizeFacts
<1>4. PICK u : u = p \o old
  BY ZenonT(40)
<1>5. PICK new \in Seq(Glyphs) : new = Append(old, c)
  BY ZenonT(40), <1>1
<1>6. PICK v : v = p \o new
  BY ZenonT(40)
<1>7. Len(new) = b + 1 /\ new[b + 1] = c /\ \A i \in 1..b : new[i] = old[i]
  BY <1>2, <1>5
<1>8. Len(u) = a + b /\ \A i \in 1..(a + b) : u[i] = IF i <= a THEN p[i] ELSE old[i - a]
  <2>1. Len(u) = Len(p) + Len(old) /\ \A i \in 1..(Len(p) + Len(old)) :
          u[i] = IF i <= Len(p) THEN p[i] ELSE old[i - Len(p)]
    BY <1>1, <1>4, ConcatProperties
  <2> QED BY <1>2, <2>1
<1>9. Len(v) = (a + b) + 1 /\ \A i \in 1..((a + b) + 1) : v[i] = IF i <= a THEN p[i] ELSE new[i - a]
  <2>1. Len(v) = Len(p) + Len(new) /\ \A i \in 1..(Len(p) + Len(new)) :
          v[i] = IF i <= Len(p) THEN p[i] ELSE new[i - Len(p)]
    BY <1>1, <1>6, ConcatProperties
  <2>2. Len(p) + Len(new) = (a + b) + 1
    BY <1>2, <1>7
  <2> QED BY <1>2, <2>1, <2>2
<1>10. \A i \in 1..(a + b) : u[i] = v[i]
  <2>1. \A i \in 1..(a + b) : i \in 1..((a + b) + 1)
    OBVIOUS
  <2>2. \A i \in 1..(a + b) : ~(i <= a) => i - a \in 1..b
    OBVIOUS
  <2> QED BY ZenonT(40), <1>7, <1>8, <1>9, <2>1, <2>2
<1>11. v[(a + b) + 1] = c
  <2>1. (a + b) + 1 \in 1..((a + b) + 1) /\ ~((a + b) + 1 <= a) /\ ((a + b) + 1) - a = b + 1
    OBVIOUS
  <2> QED BY <1>7, <1>9, <2>1
<1>12. PICK m \in Nat : m = a + b
  OBVIOUS
<1>13. Tidy(k) /\ ShownTo(k, v, m)
  <2>1. Tidy(k) /\ ShownTo(k, u, m)
    BY <1>4, <1>8, <1>12 DEF Displays
  <2> QED BY <1>10, <1>12, <2>1, SameText
<1>14. PICK n : n = S!PutGlyph(k, c)
  OBVIOUS
<1>15. Tidy(n) /\ ShownTo(n, v, m + 1)
  BY <1>3, <1>11, <1>12, <1>13, <1>14, PutShows
<1>16. PICK r : r = S!ConsoleFlush(n)
  OBVIOUS
<1>17. Tidy(r) /\ S!Current(r) /\ ShownTo(r, v, m + 1)
  <2>1. PICK l \in Nat : l = m + 1
    OBVIOUS
  <2> QED BY <1>15, <1>16, <2>1, FlushTidy
<1>18. Displays(r, v)
  BY <1>9, <1>12, <1>17 DEF Displays
<1>19. S!ConsolePutChar(k, c) = n
  BY ZenonT(40), <1>14, PutCharOf
<1> QED BY <1>5, <1>6, <1>16, <1>18, <1>19

LEMMA EraseCharShows ==
  ASSUME NEW k, NEW p \in Prompts, NEW old \in Seq(Glyphs), Displays(k, p \o old), Len(old) > 0,
         NEW new \in Seq(Glyphs), Len(new) = Len(old) - 1, \A i \in 1..Len(new) : new[i] = old[i]
  PROVE  Displays(S!ConsoleFlush(S!ConsolePutChar(k, "bs")), p \o new)
<1>1. p \in Seq(Glyphs) /\ Len(p) \in Nat /\ Len(old) \in Nat
  BY PromptRoom
<1>2. PICK a \in Nat, b \in Nat : a = Len(p) /\ b = Len(new) /\ Len(old) = b + 1
  BY <1>1
<1>3. PICK u : u = p \o old
  BY ZenonT(40)
<1>4. PICK v : v = p \o new
  BY ZenonT(40)
<1>5. Len(u) = (a + b) + 1 /\ \A i \in 1..((a + b) + 1) : u[i] = IF i <= a THEN p[i] ELSE old[i - a]
  <2>1. Len(u) = Len(p) + Len(old) /\ \A i \in 1..(Len(p) + Len(old)) :
          u[i] = IF i <= Len(p) THEN p[i] ELSE old[i - Len(p)]
    BY <1>1, <1>3, ConcatProperties
  <2>2. Len(p) + Len(old) = (a + b) + 1
    BY <1>2
  <2> QED BY <1>2, <2>1, <2>2
<1>6. Len(v) = a + b /\ \A i \in 1..(a + b) : v[i] = IF i <= a THEN p[i] ELSE new[i - a]
  <2>1. Len(v) = Len(p) + Len(new) /\ \A i \in 1..(Len(p) + Len(new)) :
          v[i] = IF i <= Len(p) THEN p[i] ELSE new[i - Len(p)]
    BY ZenonT(40), <1>1, <1>4, ConcatProperties
  <2> QED BY <1>2, <2>1
<1>7. \A i \in 1..(a + b) : u[i] = v[i]
  <2>1. \A i \in 1..(a + b) : i \in 1..((a + b) + 1)
    OBVIOUS
  <2>2. \A i \in 1..(a + b) : ~(i <= a) => i - a \in 1..b
    OBVIOUS
  <2>3. \A i \in 1..b : new[i] = old[i]
    BY <1>2
  <2> QED BY ZenonT(40), <1>5, <1>6, <2>1, <2>2, <2>3
<1>8. PICK m \in Nat : m = a + b
  OBVIOUS
<1>9. Tidy(k) /\ ShownTo(k, u, m + 1)
  BY <1>3, <1>5, <1>8 DEF Displays
<1>10. PICK n : n = S!Backspace(k)
  OBVIOUS
<1>11. Tidy(n) /\ ShownTo(n, u, m)
  <2>1. PICK l \in Nat : l = m + 1 /\ l > 0 /\ l - 1 = m
    OBVIOUS
  <2> QED BY <1>9, <1>10, <2>1, BackShows
<1>12. ShownTo(n, v, m)
  BY <1>7, <1>8, <1>11, SameText
<1>13. PICK r : r = S!ConsoleFlush(n)
  OBVIOUS
<1>14. Tidy(r) /\ S!Current(r) /\ ShownTo(r, v, m)
  BY <1>11, <1>12, <1>13, FlushTidy
<1>15. Displays(r, v)
  BY <1>6, <1>8, <1>14 DEF Displays
<1>16. S!ConsolePutChar(k, "bs") = n
  BY <1>10, PutCharOf
<1> QED BY <1>4, <1>13, <1>15, <1>16

LEMMA FlushShows ==
  ASSUME NEW k, NEW text, Len(text) \in Nat, Displays(k, text)
  PROVE  Displays(S!ConsoleFlush(k), text)
BY FlushTidy DEF Displays

------------------------------------------------------------------------------
(* The history: a ring of the last lines entered. *)
LEMMA Wraps ==
  ASSUME NEW b \in Nat \ {0}, NEW x \in 0..(b - 1)
  PROVE  /\ \A j \in 1..b : ((x + b) - j) % b = IF j <= x THEN x - j ELSE (x + b) - j
         /\ (x + 1) % b = IF x + 1 = b THEN 0 ELSE x + 1
<1>1. ASSUME NEW j \in 1..b
      PROVE  ((x + b) - j) % b = IF j <= x THEN x - j ELSE (x + b) - j
  <2>1. CASE j <= x
    <3>1. PICK r \in 0..(b - 1) : r = x - j
      BY <2>1
    <3>2. (1 * b + r) % b = r
      BY Unique
    <3>3. 1 * b = b /\ b + r = (x + b) - j
      BY <3>1
    <3> QED BY <2>1, <3>1, <3>2, <3>3
  <2>2. CASE ~(j <= x)
    <3>1. PICK r \in 0..(b - 1) : r = (x + b) - j
      BY <2>2
    <3>2. (0 * b + r) % b = r
      BY Unique
    <3>3. 0 * b = 0 /\ 0 + r = r
      OBVIOUS
    <3> QED BY <2>2, <3>1, <3>2, <3>3
  <2> QED BY <2>1, <2>2
<1>2. CASE x + 1 = b
  <2>1. PICK r \in 0..(b - 1) : r = 0
    OBVIOUS
  <2>2. (1 * b + r) % b = r
    BY Unique
  <2>3. 1 * b + r = x + 1
    BY <1>2, <2>1
  <2> QED BY ZenonT(40), <1>1, <1>2, <2>1, <2>2, <2>3
<1>3. CASE x + 1 # b
  <2>1. PICK r \in 0..(b - 1) : r = x + 1
    BY <1>3
  <2>2. (0 * b + r) % b = r /\ 0 * b = 0 /\ 0 + r = r
    BY Unique
  <2> QED BY <1>1, <1>3, <2>1, <2>2
<1> QED BY <1>2, <1>3

Texts == {s \in Seq(Glyphs) : Len(s) < LINE_MAX}

(* The ring h, written at n next, holds the last c of the lines e. *)
Remembers(h, n, c, e) ==
  /\ h \in [S!Slots -> Texts] /\ n \in S!Slots /\ c \in 0..HISTORY_SIZE /\ e \in Seq(Texts)
  /\ c = IF Len(e) < HISTORY_SIZE THEN Len(e) ELSE HISTORY_SIZE
  /\ \A i \in 1..c : h[((n + HISTORY_SIZE) - i) % HISTORY_SIZE] = e[(Len(e) - i) + 1]

LEMMA HistoryGrows ==
  ASSUME NEW h, NEW n, NEW c, NEW e, Remembers(h, n, c, e), NEW line \in Texts
  PROVE  Remembers([h EXCEPT ![n] = line], (n + 1) % HISTORY_SIZE,
                   IF c < HISTORY_SIZE THEN c + 1 ELSE c, Append(e, line))
<1>1. PICK b \in Nat \ {0} : b = HISTORY_SIZE
  BY BoardOfCells
<1>2. /\ h \in [0..(b - 1) -> Texts] /\ n \in 0..(b - 1) /\ c \in 0..b /\ e \in Seq(Texts)
      /\ c = IF Len(e) < b THEN Len(e) ELSE b
      /\ \A i \in 1..c : h[((n + b) - i) % b] = e[(Len(e) - i) + 1]
  BY <1>1 DEF Remembers, S!Slots
<1>3. PICK l \in Nat : l = Len(e)
  BY <1>2
<1>4. PICK g \in [0..(b - 1) -> Texts] : g = [h EXCEPT ![n] = line]
  BY ZenonT(40), <1>2
<1>5. PICK d \in 0..b : d = (IF c < b THEN c + 1 ELSE c)
  BY <1>2
<1>6. PICK m \in 0..(b - 1) : m = (n + 1) % b /\ m = IF n + 1 = b THEN 0 ELSE n + 1
  BY SMTT(30), <1>2, Wraps
<1>7. PICK a \in Seq(Texts) : a = Append(e, line)
  BY <1>2
<1>8. Len(a) = l + 1 /\ a[l + 1] = line /\ \A i \in 1..l : a[i] = e[i]
  BY <1>2, <1>3, <1>7
<1>9. d = IF l + 1 < b THEN l + 1 ELSE b
  BY <1>2, <1>3, <1>5
<1>10. ASSUME NEW i \in 1..d PROVE g[((m + b) - i) % b] = a[((l + 1) - i) + 1]
  <2>1. i \in 1..b /\ i <= l + 1
    BY <1>5, <1>9
  <2>2. ((m + b) - i) % b = IF i <= m THEN m - i ELSE (m + b) - i
    <3>1. \A j \in 1..b : ((m + b) - j) % b = IF j <= m THEN m - j ELSE (m + b) - j
      BY ZenonT(40), Wraps
    <3> QED BY <2>1, <3>1
  <2>3. CASE i = 1
    <3>1. ((m + b) - i) % b = n
      BY <1>2, <1>6, <2>2, <2>3
    <3>2. g[n] = line
      BY <1>2, <1>4
    <3>3. ((l + 1) - i) + 1 = l + 1
      BY <2>3
    <3> QED BY ZenonT(40), <1>8, <3>1, <3>2, <3>3
  <2>4. CASE i # 1
    <3>1. PICK j \in 1..b : j = i - 1
      BY <2>1, <2>4
    <3>2. j \in 1..c /\ j < b
      BY <1>2, <1>5, <2>1, <3>1
    <3>3. ((n + b) - j) % b = IF j <= n THEN n - j ELSE (n + b) - j
      BY ZenonT(40), <1>2, Wraps
    <3>4. PICK q \in 0..(b - 1) : q = (IF j <= n THEN n - j ELSE (n + b) - j) /\ q # n
      <4>1. j \in Nat /\ 1 <= j /\ j < b /\ n \in Nat /\ n < b
        BY <1>2, <3>2
      <4>2. CASE j <= n
        <5>1. n - j \in 0..(b - 1) /\ n - j # n
          BY <4>1, <4>2
        <5> QED BY <4>2, <5>1
      <4>3. CASE ~(j <= n)
        <5>1. (n + b) - j \in 0..(b - 1) /\ (n + b) - j # n
          BY <4>1, <4>3
        <5> QED BY <4>3, <5>1
      <4> QED BY <4>2, <4>3
    <3>5. (IF i <= m THEN m - i ELSE (m + b) - i) = q
      <4>0. j \in Nat /\ 1 <= j /\ j < b /\ n \in Nat /\ n < b /\ i = j + 1
        BY <1>2, <2>1, <3>1, <3>2
      <4>1. CASE n + 1 = b
        <5>1. m = 0 /\ ~(i <= m) /\ j <= n /\ (m + b) - i = n - j
          BY <1>6, <4>0, <4>1
        <5> QED BY <3>4, <5>1
      <4>2. CASE n + 1 # b /\ j <= n
        <5>1. m = n + 1 /\ i <= m /\ m - i = n - j
          BY <1>6, <4>0, <4>2
        <5> QED BY <3>4, <4>2, <5>1
      <4>3. CASE n + 1 # b /\ ~(j <= n)
        <5>1. m = n + 1 /\ ~(i <= m) /\ (m + b) - i = (n + b) - j
          BY <1>6, <4>0, <4>3
        <5> QED BY <3>4, <4>3, <5>1
      <4> QED BY <4>1, <4>2, <4>3
    <3>6. g[q] = h[q]
      BY <1>2, <1>4, <3>4
    <3>7. h[q] = e[(l - j) + 1]
      BY ZenonT(40), <1>2, <1>3, <3>2, <3>3, <3>4
    <3>8. (l - j) + 1 \in 1..l /\ ((l + 1) - i) + 1 = (l - j) + 1
      BY <2>1, <3>1
    <3> QED BY ZenonT(40), <1>8, <2>2, <3>5, <3>6, <3>7, <3>8
  <2> QED BY <2>3, <2>4
<1>11. g \in [S!Slots -> Texts] /\ m \in S!Slots
  BY <1>1 DEF S!Slots
<1>12. Remembers(g, m, d, a)
  BY <1>1, <1>8, <1>9, <1>10, <1>11 DEF Remembers
<1> QED BY <1>1, <1>4, <1>5, <1>6, <1>7, <1>12

------------------------------------------------------------------------------
(* The shell's invariant. *)
ShellTypes ==
  /\ prompt \in Prompts /\ Line \in Texts
  /\ HistoryPos \in 0..HistoryCount
  /\ command \in {"none", "running", "tab"}
  /\ command # "none" => Line = << >>

ScreenInv == Tidy(console) /\ (command = "none" => Displays(console, prompt \o Line))

ShellState == ShellTypes /\ ScreenInv /\ Remembers(History, HistoryNext, HistoryCount, entered)

ShellInv == part = "shell" => ShellState

LEMMA NoText == << >> \in Texts
<1>1. << >> \in Seq(Glyphs) /\ Len(<< >>) = 0
  OBVIOUS
<1> QED BY <1>1, BoardOfCells DEF Texts

LEMMA RecalledText ==
  ASSUME ShellState, NEW i \in 1..HISTORY_SIZE
  PROVE  S!Recalled(i) \in Texts
<1>1. PICK b \in Nat \ {0} : b = HISTORY_SIZE
  BY BoardOfCells
<1>2. HistoryNext \in 0..(b - 1) /\ History \in [0..(b - 1) -> Texts]
  BY <1>1 DEF ShellState, Remembers, S!Slots
<1>3. i \in 1..b
  BY <1>1
<1>4. ((HistoryNext + b) - i) % b \in 0..(b - 1)
  BY <1>2, <1>3, Wraps
<1> QED BY <1>1, <1>2, <1>4 DEF S!Recalled

(* What the properties say follows. *)
LEMMA ShownIsRight ==
  ASSUME ShellState
  PROVE  S!TypeOK /\ S!LineShown /\ S!ScreenFollows /\ S!HistoryRight
<1>1. Tidy(console) /\ Follows(console) /\ console \in S!ConsoleType
  BY DEF ShellState, ScreenInv, Tidy
<1>2. S!TypeOK
  <2>1. Line \in Seq(Glyphs) /\ Len(Line) < LINE_MAX
    BY DEF ShellState, ShellTypes, Texts
  <2>2. DOMAIN History = S!Slots /\ \A i \in S!Slots : Len(History[i]) < LINE_MAX
    BY DEF ShellState, Remembers, Texts
  <2>3. HistoryNext \in S!Slots /\ HistoryCount \in 0..HISTORY_SIZE /\ HistoryPos \in 0..HistoryCount
    BY DEF ShellState, ShellTypes, Remembers
  <2>4. command \in {"none", "running", "tab"}
    BY DEF ShellState, ShellTypes
  <2> QED BY <1>1, <2>1, <2>2, <2>3, <2>4 DEF S!TypeOK
<1>3. S!ScreenFollows
  <2>1. S!RowsFollow(console)
    BY <1>1 DEF Follows, S!RowsFollow
  <2>2. command = "none" => S!Current(console)
    BY DEF ShellState, ScreenInv, Displays
  <2> QED BY <2>1, <2>2 DEF S!ScreenFollows
<1>4. S!HistoryRight
  BY DEF ShellState, Remembers, S!HistoryRight, S!Recalled
<1>5. ASSUME command = "none" PROVE S!LineShown
  <2>1. PICK shown : shown = prompt \o Line
    BY ZenonT(40)
  <2>2. Free(console) /\ ShownTo(console, shown, Len(shown))
    BY <1>5, <2>1 DEF ShellState, ScreenInv, Displays, Tidy
  <2>3. Len(shown) <= console.row * Cols + console.col
    BY <2>2 DEF ShownTo, Pos
  <2>4. \A i \in 1..Len(shown) : S!Before(i) = shown[(Len(shown) - i) + 1]
    BY ZenonT(40), <2>2 DEF ShownTo, S!Before, Pos, CellAt, RowOf, ColOf
  <2>5. ASSUME NEW x \in S!Grid,
               x[1] > console.row \/ (x[1] = console.row /\ x[2] >= console.col)
        PROVE  console.cells[x] = S!Blank
    <3>1. PICK r \in 0..(Rows - 1), c \in 0..(Cols - 1) : x = <<r, c>>
      BY DEF S!Grid
    <3>2. /\ r * Cols + c \in 0..(Size - 1)
          /\ RowOf(r * Cols + c) = r /\ ColOf(r * Cols + c) = c
      BY PlaceOf
    <3>3. PICK p \in 0..(Size - 1) : p = r * Cols + c
      BY <3>2
    <3>4. PICK i \in 0..(Rows - 1), j \in 0..(Cols - 1) : i = console.row /\ j = console.col
      BY <1>1, PosType
    <3>5. Cols \in Nat /\ Cols > 1 /\ Rows \in Nat
      BY SizeFacts
    <3>6. r * Cols \in Int /\ i * Cols \in Int /\ (i + 1) * Cols = i * Cols + Cols
      <4>1. r \in Int /\ i \in Int /\ Cols \in Int
        BY <3>5
      <4> QED BY <4>1, NextProduct
    <3>7. CASE r > i
      <4>1. (i + 1) * Cols <= r * Cols
        <5>1. i + 1 \in Nat /\ r \in Nat /\ i + 1 <= r
          BY <3>5, <3>7
        <5> QED BY <3>5, <5>1, ProductMonotone
      <4>2. p >= i * Cols + j
        <5>1. PICK s \in Int, t \in Int : s = r * Cols /\ t = i * Cols
          BY <3>6
        <5>2. t + Cols <= s /\ p = s + c
          BY <3>3, <3>6, <4>1, <5>1
        <5>3. p >= t + j
          BY <3>5, <5>2
        <5> QED BY <5>1, <5>3
      <4> QED BY <2>2, <3>1, <3>2, <3>3, <3>4, <4>2 DEF Free, Pos, CellAt
    <3>8. CASE r = i /\ c >= j
      <4>1. p >= i * Cols + j
        <5>1. PICK t \in Int : t = i * Cols
          BY <3>6
        <5>2. p = t + c
          BY <3>3, <3>8, <5>1
        <5>3. p >= t + j
          BY <3>5, <3>8, <5>2
        <5> QED BY <5>1, <5>3
      <4> QED BY <2>2, <3>1, <3>2, <3>3, <3>4, <4>1 DEF Free, Pos, CellAt
    <3>9. r > i \/ (r = i /\ c >= j)
      BY <2>5, <3>1, <3>4
    <3> QED BY <3>7, <3>8, <3>9
  <2> QED BY <1>5, <2>1, <2>3, <2>4, <2>5 DEF S!LineShown
<1>6. S!LineShown
  BY <1>5 DEF S!LineShown
<1> QED BY <1>2, <1>3, <1>4, <1>6

LEMMA ShellStarts ==
  ASSUME S!Init PROVE ShellState
<1>1. PICK p \in Prompts : p = prompt
  BY DEF S!Init
<1>2. Line = << >> /\ console = S!Prompted(S!ConsoleInit, p)
  BY <1>1 DEF S!Init
<1>3. Displays(console, p \o << >>)
  <2>1. PICK k : k = S!ConsoleInit /\ Tidy(k)
    BY InitTidy
  <2>2. Displays(S!Prompted(k, p), p \o << >>)
    BY <2>1, PromptShows
  <2> QED BY <1>2, <2>1, <2>2
<1>4. ScreenInv
  BY <1>1, <1>2, <1>3 DEF ScreenInv, Displays
<1>5. ShellTypes
  BY NoText DEF S!Init, ShellTypes
<1>6. Remembers(History, HistoryNext, HistoryCount, entered)
  <2>1. HISTORY_SIZE \in Nat /\ HISTORY_SIZE > 0
    BY BoardOfCells
  <2>2. HistoryNext = 0 /\ HistoryCount = 0 /\ entered = << >> /\ History = [i \in S!Slots |-> << >>]
    BY DEF S!Init
  <2>3. 0 \in S!Slots /\ 0 \in 0..HISTORY_SIZE
    BY <2>1 DEF S!Slots
  <2>4. History \in [S!Slots -> Texts]
    BY <2>2, NoText
  <2>5. << >> \in Seq(Texts) /\ Len(<< >>) = 0
    OBVIOUS
  <2>6. \A i : i \notin 1..0
    OBVIOUS
  <2> QED BY <2>1, <2>2, <2>3, <2>4, <2>5, <2>6 DEF Remembers
<1> QED BY <1>4, <1>5, <1>6 DEF ShellState

(* What an action leaves alone stays as it was. *)
LEMMA HistoryStays ==
  ASSUME ShellState, UNCHANGED S!history, UNCHANGED entered
  PROVE  Remembers(History, HistoryNext, HistoryCount, entered)'
<1>1. History' = History /\ HistoryNext' = HistoryNext /\ HistoryCount' = HistoryCount /\ entered' = entered
  BY DEF S!history
<1>2. Remembers(History, HistoryNext, HistoryCount, entered)
  BY DEF ShellState
<1> QED BY <1>1, <1>2

LEMMA WaitsFacts ==
  ASSUME ShellState
  PROVE  /\ prompt \in Prompts /\ Line \in Seq(Glyphs) /\ Len(Line) \in Nat /\ Len(Line) < LINE_MAX
         /\ Line \in Texts /\ Tidy(console) /\ HistoryPos \in 0..HistoryCount
         /\ HistoryCount \in 0..HISTORY_SIZE
         /\ command \in {"none", "running", "tab"}
         /\ command = "none" => Displays(console, prompt \o Line)
BY DEF ShellState, ShellTypes, ScreenInv, Texts, Remembers

LEMMA FlushKeeps ==
  ASSUME NEW k, NEW p \in Prompts, NEW l \in Seq(Glyphs), Displays(k, p \o l)
  PROVE  Displays(S!ConsoleFlush(k), p \o l)
<1>1. PICK t : t = p \o l
  BY ZenonT(40)
<1>2. Len(t) \in Nat
  BY <1>1, PromptRoom, ConcatProperties
<1> QED BY <1>1, <1>2, FlushShows

LEMMA NewScreen ==
  ASSUME NEW p, prompt' = p, NEW l, Line' = l, NEW k, console' = k, Displays(k, p \o l)
  PROVE  ScreenInv'
BY DEF ScreenInv, Displays

LEMMA TypeCharKeeps ==
  ASSUME ShellState, NEW c \in Glyphs, S!TypeChar(c)
  PROVE  ShellState'
<1>1. /\ command = "none" /\ command' = command /\ prompt' = prompt /\ HistoryPos' = HistoryPos
      /\ UNCHANGED S!history /\ UNCHANGED entered /\ HistoryCount' = HistoryCount
  BY DEF S!TypeChar, S!Key, S!history
<1>2. PICK k \in {console}, p \in Prompts, l \in Texts :
        k = console /\ p = prompt /\ l = Line /\ l \in Seq(Glyphs) /\ Len(l) \in Nat /\ Displays(k, p \o l)
  BY <1>1, WaitsFacts
<1>3. LINE_MAX \in Nat /\ LINE_MAX > 1
  BY BoardOfCells
<1>4. CASE Len(l) < LINE_MAX - 1
  <2>1. Line' = Append(l, c) /\ console' = S!ConsoleFlush(S!ConsolePutChar(k, c))
    BY <1>2, <1>4 DEF S!TypeChar
  <2>2. PICK new \in Seq(Glyphs) : new = Append(l, c) /\ Len(new) = Len(l) + 1
    BY ZenonT(40), <1>2, AppendProperties
  <2>3. Displays(S!ConsoleFlush(S!ConsolePutChar(k, c)), p \o new)
    BY <1>2, <1>4, <2>2, TypeShows
  <2>4. new \in Texts
    BY <1>2, <1>3, <1>4, <2>2 DEF Texts
  <2>5. ScreenInv'
    BY ZenonT(40), <1>1, <1>2, <2>1, <2>2, <2>3, NewScreen
  <2>6. ShellTypes'
    BY <1>1, <2>1, <2>2, <2>4, WaitsFacts DEF ShellTypes
  <2> QED BY <1>1, <2>5, <2>6, HistoryStays DEF ShellState
<1>5. CASE ~(Len(l) < LINE_MAX - 1)
  <2>1. Line' = l /\ console' = S!ConsoleFlush(k)
    BY <1>2, <1>5 DEF S!TypeChar
  <2>2. Displays(S!ConsoleFlush(k), p \o l)
    BY <1>2, FlushKeeps
  <2>3. ScreenInv'
    BY <1>1, <1>2, <2>1, <2>2, NewScreen
  <2>4. ShellTypes'
    BY <1>1, <1>2, <2>1, WaitsFacts DEF ShellTypes
  <2> QED BY <1>1, <2>3, <2>4, HistoryStays DEF ShellState
<1> QED BY <1>4, <1>5

LEMMA EraseCharKeeps ==
  ASSUME ShellState, S!EraseChar
  PROVE  ShellState'
<1>1. /\ command = "none" /\ command' = command /\ prompt' = prompt /\ HistoryPos' = HistoryPos
      /\ UNCHANGED S!history /\ UNCHANGED entered /\ HistoryCount' = HistoryCount
  BY DEF S!EraseChar, S!Key, S!history
<1>2. PICK k \in {console}, p \in Prompts, l \in Texts :
        /\ k = console /\ p = prompt /\ l = Line /\ l \in Seq(Glyphs) /\ Len(l) \in Nat /\ Len(l) < LINE_MAX
        /\ Displays(k, p \o l)
  BY <1>1, WaitsFacts
<1>3. LINE_MAX \in Nat /\ LINE_MAX > 1
  BY BoardOfCells
<1>4. CASE Len(l) > 0
  <2>1. Line' = SubSeq(l, 1, Len(l) - 1) /\ console' = S!ConsoleFlush(S!ConsolePutChar(k, "bs"))
    BY <1>2, <1>4 DEF S!EraseChar, S!Front
  <2>2. PICK new \in Seq(Glyphs) : /\ new = SubSeq(l, 1, Len(l) - 1) /\ Len(new) = Len(l) - 1
                                   /\ \A i \in 1..Len(new) : new[i] = l[i]
    <3>1. PICK n \in Nat : n = Len(l) - 1 /\ n + 1 = Len(l)
      BY <1>2, <1>4
    <3>2. \A i \in 1..n : l[i] \in Glyphs
      <4>1. \A i \in 1..n : i \in 1..Len(l)
        BY <3>1
      <4> QED BY <1>2, <4>1
    <3>3. PICK new : new = SubSeq(l, 1, n)
      BY ZenonT(40)
    <3>4. new \in Seq(Glyphs) /\ Len(new) = n /\ \A i \in 1..n : new[i] = l[i]
      BY <1>2, <3>1, <3>2, <3>3
    <3> QED BY ZenonT(40), <3>1, <3>3, <3>4
  <2>3. Displays(S!ConsoleFlush(S!ConsolePutChar(k, "bs")), p \o new)
    BY ZenonT(40), <1>2, <1>4, <2>2, EraseCharShows
  <2>4. new \in Texts
    BY <1>2, <1>3, <2>2 DEF Texts
  <2>5. ScreenInv'
    BY ZenonT(40), <1>1, <1>2, <2>1, <2>2, <2>3, NewScreen
  <2>6. ShellTypes'
    BY <1>1, <2>1, <2>2, <2>4, WaitsFacts DEF ShellTypes
  <2> QED BY <1>1, <2>5, <2>6, HistoryStays DEF ShellState
<1>5. CASE ~(Len(l) > 0)
  <2>1. Line' = l /\ console' = S!ConsoleFlush(k)
    BY <1>2, <1>5 DEF S!EraseChar
  <2>2. Displays(S!ConsoleFlush(k), p \o l)
    BY <1>2, FlushKeeps
  <2>3. ScreenInv'
    BY <1>1, <1>2, <2>1, <2>2, NewScreen
  <2>4. ShellTypes'
    BY <1>1, <1>2, <2>1, WaitsFacts DEF ShellTypes
  <2> QED BY <1>1, <2>3, <2>4, HistoryStays DEF ShellState
<1> QED BY <1>4, <1>5

LEMMA RecallKeeps ==
  ASSUME ShellState, S!Key, NEW pos \in 0..HistoryCount, S!HistoryTo(pos)
  PROVE  ShellState'
<1>1. /\ command = "none" /\ command' = command /\ prompt' = prompt /\ HistoryPos' = pos
      /\ UNCHANGED S!history /\ UNCHANGED entered /\ HistoryCount' = HistoryCount
  BY DEF S!HistoryTo, S!Key, S!history
<1>2. PICK k \in {console}, p \in Prompts, l \in Texts :
        k = console /\ p = prompt /\ l = Line /\ l \in Seq(Glyphs) /\ Len(l) \in Nat /\ Displays(k, p \o l)
  BY <1>1, WaitsFacts
<1>3. PICK text \in Texts : text = IF pos = 0 THEN << >> ELSE S!Recalled(pos)
  <2>1. pos # 0 => pos \in 1..HISTORY_SIZE
    BY WaitsFacts, BoardOfCells
  <2> QED BY <2>1, NoText, RecalledText
<1>4. text \in Seq(Glyphs) /\ Len(text) < LINE_MAX
  BY DEF Texts
<1>5. S!ReplaceInput(text)
  BY <1>3 DEF S!HistoryTo
<1>6. PICK erased : erased = S!ConsolePrint(k, [i \in 1..Len(l) |-> "bs"])
  OBVIOUS
<1>7. PICK n : n = S!ConsoleFlush(S!ConsolePrint(erased, text))
  OBVIOUS
<1>8. Line' = text /\ console' = n
  BY <1>2, <1>5, <1>6, <1>7 DEF S!ReplaceInput
<1>9. Displays(n, p \o text)
  BY <1>2, <1>4, <1>6, <1>7, ReplaceShows
<1>10. ScreenInv'
  BY <1>1, <1>2, <1>8, <1>9, NewScreen
<1>11. ShellTypes'
  BY <1>1, <1>8, WaitsFacts DEF ShellTypes
<1> QED BY <1>1, <1>10, <1>11, HistoryStays DEF ShellState

LEMMA StaysKeeps ==
  ASSUME ShellState, command = "none", command' = command, prompt' = prompt, HistoryPos' = HistoryPos,
         Line' = Line, UNCHANGED S!history, UNCHANGED entered, console' = S!ConsoleFlush(console)
  PROVE  ShellState'
<1>1. PICK k \in {console}, p \in Prompts, l \in Texts :
        k = console /\ p = prompt /\ l = Line /\ l \in Seq(Glyphs) /\ Displays(k, p \o l)
  BY WaitsFacts
<1>2. Displays(S!ConsoleFlush(k), p \o l)
  BY <1>1, FlushKeeps
<1>3. ScreenInv'
  BY <1>1, <1>2, NewScreen
<1>4. ShellTypes'
  BY WaitsFacts DEF ShellTypes, S!history
<1> QED BY <1>3, <1>4, HistoryStays DEF ShellState

LEMMA HistoryKeyKeeps ==
  ASSUME ShellState, S!HistoryUp \/ S!HistoryDown
  PROVE  ShellState'
<1>1. HistoryPos \in 0..HistoryCount /\ HistoryCount \in 0..HISTORY_SIZE /\ HISTORY_SIZE \in Nat
  BY WaitsFacts, BoardOfCells
<1>2. CASE S!HistoryUp /\ HistoryPos < HistoryCount
  <2>1. PICK pos \in 0..HistoryCount : pos = HistoryPos + 1
    BY <1>1, <1>2
  <2>2. S!Key /\ S!HistoryTo(pos)
    BY <1>2, <2>1 DEF S!HistoryUp
  <2> QED BY <2>2, RecallKeeps
<1>3. CASE S!HistoryDown /\ HistoryPos > 0
  <2>1. PICK pos \in 0..HistoryCount : pos = HistoryPos - 1
    BY <1>1, <1>3
  <2>2. S!Key /\ S!HistoryTo(pos)
    BY <1>3, <2>1 DEF S!HistoryDown
  <2> QED BY <2>2, RecallKeeps
<1>4. CASE S!HistoryUp /\ ~(HistoryPos < HistoryCount)
  BY <1>4, StaysKeeps DEF S!HistoryUp, S!Key
<1>5. CASE S!HistoryDown /\ ~(HistoryPos > 0)
  BY <1>5, StaysKeeps DEF S!HistoryDown, S!Key
<1> QED BY <1>2, <1>3, <1>4, <1>5

LEMMA EnterKeeps ==
  ASSUME ShellState, S!Enter
  PROVE  ShellState'
<1>1. PICK h \in {History}, n \in {HistoryNext}, c \in {HistoryCount}, e \in {entered}, line \in Texts :
        h = History /\ n = HistoryNext /\ c = HistoryCount /\ e = entered /\ line = Line /\ Remembers(h, n,
          c, e)
  BY WaitsFacts DEF ShellState
<1>2. PICK b \in Nat \ {0} : b = HISTORY_SIZE
  BY BoardOfCells
<1>3. /\ n \in 0..(b - 1) /\ c \in 0..b /\ e \in Seq(Texts) /\ c = IF Len(e) < b THEN Len(e) ELSE b
      /\ \A i \in 1..c : h[((n + b) - i) % b] = e[(Len(e) - i) + 1]
  BY <1>1, <1>2 DEF Remembers, S!Slots
<1>4. PICK l \in Nat : l = Len(e)
  BY <1>3
<1>5. c > 0 <=> e # << >>
  <2>1. e # << >> <=> l > 0
    BY <1>3, <1>4
  <2> QED BY <1>3, <1>4, <2>1
<1>6. c > 0 => S!Recalled(1) = S!Last(e)
  <2> SUFFICES ASSUME c > 0 PROVE S!Recalled(1) = S!Last(e)
    OBVIOUS
  <2>1. 1 \in 1..c /\ (Len(e) - 1) + 1 = Len(e)
    BY <1>3, <1>4
  <2>2. h[((n + b) - 1) % b] = e[Len(e)]
    BY ZenonT(40), <1>3, <2>1
  <2> QED BY <1>1, <1>2, <2>2 DEF S!Recalled, S!Last
<1>7. line = << >> <=> Len(line) = 0
  BY DEF Texts
<1>8. Remembers(History', HistoryNext', HistoryCount', entered')
  <2>1. S!HistoryAdd /\ entered' = S!Remember(line)
    BY <1>1 DEF S!Enter
  <2>2. CASE Len(line) = 0 \/ S!IsLast(line)
    <3>1. History' = h /\ HistoryNext' = n /\ HistoryCount' = c
      BY <1>1, <2>1, <2>2 DEF S!HistoryAdd, S!history
    <3>2. line = << >> \/ (e # << >> /\ S!Last(e) = line)
      BY <1>1, <1>5, <1>6, <1>7, <2>2 DEF S!IsLast
    <3>3. entered' = e
      BY <1>1, <2>1, <3>2 DEF S!Remember
    <3> QED BY <1>1, <3>1, <3>3
  <2>3. CASE ~(Len(line) = 0 \/ S!IsLast(line))
    <3>1. /\ History' = [h EXCEPT ![n] = line] /\ HistoryNext' = (n + 1) % HISTORY_SIZE
          /\ HistoryCount' = IF c < HISTORY_SIZE THEN c + 1 ELSE c
      BY <1>1, <2>1, <2>3 DEF S!HistoryAdd
    <3>2. ~(line = << >> \/ (e # << >> /\ S!Last(e) = line))
      BY <1>1, <1>5, <1>6, <1>7, <2>3 DEF S!IsLast
    <3>3. entered' = Append(e, line)
      BY <1>1, <2>1, <3>2 DEF S!Remember
    <3>4. Remembers([h EXCEPT ![n] = line], (n + 1) % HISTORY_SIZE,
                    IF c < HISTORY_SIZE THEN c + 1 ELSE c, Append(e, line))
      BY <1>1, HistoryGrows
    <3> QED BY <3>1, <3>3, <3>4
  <2> QED BY <2>2, <2>3
<1>9. Line' = << >> /\ HistoryPos' = 0 /\ command = "none"
  BY DEF S!Enter, S!Key
<1>10. HistoryPos' \in 0..HistoryCount'
  BY <1>2, <1>8, <1>9 DEF Remembers
<1>11. PICK k : k = S!ConsolePutChar(console, "nl") /\ Tidy(k)
  <2>1. PICK o : o = console /\ Tidy(o)
    BY WaitsFacts
  <2>2. S!ConsolePutChar(o, "nl") = S!NewLine(o) /\ Tidy(S!NewLine(o))
    BY <2>1, PutCharOf, NewLineTidy
  <2> QED BY <2>1, <2>2
<1>12. CASE S!NoArguments(Line)
  <2>1. S!NextPrompt(k) /\ command' = command
    BY <1>11, <1>12 DEF S!Enter
  <2>2. PICK p \in Prompts : p = prompt' /\ console' = S!Prompted(k, p)
    BY <2>1 DEF S!NextPrompt
  <2>3. Displays(S!Prompted(k, p), p \o << >>)
    BY <1>11, PromptShows
  <2>4. ScreenInv'
    BY ZenonT(40), <1>9, <2>2, <2>3, NewScreen
  <2>5. ShellTypes'
    BY <1>9, <1>10, <2>1, <2>2, NoText DEF ShellTypes
  <2> QED BY <1>8, <2>4, <2>5 DEF ShellState
<1>13. CASE ~S!NoArguments(Line)
  <2>1. command' = "running" /\ console' = k /\ prompt' = prompt
    BY <1>11, <1>13 DEF S!Enter
  <2>2. ScreenInv'
    BY <1>11, <2>1 DEF ScreenInv
  <2>3. ShellTypes'
    BY <1>9, <1>10, <2>1, NoText, WaitsFacts DEF ShellTypes
  <2> QED BY <1>8, <2>2, <2>3 DEF ShellState
<1> QED BY <1>12, <1>13

LEMMA CommandKeeps ==
  ASSUME ShellState, S!Command
  PROVE  ShellState'
<1>1. PICK k : k = console /\ Tidy(k)
  BY WaitsFacts
<1>2. ASSUME command # "none", Tidy(console'), command' \in {"running", "tab"}, S!CommandStays
      PROVE  ShellState'
  <2>1. ScreenInv'
    BY <1>2 DEF ScreenInv
  <2>2. ShellTypes'
    BY <1>2, WaitsFacts DEF ShellState, ShellTypes, S!CommandStays, S!history
  <2>3. UNCHANGED S!history /\ UNCHANGED entered
    BY <1>2 DEF S!CommandStays
  <2> QED BY <2>1, <2>2, <2>3, HistoryStays DEF ShellState
<1>3. CASE S!Redraws
  <2>1. command # "none" /\ command' = "running" /\ S!CommandStays
    BY <1>3 DEF S!Redraws
  <2>2. k \in S!ConsoleType /\ Free(k)
    BY <1>1 DEF Tidy
  <2>3. Tidy(console')
    <3>1. CASE console' = S!ConsoleClear(k)
      BY <2>2, <3>1, ClearTidy
    <3>2. CASE console' = S!ConsoleFlush(k)
      BY <1>1, <3>2, FlushTidy
    <3>3. CASE console' = S!ConsoleRefresh(S!FillScreen(k, S!Foreign))
      <4>1. PICK f : f = S!FillScreen(k, S!Foreign)
        OBVIOUS
      <4>2. f \in S!ConsoleType /\ f.cells = k.cells /\ f.row = k.row /\ f.col = k.col
        BY <2>2, <4>1, FillTidy
      <4>3. Free(f)
        BY <2>2, <4>2 DEF Free, Pos, CellAt
      <4> QED BY <3>3, <4>1, <4>2, <4>3, RefreshTidy
    <3> QED BY <1>1, <1>3, <3>1, <3>2, <3>3 DEF S!Redraws
  <2> QED BY <1>2, <2>1, <2>3
<1>4. CASE S!Tab
  <2>1. command # "none" /\ command' \in {"running", "tab"} /\ S!CommandStays
    BY <1>4 DEF S!Tab
  <2>2. console' = k \/ console' = S!ConsolePutChar(k, "space")
    BY <1>1, <1>4 DEF S!Tab, S!TabStep
  <2>3. Tidy(S!ConsolePutChar(k, "space"))
    <3>1. PICK c \in Glyphs : c = "space"
      BY BoardOfCells
    <3> QED BY <1>1, <3>1, PutCharOf, PutShows
  <2> QED BY <1>1, <1>2, <2>1, <2>2, <2>3
<1>5. ASSUME NEW c \in Printable, S!Prints(c) PROVE ShellState'
  <2>1. command # "none" /\ command' \in {"running", "tab"} /\ S!CommandStays
    BY <1>5 DEF S!Prints
  <2>2. CASE c = "tab"
    <3>1. console' = k
      BY <1>1, <1>5, <2>2 DEF S!Prints
    <3> QED BY <1>1, <1>2, <2>1, <3>1
  <2>3. CASE c # "tab"
    <3>1. console' = S!ConsolePutChar(k, c)
      BY <1>1, <1>5, <2>3 DEF S!Prints
    <3>2. c = "nl" \/ c \in Glyphs
      BY <2>3, BoardOfCells
    <3>3. c = "nl" => Tidy(S!ConsolePutChar(k, c))
      BY <1>1, PutCharOf, NewLineTidy
    <3>4. c \in Glyphs => Tidy(S!ConsolePutChar(k, c))
      BY ZenonT(40), <1>1, PutCharOf, PutShows
    <3> QED BY <1>2, <2>1, <3>1, <3>2, <3>3, <3>4
  <2> QED BY <2>2, <2>3
<1>6. CASE S!CommandReturns
  <2>1. command' = "none" /\ S!NextPrompt(k) /\ Line' = Line /\ HistoryPos' = HistoryPos
        /\ UNCHANGED S!history /\ UNCHANGED entered
    BY <1>1, <1>6 DEF S!CommandReturns
  <2>2. PICK p \in Prompts : p = prompt' /\ console' = S!Prompted(k, p)
    BY <2>1 DEF S!NextPrompt
  <2>3. Displays(S!Prompted(k, p), p \o << >>)
    BY <1>1, PromptShows
  <2>4. Line' = << >>
    BY <1>6, <2>1 DEF ShellState, ShellTypes, S!CommandReturns
  <2>5. ScreenInv'
    BY ZenonT(40), <2>2, <2>3, <2>4, NewScreen
  <2>6. ShellTypes'
    BY <2>1, <2>2, <2>4, NoText, WaitsFacts DEF ShellTypes, S!history
  <2> QED BY <2>1, <2>5, <2>6, HistoryStays DEF ShellState
<1> QED BY <1>3, <1>4, <1>5, <1>6 DEF S!Command

LEMMA ShellSteps ==
  ASSUME ShellState, S!Next
  PROVE  ShellState'
<1>1. CASE \E c \in Glyphs : S!TypeChar(c)
  BY <1>1, TypeCharKeeps
<1>2. CASE S!EraseChar
  BY <1>2, EraseCharKeeps
<1>3. CASE S!HistoryUp \/ S!HistoryDown
  BY <1>3, HistoryKeyKeeps
<1>4. CASE S!Enter
  BY <1>4, EnterKeeps
<1>5. CASE S!Command
  BY <1>5, CommandKeeps
<1> QED BY <1>1, <1>2, <1>3, <1>4, <1>5 DEF S!Next

LEMMA ShellStutters ==
  ASSUME ShellState, UNCHANGED shell
  PROVE  ShellState'
<1>1. /\ console' = console /\ Line' = Line /\ History' = History /\ HistoryNext' = HistoryNext
      /\ HistoryCount' = HistoryCount /\ HistoryPos' = HistoryPos /\ command' = command
      /\ prompt' = prompt /\ entered' = entered
  BY DEF shell
<1>2. ShellTypes'
  BY <1>1 DEF ShellState, ShellTypes
<1>3. ScreenInv'
  BY <1>1 DEF ShellState, ScreenInv
<1>4. Remembers(History, HistoryNext, HistoryCount, entered)'
  BY <1>1 DEF ShellState
<1> QED BY <1>2, <1>3, <1>4 DEF ShellState

LEMMA ShellInvariant == InputSpec => []ShellInv
<1>1. InputInit => ShellInv
  BY ShellStarts DEF InputInit, ShellInv
<1>2. ShellInv /\ [InputNext]_all => ShellInv'
  <2> SUFFICES ASSUME ShellInv, [InputNext]_all, part' = "shell" PROVE ShellState'
    BY DEF ShellInv
  <2>1. part = "shell"
    BY DEF InputNext, RingOnly, KeyboardOnly, MouseOnly, ShellOnly, all
  <2>2. ShellState
    BY <2>1 DEF ShellInv
  <2>3. S!Next \/ UNCHANGED shell
    BY DEF InputNext, RingOnly, KeyboardOnly, MouseOnly, ShellOnly, all
  <2> QED BY <2>2, <2>3, ShellSteps, ShellStutters
<1> QED BY <1>1, <1>2, PTL DEF InputSpec

(* What Enter executes is what the screen shows, with nothing after it,   *)
(* however the line was typed, erased, recalled or scrolled; the rows that *)
(* ConsoleFlush leaves out are drawn already; and the up key recalls what  *)
(* was entered, in order.                                                  *)
THEOREM ShellCorrect == InputSpec => []ShellRight
<1>1. ShellInv => ShellRight
  BY ShownIsRight DEF ShellInv, ShellRight
<1> QED BY <1>1, ShellInvariant, PTL

(* The variables keep their types in every part, the ring and the flags of *)
(* the keyboard among them: the cursor stays on the screen, the indices in *)
(* their arrays, the line shorter than its buffer.                         *)
THEOREM InputSound == InputSpec => []StateSound
<1>1. IInv /\ MouseInv /\ KeyInv /\ ShellInv => StateSound
  <2> SUFFICES ASSUME IInv, MouseInv, KeyInv, ShellInv PROVE StateSound
    OBVIOUS
  <2>1. TypeOK /\ RingSound
    BY DEF IInv
  <2>2. K!TypeOK /\ K!NoStuckModifier
    BY KeyInvRight
  <2>3. M!TypeOK
    BY DEF MouseInv, MotionInv
  <2>4. part = "shell" => S!TypeOK
    BY ShownIsRight DEF ShellInv
  <2> QED BY <2>1, <2>2, <2>3, <2>4 DEF StateSound
<1> QED BY <1>1, SpecInv, RingPart, MouseAlways, KeyAlways, ShellInvariant, PTL
==============================================================================
