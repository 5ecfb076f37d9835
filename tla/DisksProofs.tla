------------------------------ MODULE DisksProofs -----------------------------
(***************************************************************************)
(* The disks, for every value of the constants.  The completion queue of   *)
(* nvme.c: the phase bit alone tells new entries from old ones, and the    *)
(* status belongs to its command as long as the driver never gives up.     *)
(* The port of ahci.c: a read that reports success has its sectors.  The   *)
(* walk of part.c: partitions have different numbers.  And the list of     *)
(* entries that fat32.c makes of the pieces of a folder.                   *)
(***************************************************************************)
EXTENDS MCDisks, SequenceTheorems, WellFoundedInduction, TLAPS

(* Where the two ends of the completion queue stand: on the same lap, or   *)
(* the controller on the next one; and the phases of the entries.          *)
Ends ==
  /\ consumed <= posted /\ posted - consumed < QueueDepth
  /\ CqDoorbell = IoCqHead
  /\ \/ CqPhase = IoPhase /\ CqTail = IoCqHead + (posted - consumed)
     \/ CqPhase = 1 - IoPhase /\ CqTail + QueueDepth = IoCqHead + (posted - consumed)

Phases ==
  \A s \in Slots : IoCq[s].phase = IF s < CqTail THEN CqPhase ELSE 1 - CqPhase

QueueInv == TypeOK /\ Ends /\ Phases

LEMMA AfterIs ==
  ASSUME NEW s \in Slots
  PROVE  /\ After(s) \in Slots
         /\ s + 1 < QueueDepth => After(s) = s + 1
         /\ s + 1 = QueueDepth => After(s) = 0
<1>1. QueueDepth \in Nat \ {0, 1} /\ s \in Nat /\ s < QueueDepth
  BY NvmeConstants DEF Slots
<1>2. CASE s + 1 < QueueDepth
  <2>1. (s + 1) % QueueDepth = s + 1
    BY <1>1, <1>2
  <2> QED BY <1>1, <1>2, <2>1 DEF After, Slots
<1>3. CASE s + 1 = QueueDepth
  <2>1. (s + 1) % QueueDepth = 0
    BY <1>1, <1>3
  <2> QED BY <1>1, <1>3, <2>1 DEF After, Slots
<1> QED BY <1>1, <1>2, <1>3

LEMMA InitQueue == Init => QueueInv
<1> SUFFICES ASSUME Init PROVE QueueInv
  OBVIOUS
<1>1. 0 \in Slots /\ QueueDepth \in Nat \ {0, 1} /\ MaxCommands \in Nat
  BY NvmeConstants DEF Slots
<1>0. gaveUp \in BOOLEAN
  BY Zenon DEF Init
<1>2. TypeOK
  BY <1>0, <1>1 DEF Init, TypeOK
<1>3. Ends
  BY <1>1 DEF Init, Ends
<1>4. Phases
  BY DEF Init, Phases, Slots
<1> QED BY <1>2, <1>3, <1>4 DEF QueueInv

LEMMA SubmitQueue == QueueInv /\ Submit => QueueInv'
<1> SUFFICES ASSUME QueueInv, Submit PROVE QueueInv'
  OBVIOUS
<1> USE DEF Submit, completions, controller
<1>1. Commands' \in 0..MaxCommands /\ IoSqTail' \in Slots
  BY AfterIs, NvmeConstants DEF QueueInv, TypeOK
<1>2. TypeOK'
  BY <1>1 DEF QueueInv, TypeOK
<1>3. Ends' /\ Phases'
  BY DEF QueueInv, Ends, Phases
<1> QED BY <1>2, <1>3 DEF QueueInv

(* What a matching phase says. *)
LEMMA PhaseIsNew == QueueInv => PhaseTellsNew
<1> SUFFICES ASSUME QueueInv PROVE PhaseTellsNew
  OBVIOUS
<1>1. /\ QueueDepth \in Nat /\ IoCqHead \in Slots /\ IoCqHead \in Nat
          /\ IoCqHead < QueueDepth
      /\ CqTail \in Nat /\ consumed \in Nat /\ posted \in Nat
      /\ IoPhase \in {0, 1} /\ CqPhase \in {0, 1}
  BY NvmeConstants DEF QueueInv, TypeOK, Slots
<1>2. IoCq[IoCqHead].phase = IF IoCqHead < CqTail THEN CqPhase ELSE 1 - CqPhase
  BY <1>1 DEF QueueInv, Phases
<1>3. CASE CqPhase = IoPhase /\ CqTail = IoCqHead + (posted - consumed)
  BY <1>1, <1>2, <1>3 DEF QueueInv, Ends, PhaseTellsNew, HasAnswer
<1>4. CASE CqPhase = 1 - IoPhase /\ CqTail + QueueDepth = IoCqHead + (posted - consumed)
  BY <1>1, <1>2, <1>4 DEF QueueInv, Ends, PhaseTellsNew, HasAnswer
<1> QED BY <1>3, <1>4 DEF QueueInv, Ends

LEMMA AnswerQueue == QueueInv /\ Answer => QueueInv'
<1> SUFFICES ASSUME QueueInv, Answer PROVE QueueInv'
  OBVIOUS
<1> USE DEF Answer, controller
<1>1. /\ QueueDepth \in Nat /\ IoCqHead \in Slots /\ IoCqHead \in Nat
          /\ IoCqHead < QueueDepth
      /\ CqTail \in Nat /\ consumed \in Nat /\ posted \in Nat /\ QueueDepth > 1
      /\ CqTail < QueueDepth /\ IoPhase \in {0, 1} /\ CqPhase \in {0, 1}
  BY NvmeConstants DEF QueueInv, TypeOK, Slots
<1>2. consumed < posted
  BY PhaseIsNew DEF PhaseTellsNew
<1>3. IoCqHead' \in Slots /\ IoPhase' \in {0, 1}
  BY <1>1, AfterIs
<1>4. TypeOK'
  BY <1>1, <1>3 DEF QueueInv, TypeOK
<1>5. Ends'
  <2>1. consumed' <= posted' /\ posted' - consumed' < QueueDepth
    BY <1>1, <1>2 DEF QueueInv, Ends
  <2>2. CASE IoCqHead + 1 < QueueDepth
    <3>1. IoCqHead' = IoCqHead + 1 /\ IoPhase' = IoPhase
      BY <1>1, <2>2, AfterIs
    <3> QED BY <1>1, <2>1, <3>1 DEF QueueInv, Ends
  <2>3. CASE IoCqHead + 1 = QueueDepth
    <3>1. IoCqHead' = 0 /\ IoPhase' = 1 - IoPhase
      BY <1>1, <2>3, AfterIs
    <3> QED BY <1>1, <1>2, <2>1, <2>3, <3>1 DEF QueueInv, Ends
  <2> QED BY <1>1, <2>2, <2>3
<1>6. Phases'
  BY DEF QueueInv, Phases
<1> QED BY <1>4, <1>5, <1>6 DEF QueueInv

LEMMA CompleteQueue ==
  ASSUME QueueInv, NEW c, NEW ok \in BOOLEAN, Complete(c, ok)
  PROVE  QueueInv'
<1> USE DEF Complete, driver, completions
<1>1. /\ QueueDepth \in Nat /\ IoCqHead \in Nat /\ IoCqHead < QueueDepth
      /\ CqTail \in Slots /\ CqTail \in Nat /\ CqTail < QueueDepth
      /\ consumed \in Nat /\ posted \in Nat /\ QueueDepth > 1
      /\ IoPhase \in {0, 1} /\ CqPhase \in {0, 1} /\ c \in 0..MaxCommands
  BY NvmeConstants DEF QueueInv, TypeOK, Slots
<1>2. CqTail' \in Slots /\ CqPhase' \in {0, 1}
  BY <1>1, AfterIs
<1>3. TypeOK'
  BY <1>1, <1>2 DEF QueueInv, TypeOK
<1>4. \A s \in Slots : IoCq'[s].phase = IF s = CqTail THEN CqPhase ELSE IoCq[s].phase
  BY <1>1 DEF QueueInv, TypeOK
<1>5. CASE CqTail + 1 < QueueDepth
  <2>1. CqTail' = CqTail + 1 /\ CqPhase' = CqPhase
    BY <1>1, <1>5, AfterIs
  <2>2. Ends'
    BY <1>1, <1>5, <2>1 DEF QueueInv, Ends
  <2>3. Phases'
    <3> SUFFICES ASSUME NEW s \in Slots
                 PROVE  IoCq'[s].phase = IF s < CqTail + 1 THEN CqPhase ELSE 1 - CqPhase
      BY <2>1 DEF Phases
    <3>1. s \in Nat /\ IoCq[s].phase = IF s < CqTail THEN CqPhase ELSE 1 - CqPhase
      BY DEF QueueInv, Phases, Slots
    <3> QED BY <1>1, <1>4, <3>1
  <2> QED BY <1>3, <2>2, <2>3 DEF QueueInv
<1>6. CASE CqTail + 1 = QueueDepth
  <2>1. CqTail' = 0 /\ CqPhase' = 1 - CqPhase
    BY <1>1, <1>6, AfterIs
  <2>2. Ends'
    BY <1>1, <1>6, <2>1 DEF QueueInv, Ends
  <2>3. Phases'
    <3> SUFFICES ASSUME NEW s \in Slots
                 PROVE  IoCq'[s].phase = CqPhase
      BY <1>1, <2>1 DEF Phases, Slots
    <3>1. /\ s \in Nat /\ s < QueueDepth
          /\ IoCq[s].phase = IF s < CqTail THEN CqPhase ELSE 1 - CqPhase
      BY <1>1 DEF QueueInv, Phases, Slots
    <3> QED BY <1>1, <1>4, <1>6, <3>1
  <2> QED BY <1>3, <2>2, <2>3 DEF QueueInv
<1> QED BY <1>1, <1>5, <1>6

LEMMA OthersQueue == QueueInv /\ (TimeOut \/ Fetch \/ UNCHANGED vars) => QueueInv'
<1> SUFFICES ASSUME QueueInv, TimeOut \/ Fetch \/ UNCHANGED vars PROVE QueueInv'
  OBVIOUS
<1> USE DEF TimeOut, Fetch, vars, driver, completions, controller
<1>1. Ends' /\ Phases'
  BY DEF QueueInv, Ends, Phases
<1>2. CASE TimeOut
  BY <1>1, <1>2, NvmeConstants DEF QueueInv, TypeOK
<1>3. CASE Fetch
  <2>1. SqHead' \in Slots /\ IoSq[SqHead] \in 0..MaxCommands
    BY <1>3, AfterIs DEF QueueInv, TypeOK
  <2> QED BY ZenonT(40), <1>1, <1>3, <2>1 DEF QueueInv, TypeOK
<1>4. CASE UNCHANGED vars
  BY <1>1, <1>4 DEF QueueInv, TypeOK
<1> QED BY ZenonT(40), <1>2, <1>3, <1>4

LEMMA StepQueue == QueueInv /\ [Next]_vars => QueueInv'
BY SubmitQueue, AnswerQueue, CompleteQueue, OthersQueue DEF Next, SubmitIoCommand, Controller

LEMMA SpecQueue == Spec => []QueueInv
BY InitQueue, StepQueue, PTL DEF Spec

(* Every variable keeps its type.                                          *)
THEOREM TypeCorrect == Spec => []TypeOK
<1>1. QueueInv => TypeOK
  BY DEF QueueInv
<1> QED BY <1>1, SpecQueue, PTL

(* SubmitIoCommand takes every completion once, and nothing else for one:  *)
(* the phase of the entry at the head tells, for every depth and however   *)
(* often the driver gives up.                                              *)
THEOREM PhaseCorrect == Spec => []PhaseTellsNew
BY PhaseIsNew, SpecQueue, PTL

------------------------------------------------------------------------------
(* As long as none was given up, the one command is waiting to be fetched, *)
(* being executed, or answered.                                            *)
Outstanding ==
  /\ IoSqTail = SqDoorbell
  /\ pc = "idle" =>
       /\ SqHead = SqDoorbell /\ Executing = {} /\ posted = consumed
       /\ ret.from = ret.cmd /\ (ret.ok => ret.cmd \in Delivered)
  /\ pc = "wait" =>
       \/ /\ SqDoorbell = After(SqHead) /\ IoSq[SqHead] = Commands
          /\ Executing = {} /\ posted = consumed
       \/ SqHead = SqDoorbell /\ Executing = {Commands} /\ posted = consumed
       \/ /\ SqHead = SqDoorbell /\ Executing = {} /\ posted = consumed + 1
          /\ IoCq[IoCqHead].cmd = Commands
          /\ IoCq[IoCqHead].ok => Commands \in Delivered

(* Slots that follow each other differ. *)
LEMMA AfterDiffers == \A s \in Slots : After(s) # s
<1> SUFFICES ASSUME NEW s \in Slots PROVE After(s) # s
  OBVIOUS
<1>1. QueueDepth \in Nat \ {0, 1} /\ s \in Nat /\ (s + 1 < QueueDepth \/ s + 1 = QueueDepth)
  BY NvmeConstants DEF Slots
<1> QED BY <1>1, AfterIs

LEMMA StepOutstanding ==
  QueueInv /\ (~gaveUp => Outstanding) /\ [Next]_vars => (~gaveUp => Outstanding)'
<1> SUFFICES ASSUME QueueInv, ~gaveUp => Outstanding, [Next]_vars, ~gaveUp'
             PROVE  Outstanding'
  OBVIOUS
<1>0. ~gaveUp /\ Outstanding
  BY DEF Next, SubmitIoCommand, Controller, Submit, Answer, TimeOut, Fetch, Complete, vars
<1> USE <1>0 DEF driver, completions, controller
<1>1. /\ posted \in Nat /\ consumed \in Nat /\ SqHead \in Slots /\ SqDoorbell \in Slots
      /\ IoSq \in [Slots -> 0..MaxCommands] /\ IoSqTail \in Slots /\ pc \in {"idle", "wait"}
      /\ IoCqHead \in Slots /\ CqTail \in Slots
      /\ IoCq \in [Slots -> [cmd : 0..MaxCommands, ok : BOOLEAN, phase : {0, 1}]]
  BY DEF QueueInv, TypeOK
<1>2. CASE Submit
  BY <1>1, <1>2 DEF Submit, Outstanding
<1>3. CASE Answer
  <2>1. /\ posted = consumed + 1 /\ SqHead = SqDoorbell /\ Executing = {}
        /\ IoCq[IoCqHead].cmd = Commands /\ (IoCq[IoCqHead].ok => Commands \in Delivered)
    BY <1>1, <1>3, PhaseIsNew DEF Answer, Outstanding, PhaseTellsNew
  <2> QED BY <1>1, <1>3, <2>1 DEF Answer, Outstanding
<1>4. CASE TimeOut
  BY <1>4 DEF TimeOut
<1>5. CASE Fetch
  BY <1>1, <1>5, AfterDiffers DEF Fetch, Outstanding
<1>6. ASSUME NEW c \in Executing, NEW ok \in BOOLEAN, Complete(c, ok) PROVE Outstanding'
  <2>1. pc = "wait" /\ c = Commands /\ Executing = {Commands} /\ SqHead = SqDoorbell
          /\ posted = consumed
    BY <1>1, <1>6, AfterDiffers DEF Outstanding
  <2>2. CqTail = IoCqHead
    <3>1. QueueDepth \in Nat /\ IoCqHead \in Nat /\ IoCqHead < QueueDepth /\ CqTail \in Nat
      BY <1>1, NvmeConstants DEF Slots
    <3>2. \/ CqTail = IoCqHead + (posted - consumed)
          \/ CqTail + QueueDepth = IoCqHead + (posted - consumed)
      BY DEF QueueInv, Ends
    <3> QED BY <1>1, <2>1, <3>1, <3>2
  <2>3. IoCq'[IoCqHead].cmd = Commands /\ (IoCq'[IoCqHead].ok => Commands \in Delivered')
    BY <1>1, <1>6, <2>1, <2>2 DEF Complete
  <2> QED BY <1>1, <1>6, <2>1, <2>3 DEF Complete, Outstanding
<1>7. CASE UNCHANGED vars
  BY <1>7 DEF vars, Outstanding
<1> QED BY <1>2, <1>3, <1>4, <1>5, <1>6, <1>7 DEF Next, SubmitIoCommand, Controller

LEMMA SpecOutstanding == Spec => [](~gaveUp => Outstanding)
<1>1. Init => Outstanding
  BY DEF Init, Outstanding
<1> QED BY <1>1, StepOutstanding, SpecQueue, PTL DEF Spec

(* As long as SubmitIoCommand has not given up a command, the status it    *)
(* returns is that of the command it is returned for.                      *)
THEOREM AnswersCorrect == Spec => []AnswersItself
<1>1. (~gaveUp => Outstanding) => AnswersItself
  BY DEF Outstanding, AnswersItself
<1> QED BY <1>1, SpecOutstanding, PTL

(* And a read that reports success has its data.                           *)
THEOREM DataCorrect == Spec => []SuccessHasData
<1>1. (~gaveUp => Outstanding) => SuccessHasData
  BY DEF Outstanding, SuccessHasData
<1> QED BY <1>1, SpecOutstanding, PTL

------------------------------------------------------------------------------
(* The SATA disk: whatever is in the buffer when a read succeeds was put   *)
(* there for the command in the table, which is the one asked for.         *)
AhciInv ==
  /\ A!TypeOK
  /\ ahciPc \in {"stop", "start"} => ahciI \in Linked
  /\ ahciPc \in {"scan", "stop", "start", "none"} => ahciRet = "none"
  /\ Busy => Ci
  /\ ahciPc \in {"idle", "ready", "wait", "check"} => Started
  /\ ahciPc \in {"wait", "check"} => Table = asked /\ (~Ci => Buffer = asked)
  /\ ahciPc = "idle" /\ ahciRet = "ok" => Buffer = asked /\ ~Ci

LEMMA InitAhci == A!Init => AhciInv
<1> SUFFICES ASSUME A!Init PROVE AhciInv
  OBVIOUS
<1>1. PortCount \in Nat /\ 0 \in 0..PortCount
  BY SataConstants DEF A!AhciConstants
<1>2. /\ Started \in BOOLEAN /\ Running \in BOOLEAN /\ Halted \in BOOLEAN
      /\ Ci \in BOOLEAN /\ Tfes \in BOOLEAN
  BY Zenon DEF A!Init
<1> QED BY ZenonT(40), <1>1, <1>2 DEF A!Init, AhciInv, A!TypeOK

LEMMA AhciInitAhci == AhciInv /\ A!AhciInit => AhciInv'
<1> SUFFICES ASSUME AhciInv, A!AhciInit PROVE AhciInv'
  OBVIOUS
<1> USE DEF AhciInv, A!TypeOK, A!port
<1>1. PortCount \in Nat
  BY SataConstants DEF A!AhciConstants
<1>2. CASE A!ScanPort
  BY <1>1, <1>2 DEF A!ScanPort
<1>3. CASE A!StopCommandEngine
  BY ZenonT(40), <1>3 DEF A!StopCommandEngine
<1>4. CASE A!StartCommandEngine
  <2>1. ahciI \in 0..(PortCount - 1)
    BY <1>4 DEF A!StartCommandEngine
  <2> QED BY <1>4, <2>1 DEF A!StartCommandEngine
<1>5. CASE A!NoPage
  BY <1>5 DEF A!NoPage
<1> QED BY <1>2, <1>3, <1>4, <1>5 DEF A!AhciInit

LEMMA ReadAhci == AhciInv /\ A!AhciReadSectors => AhciInv'
<1> SUFFICES ASSUME AhciInv, A!AhciReadSectors PROVE AhciInv'
  OBVIOUS
<1> USE DEF AhciInv, A!TypeOK, A!port
<1>1. ASSUME NEW lba \in Lbas, A!ReadCall(lba) PROVE AhciInv'
  BY <1>1 DEF A!ReadCall
<1>2. CASE A!Issue
  BY ZenonT(40), <1>2 DEF A!Issue
<1>3. CASE A!TestIssued
  BY <1>3 DEF A!TestIssued
<1>4. CASE A!TestError
  BY <1>4 DEF A!TestError
<1> QED BY <1>1, <1>2, <1>3, <1>4 DEF A!AhciReadSectors

LEMMA DiskAhci == AhciInv /\ A!Disk => AhciInv'
<1> SUFFICES ASSUME AhciInv, A!Disk PROVE AhciInv'
  OBVIOUS
<1> USE DEF AhciInv, A!TypeOK, A!driver
<1>1. CASE A!EngineFollows
  BY <1>1 DEF A!EngineFollows
<1>2. CASE A!TakeCommand
  BY <1>2 DEF A!TakeCommand
<1>3. CASE A!Succeed
  BY ZenonT(120), <1>3 DEF A!Succeed
<1>4. CASE A!Fail
  BY ZenonT(40), <1>4 DEF A!Fail
<1> QED BY <1>1, <1>2, <1>3, <1>4 DEF A!Disk

LEMMA StepAhci == AhciInv /\ (A!Next \/ UNCHANGED ahci) => AhciInv'
<1>1. AhciInv /\ UNCHANGED ahci => AhciInv'
  BY DEF AhciInv, A!TypeOK, ahci
<1> QED BY <1>1, AhciInitAhci, ReadAhci, DiskAhci DEF A!Next

------------------------------------------------------------------------------
(* The partitions: the numbers given so far lie below the one that is to   *)
(* be given next, among the primaries and among the logical ones.          *)
Distinct == \A j, k \in 1..Len(Parts) : Parts[j].number = Parts[k].number => j = k

ScanInv ==
  /\ \E S : Parts \in Seq(S)
  /\ P!TypeOK /\ Distinct
  /\ disk \in Disks /\ Room \in Nat
  /\ i \in Nat /\ n \in Nat /\ Logical \in Nat /\ Index \in Nat
  /\ ~Scanned => scanPc = "idle"
  /\ ~Scanned \/ scanPc = "gpt" => Parts = << >> /\ Index = 0
  /\ scanPc = "entries" => \A k \in 1..Len(Parts) : Parts[k].number \in 1..Index
  /\ scanPc \in {"mbr", "ebr"} =>
       \A k \in 1..Len(Parts) : Parts[k].number \in 1..(i - 1) \cup 5..(Logical - 1)
  /\ scanPc = "ebr" => i <= 4

(* The list with one more partition, of this number. *)
Longer(m) ==
  /\ \E S : Parts' \in Seq(S)
  /\ Distinct' /\ Len(Parts') <= Room /\ Found' = Len(Parts')
  /\ \A k \in 1..Len(Parts') : Parts'[k].number = m \/ (k \in 1..Len(Parts)
      /\ Parts'[k] = Parts[k])

LEMMA AddIsLonger ==
  ASSUME ScanInv, P!HasRoom, NEW m \in Nat, NEW start, NEW count, NEW scheme,
         P!AddPart(m, start, count, scheme),
         \A k \in 1..Len(Parts) : Parts[k].number # m
  PROVE  Longer(m)
<1>1. PICK S : Parts \in Seq(S)
  BY DEF ScanInv
<1>2. PICK p : p = P!Part(m, start, count, scheme) /\ p.number = m
  <2>1. P!Part(m, start, count, scheme).number = m
    BY DEF P!Part
  <2> QED BY <2>1
<1>3. PICK T : T = S \cup {p}
  BY ZenonT(40)
<1>4. Parts \in Seq(T) /\ p \in T
  BY <1>1, <1>3
<1>5. Parts' = Append(Parts, p) /\ Found' = Found + 1
  BY <1>2 DEF P!AddPart
<1>6. /\ Parts' \in Seq(T) /\ Len(Parts') = Len(Parts) + 1
      /\ Parts'[Len(Parts) + 1] = p
      /\ \A k \in 1..Len(Parts) : Parts'[k] = Parts[k]
  BY <1>4, <1>5, AppendProperties
<1>7. Len(Parts) \in Nat
  BY <1>1
<1>8. Len(Parts') <= Room /\ Found' = Len(Parts')
  BY <1>5, <1>6, <1>7 DEF P!HasRoom, ScanInv, P!TypeOK
<1>9. \A k \in 1..Len(Parts') : k \in 1..Len(Parts) \/ k = Len(Parts) + 1
  BY <1>6, <1>7
<1>10. Distinct'
  <2> SUFFICES ASSUME NEW j \in 1..Len(Parts'), NEW k \in 1..Len(Parts'),
                      Parts'[j].number = Parts'[k].number
               PROVE  j = k
    BY DEF Distinct
  <2>1. CASE j \in 1..Len(Parts) /\ k \in 1..Len(Parts)
    BY <1>6, <2>1 DEF ScanInv, Distinct
  <2>2. CASE j = Len(Parts) + 1 /\ k \in 1..Len(Parts)
    BY <1>2, <1>6, <2>2
  <2>3. CASE k = Len(Parts) + 1 /\ j \in 1..Len(Parts)
    BY <1>2, <1>6, <2>3
  <2> QED BY <1>9, <2>1, <2>2, <2>3
<1> QED BY <1>2, <1>6, <1>8, <1>9, <1>10 DEF Longer

LEMMA InitScan == P!Init => ScanInv
<1> SUFFICES ASSUME P!Init PROVE ScanInv
  OBVIOUS
<1>1. Parts = << >> /\ Parts \in Seq({}) /\ Len(Parts) = 0
  BY DEF P!Init
<1>2. Room \in Nat /\ MAX_EBR_CHAIN \in Nat \ {0} /\ disk \in Disks
  BY TableConstants DEF P!Init, P!PartConstants
<1>3. P!TypeOK
  <2>1. 0 <= Room /\ 0 < MAX_EBR_CHAIN /\ -1 >= -1 /\ 0 \in 0..2 /\ 1 \in 1..5 /\ 5 >= 5
    BY <1>2
  <2> QED BY ZenonT(40), <1>1, <2>1 DEF P!Init, P!TypeOK
<1> QED BY <1>1, <1>2, <1>3 DEF P!Init, ScanInv, Distinct

LEMMA CallScan == ScanInv /\ P!PartScanDevice => ScanInv'
<1> SUFFICES ASSUME ScanInv, P!PartScanDevice PROVE ScanInv'
  OBVIOUS
<1> USE DEF P!given, P!mbr, P!Return
<1>1. /\ scanPc = "idle" /\ Calls' \in 0..2
      /\ UNCHANGED <<disk, Room, i, n, Logical, Index>>
  BY DEF P!PartScanDevice, ScanInv, P!TypeOK
<1>2. CASE /\ scanPc' = "idle" /\ scanRet' = 0 /\ P!NoPart /\ Scanned' = Scanned
  BY <1>1, <1>2 DEF ScanInv, P!TypeOK, P!NoPart, Distinct
<1>3. CASE /\ ~Scanned /\ Scanned' = TRUE /\ P!NoPart /\ scanPc' \in {"done", "gpt", "mbr"}
           /\ scanRet' \in {scanRet, 0}
  <2>1. Parts = << >> /\ Parts' = << >> /\ Index' = 0
    BY <1>1, <1>3 DEF ScanInv, P!NoPart
  <2> QED BY <1>1, <1>3, <2>1 DEF ScanInv, P!TypeOK, P!NoPart, Distinct
<1>4. CASE /\ ~Scanned /\ Scanned' = TRUE /\ P!HasRoom
           /\ P!AddPart(1, 0, disk.size * Ratio, "RAW")
           /\ scanPc' = "done" /\ scanRet' = 1
  <2>1. Longer(1)
    <3>1. Parts = << >> /\ \A k \in 1..Len(Parts) : Parts[k].number # 1
      BY <1>4 DEF ScanInv
    <3> QED BY <1>4, <3>1, AddIsLonger
  <2>2. scanRet' >= -1
    BY <1>4
  <2> QED BY <1>1, <1>4, <2>1, <2>2 DEF ScanInv, P!TypeOK, Longer
<1> QED BY ZenonT(40), <1>1, <1>2, <1>3, <1>4 DEF P!PartScanDevice, P!NoPart

LEMMA GptScan == ScanInv /\ (P!GptHeader \/ P!GptEntry) => ScanInv'
<1> SUFFICES ASSUME ScanInv, P!GptHeader \/ P!GptEntry PROVE ScanInv'
  OBVIOUS
<1> USE DEF P!given, P!mbr, P!Return
<1>1. disk.gpt.count \in Nat /\ Len(Parts) \in Nat /\ Found = Len(Parts)
  BY TableConstants DEF P!PartConstants, ScanInv, P!TypeOK
<1>2. CASE P!GptHeader
  <2>1. scanRet' >= -1 /\ scanPc' \in {"entries", "done"} /\ Scanned
    BY <1>2 DEF P!GptHeader, ScanInv, P!TypeOK
  <2> QED BY <1>1, <1>2, <2>1 DEF P!GptHeader, ScanInv, P!TypeOK, Distinct
<1>3. CASE P!GptEntry
  <2>1. /\ scanPc = "entries" /\ Scanned /\ Scanned' /\ Calls' = Calls
        /\ UNCHANGED <<disk, Room, i, n, Logical>>
    BY <1>3 DEF P!GptEntry, ScanInv, P!TypeOK
  <2>2. CASE scanPc' = "done" /\ scanRet' = Found /\ UNCHANGED <<Index, Parts, Found>>
    BY <1>1, <2>1, <2>2 DEF ScanInv, P!TypeOK, Distinct
  <2>3. CASE P!GptEnd
    BY <1>3, <2>2, <2>3 DEF P!GptEntry
  <2>4. CASE ~P!GptEnd
    <3>1. Index + 1 \in 0..disk.gpt.count
      BY <1>1, <2>1, <2>4 DEF P!GptEnd, ScanInv, P!TypeOK
    <3>2. CASE Index' = Index + 1 /\ UNCHANGED <<scanPc, scanRet, Parts, Found>>
      BY <2>1, <3>1, <3>2 DEF ScanInv, P!TypeOK, Distinct
    <3>3. CASE /\ P!HasRoom /\ Index' = Index + 1 /\ UNCHANGED <<scanPc, scanRet>>
               /\ \E start, count : P!AddPart(Index + 1, start, count, "GPT")
      <4>1. Longer(Index + 1)
        <5>1. Index + 1 \in Nat /\ \A k \in 1..Len(Parts) : Parts[k].number # Index + 1
          BY <2>1 DEF ScanInv
        <5> QED BY <3>3, <5>1, AddIsLonger
      <4>2. \A k \in 1..Len(Parts') : Parts'[k].number \in 1..Index'
        BY <2>1, <3>3, <4>1 DEF ScanInv, Longer
      <4> QED BY <2>1, <3>1, <3>3, <4>1, <4>2 DEF ScanInv, P!TypeOK, Longer
    <3> QED BY <1>3, <2>2, <2>4, <3>2, <3>3 DEF P!GptEntry
  <2> QED BY <2>3, <2>4
<1> QED BY <1>2, <1>3

LEMMA MbrScan == ScanInv /\ P!MbrEntry => ScanInv'
<1> SUFFICES ASSUME ScanInv, P!MbrEntry PROVE ScanInv'
  OBVIOUS
<1> USE DEF P!given, P!mbr, P!Return
<1>1. /\ scanPc = "mbr" /\ Scanned /\ Scanned' /\ Calls' = Calls
      /\ UNCHANGED <<disk, Room, Index>> /\ MAX_EBR_CHAIN \in Nat \ {0}
      /\ Len(Parts) \in Nat /\ Found = Len(Parts)
  BY TableConstants DEF P!PartConstants, P!MbrEntry, ScanInv, P!TypeOK
<1>2. CASE scanPc' = "done" /\ scanRet' = Found /\ UNCHANGED <<i, n, Logical, Parts, Found>>
  BY <1>1, <1>2 DEF ScanInv, P!TypeOK, Distinct
<1>3. CASE i = 5
  BY <1>2, <1>3 DEF P!MbrEntry
<1>4. CASE i # 5
  <2>1. i \in 1..4 /\ i + 1 \in 1..5 /\ i + 1 \in Nat
    BY <1>4 DEF ScanInv, P!TypeOK
  <2>2. CASE i' = i + 1 /\ UNCHANGED <<scanPc, scanRet, n, Logical, Parts, Found>>
    <3>1. \A k \in 1..Len(Parts') : Parts'[k].number \in 1..(i' - 1) \cup 5..(Logical' - 1)
      BY <1>1, <2>1, <2>2 DEF ScanInv
    <3> QED BY <1>1, <2>1, <2>2, <3>1 DEF ScanInv, P!TypeOK, Distinct
  <2>3. CASE n' = 0 /\ scanPc' = "ebr" /\ UNCHANGED <<i, scanRet, Logical, Parts, Found>>
    BY <1>1, <2>1, <2>3 DEF ScanInv, P!TypeOK, Distinct
  <2>4. CASE /\ P!HasRoom /\ i' = i + 1 /\ UNCHANGED <<scanPc, scanRet, n, Logical>>
             /\ \E start, count : P!AddPart(i, start, count, "MBR")
    <3>1. Longer(i)
      <4>1. i \in Nat /\ \A k \in 1..Len(Parts) : Parts[k].number # i
        BY <1>1, <2>1 DEF ScanInv
      <4> QED BY <2>4, <4>1, AddIsLonger
    <3>2. \A k \in 1..Len(Parts') : Parts'[k].number \in 1..(i' - 1) \cup 5..(Logical' - 1)
      BY <1>1, <2>1, <2>4, <3>1 DEF ScanInv, Longer
    <3> QED BY <1>1, <2>1, <2>4, <3>1, <3>2 DEF ScanInv, P!TypeOK, Longer
  <2> QED BY <1>2, <1>4, <2>2, <2>3, <2>4 DEF P!MbrEntry, P!FirstLogical
<1> QED BY <1>3, <1>4

(* Where a record leaves the walk: in the chain, or at the next primary.   *)
LEMMA ChainGoesOn ==
  ASSUME ScanInv, scanPc = "ebr", NEW next,
         IF P!LastOfChain(next) THEN P!ChainEnd
         ELSE Ebr' = ExtStart + next.start /\ n' = n + 1 /\ UNCHANGED <<scanPc, scanRet, i,
           ExtStart>>
  PROVE  /\ scanPc' \in {"mbr", "ebr"} /\ i' \in 1..5 /\ i' >= i /\ scanRet' = scanRet
         /\ n' \in Nat /\ n' < MAX_EBR_CHAIN
         /\ scanPc' = "ebr" => i' <= 4
<1>1. i \in 1..4 /\ n \in Nat /\ n < MAX_EBR_CHAIN /\ MAX_EBR_CHAIN \in Nat
  BY TableConstants DEF P!PartConstants, ScanInv, P!TypeOK
<1>2. CASE P!LastOfChain(next)
  BY <1>1, <1>2 DEF P!ChainEnd
<1>3. CASE ~P!LastOfChain(next)
  <2>1. n + 1 # MAX_EBR_CHAIN
    BY <1>3 DEF P!LastOfChain
  <2> QED BY <1>1, <1>3, <2>1
<1> QED BY <1>2, <1>3

LEMMA EbrScan == ScanInv /\ P!EbrEntry => ScanInv'
<1> SUFFICES ASSUME ScanInv, P!EbrEntry PROVE ScanInv'
  OBVIOUS
<1> USE DEF P!given, P!mbr, P!Return
<1>1. /\ scanPc = "ebr" /\ Scanned /\ Scanned' /\ Calls' = Calls
      /\ UNCHANGED <<disk, Room, Index>>
      /\ Len(Parts) \in Nat /\ Found = Len(Parts) /\ Logical \in Nat /\ Logical >= 5
      /\ i \in 1..4 /\ i \in Nat
  BY DEF P!EbrEntry, ScanInv, P!TypeOK
<1>2. CASE P!ChainEnd /\ P!NoPart /\ UNCHANGED Logical
  <2>1. i' = i + 1 /\ i' \in 1..5 /\ i' \in Nat /\ scanPc' = "mbr"
    BY <1>1, <1>2 DEF P!ChainEnd
  <2>2. \A k \in 1..Len(Parts') : Parts'[k].number \in 1..(i' - 1) \cup 5..(Logical' - 1)
    BY <1>1, <1>2, <2>1 DEF ScanInv, P!NoPart
  <2> QED BY <1>1, <1>2, <2>1, <2>2 DEF ScanInv, P!TypeOK, P!NoPart, P!ChainEnd, Distinct
<1>3. CASE scanPc' = "done" /\ scanRet' = Found /\ P!NoPart /\ UNCHANGED <<i, n, Logical>>
  BY <1>1, <1>3 DEF ScanInv, P!TypeOK, P!NoPart, Distinct
<1>4. ASSUME NEW next,
             IF P!LastOfChain(next) THEN P!ChainEnd
             ELSE Ebr' = ExtStart + next.start /\ n' = n + 1 /\ UNCHANGED <<scanPc,
               scanRet, i, ExtStart>>,
             \/ P!NoPart /\ UNCHANGED Logical
             \/ /\ P!HasRoom /\ Logical' = Logical + 1
                /\ \E start, count : P!AddPart(Logical, start, count, "MBR")
      PROVE  ScanInv'
  <2>1. /\ scanPc' \in {"mbr", "ebr"} /\ i' \in 1..5 /\ i' \in Nat /\ i' >= i
            /\ scanRet' = scanRet
        /\ n' \in Nat /\ n' < MAX_EBR_CHAIN /\ (scanPc' = "ebr" => i' <= 4)
    BY <1>1, <1>4, ChainGoesOn
  <2>2. CASE P!NoPart /\ UNCHANGED Logical
    <3>1. \A k \in 1..Len(Parts') : Parts'[k].number \in 1..(i' - 1) \cup 5..(Logical' - 1)
      BY <1>1, <2>1, <2>2 DEF ScanInv, P!NoPart
    <3> QED BY <1>1, <2>1, <2>2, <3>1 DEF ScanInv, P!TypeOK, P!NoPart, Distinct
  <2>3. CASE /\ P!HasRoom /\ Logical' = Logical + 1
             /\ \E start, count : P!AddPart(Logical, start, count, "MBR")
    <3>1. Longer(Logical)
      <4>1. \A k \in 1..Len(Parts) : Parts[k].number # Logical
        BY <1>1 DEF ScanInv
      <4> QED BY <1>1, <2>3, <4>1, AddIsLonger
    <3>2. \A k \in 1..Len(Parts') : Parts'[k].number \in 1..(i' - 1) \cup 5..(Logical' - 1)
      <4> TAKE k \in 1..Len(Parts')
      <4>1. CASE Parts'[k].number = Logical
        BY <1>1, <2>3, <4>1
      <4>2. CASE k \in 1..Len(Parts) /\ Parts'[k] = Parts[k]
        BY <1>1, <2>1, <2>3, <4>2 DEF ScanInv
      <4> QED BY <3>1, <4>1, <4>2 DEF Longer
    <3> QED BY <1>1, <2>1, <2>3, <3>1, <3>2 DEF ScanInv, P!TypeOK, Longer
  <2> QED BY <1>4, <2>2, <2>3
<1>5. CASE ~P!ReadNative(Ebr) \/ Ebr \notin DOMAIN disk.ebr
  BY <1>2, <1>5 DEF P!EbrEntry
<1>6. CASE P!ReadNative(Ebr) /\ Ebr \in DOMAIN disk.ebr
  BY <1>3, <1>4, <1>6 DEF P!EbrEntry
<1> QED BY <1>5, <1>6

LEMMA StepScan == ScanInv /\ (P!Next \/ UNCHANGED scan) => ScanInv'
<1>1. ScanInv /\ UNCHANGED scan => ScanInv'
  BY DEF ScanInv, P!TypeOK, Distinct, scan
<1>2. ScanInv /\ P!Finish => ScanInv'
  BY DEF ScanInv, P!TypeOK, Distinct, P!Finish, P!given, P!mbr
<1> QED BY <1>1, <1>2, CallScan, GptScan, MbrScan, EbrScan DEF P!Next, P!Walk

------------------------------------------------------------------------------
(* The entries of a folder are those of its pieces. *)
LEMMA Climb ==
  ASSUME NEW m \in Nat, NEW T, 0 \in T, \A k \in 0..(m - 1) : k \in T => k + 1 \in T
  PROVE  \A k \in 0..m : k \in T
<1>1. PICK U : U = {k \in 0..m : k \notin T}
  BY ZenonT(40)
<1> SUFFICES ASSUME U # {} PROVE FALSE
  BY <1>1
<1>2. U \subseteq Nat
  BY <1>1
<1>3. IsWellFoundedOn(OpToRel(<, Nat), Nat)
  BY ZenonT(40), NatLessThanWellFounded
<1>4. PICK x \in U : \A y \in U : ~(<<y, x>> \in OpToRel(<, Nat))
  BY ZenonT(40), <1>2, <1>3, WFMin
<1>5. \A y \in U : ~(y < x)
  BY ZenonT(40), <1>2, <1>4 DEF OpToRel
<1>6. x \in 0..m /\ x \notin T
  BY <1>1
<1>7. x # 0 /\ x - 1 \in 0..(m - 1) /\ x - 1 \in 0..m /\ x - 1 < x /\ (x - 1) + 1 = x
  BY <1>6
<1>8. x - 1 \in T
  BY <1>1, <1>5, <1>7
<1> QED BY <1>6, <1>7, <1>8

Joining(s, m, f) == f = [k \in 1..m |-> IF k = 1 THEN s[k] ELSE f[k - 1] \o s[k]]

LEMMA JoiningExists ==
  ASSUME NEW s, NEW m \in Nat
  PROVE  \E f : Joining(s, m, f)
<1>1. PICK T : T = {k \in Nat : \E f : Joining(s, k, f)}
  BY ZenonT(40)
<1>2. 0 \in T
  <2>1. PICK f : f = [k \in 1..0 |-> 0]
    BY ZenonT(40)
  <2>2. f = [k \in 1..0 |-> IF k = 1 THEN s[k] ELSE f[k - 1] \o s[k]]
    BY <2>1
  <2> QED BY ZenonT(40), <1>1, <2>2 DEF Joining
<1>3. ASSUME NEW k \in 0..(m - 1), k \in T PROVE k + 1 \in T
  <2>1. PICK f : f = [j \in 1..k |-> IF j = 1 THEN s[j] ELSE f[j - 1] \o s[j]]
    BY ZenonT(40), <1>1, <1>3 DEF Joining
  <2>2. PICK last : last = IF k = 0 THEN s[1] ELSE f[k] \o s[k + 1]
    BY ZenonT(40)
  <2>3. PICK g : g = [j \in 1..(k + 1) |-> IF j = k + 1 THEN last ELSE f[j]]
    BY ZenonT(40)
  <2>4. \A j \in 1..(k + 1) : g[j] = IF j = 1 THEN s[j] ELSE g[j - 1] \o s[j]
    <3> TAKE j \in 1..(k + 1)
    <3>1. CASE j = k + 1
      <4>1. g[j] = last
        BY <2>3, <3>1
      <4>2. CASE k = 0
        BY <2>2, <3>1, <4>1, <4>2
      <4>3. CASE k # 0
        <5>1. j - 1 = k /\ j # 1 /\ k \in 1..(k + 1) /\ k # k + 1
          BY <3>1, <4>3
        <5>2. g[k] = f[k]
          BY <2>3, <5>1
        <5> QED BY ZenonT(40), <2>2, <3>1, <4>1, <4>3, <5>1, <5>2
      <4> QED BY <4>2, <4>3
    <3>2. CASE j # k + 1
      <4>1. j \in 1..k
        BY <3>2
      <4>2. g[j] = f[j] /\ f[j] = IF j = 1 THEN s[j] ELSE f[j - 1] \o s[j]
        BY ZenonT(40), <2>1, <2>3, <3>2, <4>1
      <4>3. j # 1 => j - 1 \in 1..(k + 1) /\ j - 1 # k + 1
        BY <4>1
      <4>4. j # 1 => g[j - 1] = f[j - 1]
        BY <2>3, <4>3
      <4> QED BY <4>2, <4>4
    <3> QED BY <3>1, <3>2
  <2>5. g = [j \in 1..(k + 1) |-> IF j = 1 THEN s[j] ELSE g[j - 1] \o s[j]]
    <3>1. g = [j \in 1..(k + 1) |-> g[j]]
      BY <2>3
    <3> QED BY ZenonT(40), <2>4, <3>1
  <2>6. k + 1 \in Nat
    OBVIOUS
  <2>7. Joining(s, k + 1, g)
    BY ZenonT(40), <2>5 DEF Joining
  <2> QED BY ZenonT(40), <1>1, <2>6, <2>7
<1>4. \A k \in 0..m : k \in T
  BY <1>2, <1>3, Climb
<1>5. m \in 0..m
  OBVIOUS
<1> QED BY <1>1, <1>4, <1>5

LEMMA FlattenIsSeq ==
  ASSUME NEW S, NEW m \in Nat \ {0}, NEW s \in [1..m -> Seq(S)]
  PROVE  F!FlattenSeq(s) \in Seq(S)
<1>1. Len(s) = m /\ m # 0
  OBVIOUS
<1>2. PICK f : /\ f = [k \in 1..Len(s) |-> IF k = 1 THEN s[k] ELSE f[k - 1] \o s[k]]
               /\ f[Len(s)] = F!FlattenSeq(s)
  <2>1. \E f : f = [k \in 1..Len(s) |-> IF k = 1 THEN s[k] ELSE f[k - 1] \o s[k]]
    <3>1. PICK f : Joining(s, m, f)
      BY ZenonT(40), JoiningExists
    <3> QED BY Zenon, <1>1, <3>1 DEF Joining
  <2>2. Len(s) # 0
    BY <1>1
  <2> QED BY <2>1, <2>2, ZenonT(40) DEF F!FlattenSeq
<1>3. PICK T : T = {k \in Nat : k = 0 \/ f[k] \in Seq(S)}
  BY ZenonT(40)
<1>4. 0 \in T
  BY <1>3
<1>5. ASSUME NEW k \in 0..(m - 1), k \in T PROVE k + 1 \in T
  <2>1. k + 1 \in 1..m /\ k + 1 \in Nat /\ s[k + 1] \in Seq(S)
    OBVIOUS
  <2>2. CASE k = 0
    <3>1. f[k + 1] = s[k + 1]
      BY <1>1, <1>2, <2>1, <2>2
    <3> QED BY <1>3, <2>1, <3>1
  <2>3. CASE k # 0
    <3>1. f[k] \in Seq(S)
      BY <1>3, <1>5, <2>3
    <3>2. k + 1 # 1 /\ (k + 1) - 1 = k
      BY <2>3
    <3>3. f[k + 1] = f[k] \o s[k + 1]
      BY ZenonT(40), <1>1, <1>2, <2>1, <3>2
    <3>4. f[k] \o s[k + 1] \in Seq(S)
      BY <2>1, <3>1, ConcatProperties
    <3> QED BY ZenonT(40), <1>3, <2>1, <3>3, <3>4
  <2> QED BY <2>2, <2>3
<1>6. m \in T
  <2>1. \A k \in 0..m : k \in T
    BY ZenonT(40), <1>4, <1>5, Climb
  <2> QED BY <2>1
<1> QED BY ZenonT(40), <1>1, <1>2, <1>3, <1>6

EntriesOf == UNION {F!Range(p.entries) : p \in Pieces}

LongFits(e) == e.kind = "long" => e.seq \in Nat /\ Len(e.chars) = PieceChars

LEMMA PieceFacts ==
  /\ MaxPieces \in Nat /\ PieceChars \in Nat /\ MAX_LFN_ENTRIES \in Nat /\ MaxCalls \in Nat
  /\ \A p \in Pieces : p.entries \in Seq(EntriesOf)
  /\ \A e \in EntriesOf : LongFits(e)
<1>1. MaxPieces \in Nat /\ PieceChars \in Nat /\ MAX_LFN_ENTRIES \in Nat /\ MaxCalls \in Nat
  BY EntryConstants DEF F!NamesConstants
<1>2. ASSUME NEW p \in Pieces PROVE p.entries \in Seq(EntriesOf)
  <2>1. PICK R : R = F!Range(p.entries)
    BY ZenonT(40)
  <2>2. PICK U : U = EntriesOf
    BY ZenonT(40)
  <2>3. R \subseteq U
    BY ZenonT(40), <2>1, <2>2 DEF EntriesOf
  <2>4. PICK s : s = p.entries
    BY ZenonT(40)
  <2>5. s \in Seq(R)
    BY ZenonT(40), <2>1, <2>4, EntryConstants DEF F!NamesConstants
  <2>6. s \in Seq(U)
    BY <2>3, <2>5
  <2> QED BY ZenonT(40), <2>2, <2>4, <2>6
<1>3. ASSUME NEW e \in EntriesOf PROVE LongFits(e)
  BY ZenonT(40), EntryConstants DEF F!NamesConstants, EntriesOf, LongFits
<1> QED BY ZenonT(40), <1>1, <1>2, <1>3

(* A folder that may be there.                                             *)
IsFolder(d) == \E m \in Nat \ {0} : d \in [1..m -> Pieces]

LEMMA EntriesAre ==
  ASSUME IsFolder(folder)
  PROVE  F!Entries \in Seq(EntriesOf)
<1>1. PICK m \in Nat \ {0} : folder \in [1..m -> Pieces]
  BY DEF IsFolder
<1>2. PICK s : s = [k \in DOMAIN folder |-> folder[k].entries]
  BY ZenonT(40)
<1>3. s \in [1..m -> Seq(EntriesOf)]
  BY <1>1, <1>2, PieceFacts
<1>4. F!FlattenSeq(s) \in Seq(EntriesOf)
  BY ZenonT(40), <1>3, FlattenIsSeq
<1> QED BY ZenonT(40), <1>2, <1>4 DEF F!Entries

NamesInv ==
  /\ F!TypeOK /\ IsFolder(folder)
  /\ namesPc = "listing" => at >= 1

LEMMA InitNames == F!Init => NamesInv
<1> SUFFICES ASSUME F!Init PROVE NamesInv
  OBVIOUS
<1>1. PICK k \in 1..MaxPieces : folder \in [1..k -> Pieces]
  BY DEF F!Init
<1>2. IsFolder(folder)
  <2>1. k \in Nat \ {0}
    BY PieceFacts
  <2> QED BY <1>1, <2>1 DEF IsFolder
<1>3. Len(F!Entries) \in Nat
  BY <1>2, EntriesAre
<1>4. at \in 0..Len(F!Entries) + 1
  BY <1>3 DEF F!Init
<1>5. DOMAIN Lfn = 1..MAX_LFN_ENTRIES /\ \A j \in DOMAIN Lfn : Len(Lfn[j]) = PieceChars
  <2>1. Len([c \in 1..PieceChars |-> 0]) = PieceChars
    BY PieceFacts
  <2> QED BY ZenonT(40), <2>1 DEF F!Init
<1>6. calls \in 0..MaxCalls
  BY PieceFacts DEF F!Init
<1>7. F!TypeOK
  BY ZenonT(40), <1>4, <1>5, <1>6 DEF F!Init, F!TypeOK
<1> QED BY <1>2, <1>7 DEF F!Init, NamesInv

LEMMA CallNames == NamesInv /\ (F!FatMount \/ F!Call) => NamesInv'
<1> SUFFICES ASSUME NamesInv, F!FatMount \/ F!Call PROVE NamesInv'
  OBVIOUS
<1> USE DEF F!volume, F!lfn
<1>1. folder' = folder /\ IsFolder(folder)
  BY DEF NamesInv, F!FatMount, F!Call
<1>2. F!Entries' = F!Entries
  BY <1>1 DEF F!Entries
<1>3. Len(F!Entries) \in Nat
  BY <1>1, EntriesAre
<1>4. CASE F!FatMount
  BY <1>1, <1>2, <1>4 DEF F!FatMount, NamesInv, F!TypeOK
<1>5. CASE F!Call
  <2>1. calls' \in 0..MaxCalls
    BY <1>5, PieceFacts DEF F!Call, NamesInv, F!TypeOK
  <2>2. at' = 1 /\ at' \in 0..Len(F!Entries') + 1
    <3>1. 1 \in 0..Len(F!Entries) + 1
      BY <1>3
    <3> QED BY <1>2, <1>5, <3>1 DEF F!Call
  <2>3. F!TypeOK'
    BY ZenonT(40), <1>1, <1>5, <2>1, <2>2 DEF F!Call, NamesInv, F!TypeOK
  <2> QED BY <1>1, <2>2, <2>3 DEF NamesInv
<1> QED BY <1>4, <1>5

LEMMA ListNames == NamesInv /\ F!FatListDir => NamesInv'
<1> SUFFICES ASSUME NamesInv, F!FatListDir PROVE NamesInv'
  OBVIOUS
<1> USE DEF F!volume, F!lfn, F!Listing
<1>1. /\ folder' = folder /\ IsFolder(folder) /\ namesPc = "listing"
      /\ UNCHANGED <<boot, pages, calls, want>>
  BY ZenonT(40) DEF NamesInv, F!FatListDir, F!ReadFails, F!Ends, F!NoFile, F!LongEntry, F!ShortEntry, F!IsEntry
<1>2. F!Entries' = F!Entries
  BY <1>1 DEF F!Entries
<1>3. PICK s : s = F!Entries /\ s \in Seq(EntriesOf) /\ Len(s) \in Nat
  BY <1>1, EntriesAre
<1>4. at \in Nat /\ at >= 1 /\ at <= Len(s) + 1
  BY <1>1, <1>3 DEF NamesInv, F!TypeOK
<1>5. \/ at' = at /\ namesPc' = "idle" /\ namesRet' \in BOOLEAN
      \/ at <= Len(s) /\ at' = at + 1 /\ UNCHANGED <<namesPc, namesRet>>
  BY ZenonT(40), <1>3 DEF F!FatListDir, F!ReadFails, F!Ends, F!NoFile, F!LongEntry, F!ShortEntry, F!IsEntry,
              F!Return, F!Continue, F!Callback
<1>6. at' \in 0..Len(s) + 1 /\ at' >= 1
  BY <1>3, <1>4, <1>5
<1>7. /\ namesPc' \in {"unmounted", "idle", "listing"} /\ namesRet' \in BOOLEAN
  BY <1>5 DEF NamesInv, F!TypeOK
<1>8. /\ DOMAIN Lfn' = 1..MAX_LFN_ENTRIES
          /\ \A k \in DOMAIN Lfn' : Len(Lfn'[k]) = PieceChars
      /\ LfnValid' \in BOOLEAN /\ (LfnValid' => LfnCount' >= 1)
  <2>1. CASE Lfn' = Lfn /\ LfnValid' = FALSE
    BY ZenonT(40), <2>1 DEF NamesInv, F!TypeOK
  <2>2. CASE UNCHANGED <<Lfn, LfnValid, LfnCount>>
    BY <2>2 DEF NamesInv, F!TypeOK
  <2>3. CASE F!LongEntry
    <3>1. at \in 1..Len(s) /\ s[at] \in EntriesOf /\ s[at].kind = "long"
      BY <1>3, <1>4, <2>3 DEF F!LongEntry, F!IsEntry, F!E
    <3>2. PICK e \in EntriesOf : e = F!E /\ LongFits(e) /\ e.kind = "long"
      BY <1>3, <3>1, PieceFacts DEF F!E
    <3>3. e.seq \in Nat /\ Len(e.chars) = PieceChars
      BY <3>2 DEF LongFits
    <3>4. /\ LfnCount' = IF e.last THEN e.seq ELSE LfnCount
          /\ LfnValid' = ((e.last \/ LfnValid) /\ e.seq \in 1..MAX_LFN_ENTRIES
              /\ e.sum = LfnSum')
          /\ Lfn' = [k \in 1..MAX_LFN_ENTRIES |->
                       IF LfnValid' /\ k = e.seq THEN e.chars ELSE IF e.last THEN F!Empty ELSE Lfn[k]]
      BY <2>3, <3>2 DEF F!LongEntry
    <3>5. LfnValid' \in BOOLEAN
      BY Zenon, <3>4
    <3>6. ASSUME LfnValid' PROVE LfnCount' >= 1
      <4>1. (e.last \/ LfnValid) /\ e.seq \in 1..MAX_LFN_ENTRIES
        BY ZenonT(40), <3>4, <3>6
      <4>2. CASE e.last
        <5>1. LfnCount' = e.seq
          BY ZenonT(40), <3>4, <4>2
        <5> QED BY <3>3, <4>1, <5>1, PieceFacts
      <4>3. CASE ~e.last
        <5>1. LfnCount' = LfnCount /\ LfnValid
          BY ZenonT(40), <3>4, <4>1, <4>3
        <5> QED BY <5>1 DEF NamesInv, F!TypeOK
      <4> QED BY <4>2, <4>3
    <3>7. Len(F!Empty) = PieceChars
      BY PieceFacts DEF F!Empty
    <3>8. DOMAIN Lfn' = 1..MAX_LFN_ENTRIES
            /\ \A k \in DOMAIN Lfn' : Len(Lfn'[k]) = PieceChars
      <4>1. DOMAIN Lfn' = 1..MAX_LFN_ENTRIES
        BY <3>4
      <4>2. ASSUME NEW k \in 1..MAX_LFN_ENTRIES PROVE Len(Lfn'[k]) = PieceChars
        <5>1. Lfn'[k] \in {e.chars, F!Empty, Lfn[k]}
          BY ZenonT(40), <3>4
        <5>2. Len(Lfn[k]) = PieceChars
          BY DEF NamesInv, F!TypeOK
        <5> QED BY <3>3, <3>7, <5>1, <5>2
      <4> QED BY <4>1, <4>2
    <3> QED BY <3>5, <3>6, <3>8
  <2> QED BY ZenonT(40), <2>1, <2>2, <2>3 DEF F!FatListDir, F!ReadFails, F!Ends, F!NoFile,
        F!ShortEntry
<1>9. F!TypeOK'
  BY <1>1, <1>2, <1>3, <1>6, <1>7, <1>8 DEF NamesInv, F!TypeOK
<1> QED BY <1>1, <1>6, <1>9 DEF NamesInv

LEMMA StepNames == NamesInv /\ (F!Next \/ UNCHANGED names) => NamesInv'
<1>1. ASSUME NamesInv, UNCHANGED names PROVE NamesInv'
  <2>1. F!Entries' = F!Entries
    BY <1>1 DEF names, F!Entries
  <2> QED BY <1>1, <2>1 DEF NamesInv, F!TypeOK, names
<1> QED BY <1>1, CallNames, ListNames DEF F!Next

------------------------------------------------------------------------------
(* All parts together. *)
PartsInv ==
  /\ QueueInv /\ (~gaveUp => Outstanding)
  /\ AhciInv /\ ScanInv /\ NamesInv

LEMMA InitParts == DisksInit => PartsInv
<1>1. Init => Outstanding
  BY DEF Init, Outstanding
<1> QED BY <1>1, InitQueue, InitAhci, InitScan, InitNames DEF DisksInit, PartsInv

LEMMA StepParts == PartsInv /\ [DisksNext]_all => PartsInv'
<1> SUFFICES ASSUME PartsInv, [DisksNext]_all PROVE PartsInv'
  OBVIOUS
<1>1. /\ [Next]_vars /\ (A!Next \/ UNCHANGED ahci) /\ (P!Next \/ UNCHANGED scan)
      /\ (F!Next \/ UNCHANGED names)
  BY DEF DisksNext, NvmeOnly, AhciOnly, ScanOnly, NamesOnly, all
<1>2. QueueInv' /\ (~gaveUp => Outstanding)'
  BY <1>1, StepQueue, StepOutstanding DEF PartsInv
<1> QED BY <1>1, <1>2, StepAhci, StepScan, StepNames DEF PartsInv

LEMMA DisksAlways == DisksSpec => []PartsInv
BY InitParts, StepParts, PTL DEF DisksSpec

(* The status of an NVMe read is that of its own command, a SATA read that *)
(* reports success has its sectors, whatever failed before it and in       *)
(* whatever state the firmware left the engine, and no two partitions of a *)
(* drive share a number, however its boot records are linked.              *)
THEOREM DisksSound == DisksSpec => []StateSound
<1>1. PartsInv => StateSound
  <2> SUFFICES ASSUME PartsInv PROVE StateSound
    OBVIOUS
  <2>1. TypeOK /\ AnswersItself
    BY DEF PartsInv, QueueInv, Outstanding, AnswersItself
  <2>2. A!TypeOK /\ A!SuccessHasSectors
    BY DEF PartsInv, AhciInv, A!SuccessHasSectors
  <2>3. P!TypeOK /\ P!NumbersDistinct
    <3>1. DOMAIN Parts = 1..Len(Parts)
      BY DEF PartsInv, ScanInv
    <3> QED BY <3>1 DEF PartsInv, ScanInv, Distinct, P!NumbersDistinct
  <2>4. F!TypeOK
    BY DEF PartsInv, NamesInv
  <2> QED BY <2>1, <2>2, <2>3, <2>4 DEF StateSound
<1> QED BY <1>1, DisksAlways, PTL
====
