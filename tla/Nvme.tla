--------------------------------- MODULE Nvme ---------------------------------
(***************************************************************************)
(* Reads through the I/O queues of nvme.c.  One command is outstanding as  *)
(* far as the driver knows, for SubmitIoCommand waits; but it may give up  *)
(* waiting, and then the controller still works on a command that nobody   *)
(* waits for.  A completion is recognised by its phase bit alone.          *)
(*                                                                         *)
(* A command is known by its number, from 1 on, which stands for its       *)
(* identifier, its sectors and its buffer.                                 *)
(***************************************************************************)
EXTENDS Naturals

CONSTANTS
  QueueDepth,      (* 64                                                   *)
  MaxCommands      (* bound: reads of one session                          *)

ASSUME NvmeConstants ==
  QueueDepth \in Nat \ {0, 1} /\ MaxCommands \in Nat

VARIABLES
  IoSq, IoSqTail,          (* submission queue; NextCommandId is Commands  *)
  IoCq, IoCqHead, IoPhase, (* completion queue: [cmd, ok, phase]           *)
  pc, Commands,            (* the call, and the commands issued so far     *)
  ret,                     (* what the last call returned: [cmd, from, ok] *)
  \* the controller
  SqDoorbell, SqHead, CqDoorbell, CqTail, CqPhase,
  Executing, Delivered,    (* commands being worked on; data in memory     *)
  \* history
  posted, consumed,        (* completions written and taken                *)
  gaveUp                   (* SubmitIoCommand has run out of patience      *)

driver == <<IoSq, IoSqTail, SqDoorbell, pc, Commands>>
completions == <<IoCqHead, IoPhase, CqDoorbell, consumed>>
controller == <<SqHead, IoCq, CqTail, CqPhase, Executing, Delivered, posted>>
vars == <<driver, completions, controller, ret, gaveUp>>

Slots == 0..(QueueDepth - 1)

After(slot) == (slot + 1) % QueueDepth

(* NvmeInit has zeroed both queues and created them in the controller.     *)
Init ==
  /\ IoSq = [s \in Slots |-> 0] /\ IoSqTail = 0 /\ SqDoorbell = 0
  /\ IoCq = [s \in Slots |-> [cmd |-> 0, ok |-> FALSE, phase |-> 0]]
  /\ IoCqHead = 0 /\ IoPhase = 1 /\ CqDoorbell = 0 /\ consumed = 0
  /\ pc = "idle" /\ Commands = 0 /\ ret = [cmd |-> 0, from |-> 0, ok |-> FALSE]
  /\ SqHead = 0 /\ CqTail = 0 /\ CqPhase = 1
  /\ Executing = {} /\ Delivered = {} /\ posted = 0 /\ gaveUp = FALSE

------------------------------------------------------------------------------
(* The driver. *)

(* NvmeReadSectors up to the doorbell. *)
Submit ==
  /\ pc = "idle" /\ Commands < MaxCommands
  /\ Commands' = Commands + 1
  /\ IoSq' = [IoSq EXCEPT ![IoSqTail] = Commands']
  /\ IoSqTail' = After(IoSqTail) /\ SqDoorbell' = IoSqTail'
  /\ pc' = "wait"
  /\ UNCHANGED <<completions, controller, ret, gaveUp>>

(* Mutant: an entry counts as new when a command is named in it. *)
HasAnswerFilled == IoCq[IoCqHead].cmd # 0

HasAnswer == IoCq[IoCqHead].phase = IoPhase

(* Mutant: the phase is not turned at the end of the queue. *)
AnswerKeepsPhase ==
  /\ pc = "wait" /\ HasAnswer
  /\ ret' = [cmd |-> Commands, from |-> IoCq[IoCqHead].cmd, ok |-> IoCq[IoCqHead].ok]
  /\ IoCqHead' = After(IoCqHead) /\ CqDoorbell' = IoCqHead'
  /\ IoPhase' = IoPhase
  /\ consumed' = consumed + 1
  /\ pc' = "idle"
  /\ UNCHANGED <<IoSq, IoSqTail, SqDoorbell, Commands, controller, gaveUp>>

(* The loop finds an entry of the phase it expects, and returns its status. *)
Answer ==
  /\ pc = "wait" /\ HasAnswer
  /\ ret' = [cmd |-> Commands, from |-> IoCq[IoCqHead].cmd, ok |-> IoCq[IoCqHead].ok]
  /\ IoCqHead' = After(IoCqHead) /\ CqDoorbell' = IoCqHead'
  /\ IoPhase' = IF IoCqHead' = 0 THEN 1 - IoPhase ELSE IoPhase
  /\ consumed' = consumed + 1
  /\ pc' = "idle"
  /\ UNCHANGED <<IoSq, IoSqTail, SqDoorbell, Commands, controller, gaveUp>>

(* The loop has run out, for the drive took longer: status 0xFFFF. *)
TimeOut ==
  /\ pc = "wait" /\ ~HasAnswer
  /\ ret' = [cmd |-> Commands, from |-> 0, ok |-> FALSE] /\ gaveUp' = TRUE
  /\ pc' = "idle"
  /\ UNCHANGED <<IoSq, IoSqTail, SqDoorbell, Commands, completions, controller>>

SubmitIoCommand == Submit \/ Answer \/ TimeOut

------------------------------------------------------------------------------
(* The controller. *)

Fetch ==
  /\ SqHead # SqDoorbell
  /\ Executing' = Executing \cup {IoSq[SqHead]}
  /\ SqHead' = After(SqHead)
  /\ UNCHANGED <<driver, completions, IoCq, CqTail, CqPhase, Delivered, posted, ret, gaveUp>>

(* A command ends, in any order, while the completion queue has room.      *)
Complete(c, ok) ==
  /\ c \in Executing /\ After(CqTail) # CqDoorbell
  /\ Executing' = Executing \ {c}
  /\ Delivered' = IF ok THEN Delivered \cup {c} ELSE Delivered
  /\ IoCq' = [IoCq EXCEPT ![CqTail] = [cmd |-> c, ok |-> ok, phase |-> CqPhase]]
  /\ CqTail' = After(CqTail)
  /\ CqPhase' = IF CqTail' = 0 THEN 1 - CqPhase ELSE CqPhase
  /\ posted' = posted + 1
  /\ UNCHANGED <<driver, completions, SqHead, ret, gaveUp>>

Controller == Fetch \/ \E c \in Executing : \E ok \in BOOLEAN : Complete(c, ok)

Next == SubmitIoCommand \/ Controller

Spec == Init /\ [][Next]_vars

(* The wait loop looks again, and the controller works on what it has.     *)
Fairness == WF_vars(Answer) /\ WF_vars(Controller)

------------------------------------------------------------------------------

TypeOK ==
  /\ IoSq \in [Slots -> 0..MaxCommands] /\ IoSqTail \in Slots /\ SqDoorbell \in Slots
  /\ IoCq \in [Slots -> [cmd : 0..MaxCommands, ok : BOOLEAN, phase : {0, 1}]]
  /\ IoCqHead \in Slots /\ IoPhase \in {0, 1} /\ CqDoorbell \in Slots /\ consumed \in Nat
  /\ pc \in {"idle", "wait"} /\ Commands \in 0..MaxCommands
  /\ ret \in [cmd : 0..MaxCommands, from : 0..MaxCommands, ok : BOOLEAN]
  /\ SqHead \in Slots /\ CqTail \in Slots /\ CqPhase \in {0, 1}
  /\ Executing \subseteq 0..MaxCommands /\ Delivered \subseteq 0..MaxCommands /\ posted \in Nat
  /\ gaveUp \in BOOLEAN

(* The phase bit tells a new completion from one of an earlier lap,        *)
(* whatever was given up in between.                                       *)
PhaseTellsNew == HasAnswer <=> consumed < posted

(* As long as the driver has not given up a command, the status returned   *)
(* is that of the command it is returned for.  Afterwards it need not be:  *)
(* the completion of the command given up answers the next one.            *)
AnswersItself == pc = "idle" /\ ~gaveUp => ret.from = ret.cmd

(* The same of the data: a read that reports success has them in memory.   *)
SuccessHasData == pc = "idle" /\ ret.ok /\ ~gaveUp => ret.cmd \in Delivered

(* Every read of a session without time-outs is answered, over any number  *)
(* of laps of the two queues.                                              *)
ReadAnswered == pc = "wait" ~> pc = "idle" \/ gaveUp
==============================================================================
