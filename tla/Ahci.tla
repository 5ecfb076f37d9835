--------------------------------- MODULE Ahci ---------------------------------
(***************************************************************************)
(* The first SATA disk (ahci.c): AhciInit, which picks a port and restarts *)
(* its command engine, and AhciReadSectors, which puts one command in slot *)
(* 0 and spins on the port's registers.  No wait has a bound.              *)
(***************************************************************************)
EXTENDS Naturals

CONSTANTS
  PortCount,       (* ports of the controller, 32                          *)
  Lbas,            (* what is read                                         *)
  NoPort, NoLba

AhciConstants == PortCount \in Nat /\ NoPort \notin Nat /\ NoLba \notin Lbas

VARIABLES
  pc, i,               (* where the driver is; the loop over the ports     *)
  ActivePort,          (* the port AhciInit chose                          *)
  Table,               (* the command table: what the command reads        *)
  asked, ret,          (* the call, and what the last one returned         *)
  \* the controller
  Linked,              (* ports with a device that is up                   *)
  Started,             (* ST is set                                        *)
  Running,             (* CR: the engine is up                             *)
  Halted,              (* an error stopped it: it takes no command         *)
  Ci, Tfes, Busy,      (* slot 0 issued; task file error; BSY or DRQ       *)
  Buffer               (* the sectors in memory                            *)

driver == <<pc, i, ActivePort, Table, asked, ret>>
port == <<Linked, Started, Running, Halted, Ci, Tfes, Busy, Buffer>>
vars == <<driver, port>>

(* The firmware may have left the engine running, or halted by a command   *)
(* of its own.                                                             *)
Init ==
  /\ pc = "scan" /\ i = 0 /\ ActivePort = NoPort
  /\ Table = NoLba /\ asked = NoLba /\ ret = "none"
  /\ Linked \in SUBSET (0..(PortCount - 1))
  /\ Started \in BOOLEAN /\ Running = Started
  /\ Halted \in BOOLEAN /\ (Halted => Started) /\ Ci = Halted /\ Tfes = Halted
  /\ Busy = FALSE /\ Buffer = NoLba

------------------------------------------------------------------------------
(* AhciInit. *)

ScanPort ==
  /\ pc = "scan"
  /\ IF i = PortCount THEN pc' = "none" /\ UNCHANGED i
     ELSE IF i \in Linked THEN pc' = "stop" /\ UNCHANGED i
     ELSE i' = i + 1 /\ UNCHANGED pc
  /\ UNCHANGED <<ActivePort, Table, asked, ret, port>>

(* ST is cleared, then the engine must come to rest. *)
StopCommandEngine ==
  /\ pc = "stop"
  /\ IF Started THEN Started' = FALSE /\ pc' = pc
     ELSE ~Running /\ pc' = "start" /\ UNCHANGED Started
  /\ UNCHANGED <<i, ActivePort, Table, asked, ret, Linked, Running, Halted, Ci, Tfes, Busy, Buffer>>

(* Mutant: ST is not set. *)
StartWithoutSt ==
  /\ pc = "start" /\ ~Running
  /\ pc' = "idle" /\ ActivePort' = i
  /\ UNCHANGED <<i, Table, asked, ret, port>>

StartCommandEngine ==
  /\ pc = "start" /\ ~Running
  /\ Started' = TRUE /\ pc' = "idle" /\ ActivePort' = i
  /\ UNCHANGED <<i, Table, asked, ret, Linked, Running, Halted, Ci, Tfes, Busy, Buffer>>

(* One of the pages for the command list, the received FISes and the       *)
(* command table is not to be had; the engine stays stopped.               *)
NoPage ==
  /\ pc = "start" /\ pc' = "none"
  /\ UNCHANGED <<i, ActivePort, Table, asked, ret, port>>

AhciInit == ScanPort \/ StopCommandEngine \/ NoPage \/ StartCommandEngine

------------------------------------------------------------------------------
(* AhciReadSectors. *)

ReadCall(lba) ==
  /\ pc = "idle"
  /\ asked' = lba /\ pc' = "ready"
  /\ UNCHANGED <<i, ActivePort, Table, ret, port>>

(* The first loop is over: the table is written, the status cleared, and   *)
(* the command issued.                                                     *)
Issue ==
  /\ pc = "ready" /\ ~Busy
  /\ Table' = asked
  /\ Tfes' = FALSE /\ Ci' = TRUE
  /\ pc' = "wait"
  /\ UNCHANGED <<i, ActivePort, asked, ret, Linked, Started, Running, Halted, Busy, Buffer>>

(* The second loop reads two registers in turn. *)
TestIssued ==
  /\ pc = "wait"
  /\ IF Ci THEN pc' = "check" /\ UNCHANGED ret
     ELSE pc' = "idle" /\ ret' = "ok"
  /\ UNCHANGED <<i, ActivePort, Table, asked, port>>

(* Mutant: the loop is left in the same way after an error. *)
TestErrorSucceeds ==
  /\ pc = "check"
  /\ IF Tfes THEN pc' = "idle" /\ ret' = "ok" ELSE pc' = "wait" /\ UNCHANGED ret
  /\ UNCHANGED <<i, ActivePort, Table, asked, port>>

TestError ==
  /\ pc = "check"
  /\ IF Tfes THEN pc' = "idle" /\ ret' = "error" ELSE pc' = "wait" /\ UNCHANGED ret
  /\ UNCHANGED <<i, ActivePort, Table, asked, port>>

AhciReadSectors == (\E lba \in Lbas : ReadCall(lba)) \/ Issue \/ TestIssued \/ TestError

------------------------------------------------------------------------------
(* The controller and the disk. *)

(* CR follows ST, whether a command was issued meanwhile or not.  With ST  *)
(* cleared the engine forgets the error and the command it halted at.      *)
EngineFollows ==
  /\ Running # Started /\ ~Busy
  /\ Running' = Started
  /\ Halted' = (Halted /\ Started) /\ Ci' = (Ci /\ Started)
  /\ UNCHANGED <<driver, Linked, Started, Tfes, Busy, Buffer>>

TakeCommand ==
  /\ Running /\ ~Halted /\ Ci /\ ~Busy
  /\ Busy' = TRUE
  /\ UNCHANGED <<driver, Linked, Started, Running, Halted, Ci, Tfes, Buffer>>

(* The data are in memory before the slot is cleared. *)
Succeed ==
  /\ Busy
  /\ Buffer' = Table /\ Busy' = FALSE /\ Ci' = FALSE
  /\ UNCHANGED <<driver, Linked, Started, Running, Halted, Tfes>>

(* A command that fails leaves its slot set and halts the engine, until ST *)
(* is cleared and set again.                                               *)
Fail ==
  /\ Busy
  /\ Tfes' = TRUE /\ Busy' = FALSE /\ Halted' = TRUE
  /\ UNCHANGED <<driver, Linked, Started, Running, Ci, Buffer>>

Disk == EngineFollows \/ TakeCommand \/ Succeed \/ Fail

Next == AhciInit \/ AhciReadSectors \/ Disk

Spec == Init /\ [][Next]_vars

(* The driver spins on, and the disk ends every command it takes.          *)
Driver == Issue \/ TestIssued \/ TestError
Fairness == WF_vars(AhciInit) /\ WF_vars(Driver) /\ WF_vars(Disk)

------------------------------------------------------------------------------

TypeOK ==
  /\ pc \in {"scan", "none", "stop", "start", "idle", "ready", "wait", "check"}
  /\ i \in 0..PortCount /\ ActivePort \in 0..(PortCount - 1) \cup {NoPort}
  /\ Table \in Lbas \cup {NoLba} /\ asked \in Lbas \cup {NoLba} /\ ret \in {"none", "ok", "error"}
  /\ Linked \subseteq 0..(PortCount - 1)
  /\ Started \in BOOLEAN /\ Running \in BOOLEAN /\ Halted \in BOOLEAN
  /\ Ci \in BOOLEAN /\ Tfes \in BOOLEAN /\ Busy \in BOOLEAN
  /\ Buffer \in Lbas \cup {NoLba}

(* A read that reports success has left the sectors it was asked for in    *)
(* memory, also when reads before it failed.                               *)
SuccessHasSectors == pc = "idle" /\ ret = "ok" => Buffer = asked

(* AhciInit comes to an end, whatever state the firmware left the engine   *)
(* in: its loops wait for the engine to rest, and they have no bound.      *)
InitEnds == <>(pc \notin {"scan", "stop", "start"})

(* Every read returns up to and including the first whose command fails,   *)
(* also one issued before the engine is up; its wait has no bound either.  *)
ReadReturns == pc = "ready" /\ ret # "error" ~> pc = "idle"

(* A read returns after one that failed (README, "Error codes": E111, read *)
(* error while loading file, and the machine goes on).  Does not hold: the *)
(* engine is halted and slot 0 set, and the next read waits for ever.      *)
ReadAfterErrorReturns == pc = "ready" /\ ret = "error" ~> pc = "idle"
==============================================================================
