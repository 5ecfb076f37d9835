------------------------------ MODULE BlockRead ------------------------------
(***************************************************************************)
(* BlockReadFrom of blockdev.c: a read in sectors of 512 bytes from a      *)
(* device whose own sectors are one, two, four or eight of these.  Every   *)
(* call of the device's driver is a step, and may fail.                    *)
(*                                                                         *)
(* The contents of a 512-byte sector is its address on the device.         *)
(***************************************************************************)
EXTENDS Integers

CONSTANTS
  Registered,      (* block devices: [ratio, sectors, max], see below      *)
  Lbas, Counts,    (* what callers ask for                                 *)
  BufferSize,      (* 512-byte places of memory watched: more than is read *)
  NoData

(* ValidSectorSize and AddDevice.  A device of unknown size has 0 sectors. *)
ASSUME BlockConstants ==
  /\ Registered \subseteq [ratio : {1, 2, 4, 8}, sectors : Nat, max : Nat \ {0}]
  /\ Lbas \subseteq Nat /\ Counts \subseteq Nat
  /\ BufferSize \in Nat /\ \A n \in Counts : n <= BufferSize
  /\ NoData \notin Nat

VARIABLES
  D, Online,           (* the device                                       *)
  pc, Lba, Count, Out, (* the call: what is left to read, and to where     *)
  Bounce,              (* the device's sector held in the bounce buffer    *)
  Buffer,              (* the caller's memory                              *)
  asked, ret,          (* history: the call's arguments, its result        *)
  driver               (* history: the driver's last call, [at, n]         *)

progress == <<Lba, Count, Out, Bounce, Buffer>>
vars == <<D, Online, pc, progress, asked, ret, driver>>

Places == 0..(BufferSize - 1)

Init ==
  /\ D \in Registered /\ Online = TRUE
  /\ pc = "idle" /\ Lba = 0 /\ Count = 0 /\ Out = 0 /\ Bounce = NoData
  /\ Buffer = [j \in Places |-> NoData]
  /\ asked = [lba |-> 0, count |-> 0] /\ ret = "ok" /\ driver = [at |-> 0, n |-> 0]

BlockRemove ==
  /\ pc = "idle" /\ Online
  /\ Online' = FALSE
  /\ UNCHANGED <<D, pc, progress, asked, ret, driver>>

Within(lba, count) ==
  D.sectors # 0 => lba < D.sectors * D.ratio /\ count <= D.sectors * D.ratio - lba

(* The call, as far as the loops. *)
BlockReadFrom(lba, count) ==
  /\ pc = "idle"
  /\ asked' = [lba |-> lba, count |-> count]
  /\ Lba' = lba /\ Count' = count /\ Out' = 0
  /\ Buffer' = [j \in Places |-> NoData]
  /\ IF ~Online THEN ret' = "offline" /\ pc' = "idle"
     ELSE IF count = 0 THEN ret' = "ok" /\ pc' = "idle"
     ELSE IF ~Within(lba, count) THEN ret' = "beyond" /\ pc' = "idle"
     ELSE pc' = "reading" /\ UNCHANGED ret
  /\ UNCHANGED <<D, Online, Bounce, driver>>

Offset == Lba % D.ratio

Native == Lba \div D.ratio

(* Mutant: an unaligned start is not noticed. *)
DirectUnaligned == Count >= D.ratio

(* The next sectors go straight to the caller: Ratio = 1, or whole sectors.*)
Direct == Offset = 0 /\ Count >= D.ratio

(* How many of the device's sectors one call of the driver may read. *)
Whole == IF Count \div D.ratio > D.max THEN D.max ELSE Count \div D.ratio

Advance(done) ==
  /\ Lba' = Lba + done /\ Out' = Out + done /\ Count' = Count - done
  /\ IF Count' = 0 THEN pc' = "idle" /\ ret' = "ok" ELSE UNCHANGED <<pc, ret>>

ReadDirect ==
  /\ pc = "reading" /\ Direct
  /\ driver' = [at |-> Native, n |-> Whole]
  /\ Buffer' = [j \in Places |-> IF j >= Out /\ j < Out + Whole * D.ratio
                                 THEN Native * D.ratio + (j - Out) ELSE Buffer[j]]
  /\ Advance(Whole * D.ratio)
  /\ UNCHANGED <<D, Online, Bounce, asked>>

(* Mutant: the rest of the sector is copied, asked for or not. *)
TakeRest == D.ratio - Offset

Take == IF D.ratio - Offset > Count THEN Count ELSE D.ratio - Offset

(* Part of a sector, by way of the bounce buffer. *)
ReadBounce ==
  /\ pc = "reading" /\ ~Direct
  /\ driver' = [at |-> Native, n |-> 1]
  /\ Bounce' = Native
  /\ Buffer' = [j \in Places |-> IF j >= Out /\ j < Out + Take
                                 THEN Bounce' * D.ratio + Offset + (j - Out) ELSE Buffer[j]]
  /\ Advance(Take)
  /\ UNCHANGED <<D, Online, asked>>

(* The driver fails; what it has written by then is of no interest.        *)
DriverFails ==
  /\ pc = "reading"
  /\ driver' = [at |-> Native, n |-> IF Direct THEN Whole ELSE 1]
  /\ pc' = "idle" /\ ret' = "error"
  /\ UNCHANGED <<D, Online, progress, asked>>

ReadStep == ReadDirect \/ ReadBounce \/ DriverFails

Next == BlockRemove \/ (\E lba \in Lbas, count \in Counts : BlockReadFrom(lba, count)) \/ ReadStep

Spec == Init /\ [][Next]_vars

(* The kernel's one thread is in the call, and the driver returns.         *)
FairSpec == Spec /\ WF_vars(ReadDirect \/ ReadBounce)

------------------------------------------------------------------------------

TypeOK ==
  /\ D \in Registered /\ Online \in BOOLEAN
  /\ pc \in {"idle", "reading"} /\ Lba \in Nat /\ Count \in Nat /\ Out \in Nat
  /\ Bounce \in Nat \cup {NoData} /\ Buffer \in [Places -> Nat \cup {NoData}]
  /\ asked \in [lba : Lbas \cup {0}, count : Counts \cup {0}]
  /\ ret \in {"ok", "offline", "beyond", "error"}
  /\ driver \in [at : Nat, n : Nat]

(* A read that reports success has put the sectors asked for at their      *)
(* places, whatever mixture of whole and part sectors they were.           *)
ReadIsExact ==
  pc = "idle" /\ ret = "ok" => \A j \in 0..(asked.count - 1) : Buffer[j] = asked.lba + j

(* Nothing is written beyond the caller's buffer: the sectors that the     *)
(* device's larger sectors bring along stay in the bounce buffer.          *)
NoOverrun == \A j \in Places : j >= asked.count => Buffer[j] = NoData

(* A driver is asked for no more sectors than it said it can read at once, *)
(* and for none that the device does not have.                             *)
DriverLimits ==
  driver.n <= D.max /\ (D.sectors # 0 => driver.at + driver.n <= D.sectors)

(* Nothing is touched but what was asked for, neither in memory nor on the *)
(* device.                                                                 *)
NothingElse == NoOverrun /\ DriverLimits

(* A call ends: every round of the loops reads something.                  *)
ReadEnds == pc = "reading" ~> pc = "idle"
==============================================================================
