------------------------------ MODULE PartScan ------------------------------
(***************************************************************************)
(* PartScanDevice of part.c: what kind of disk it is, the walk over a GPT  *)
(* or over an MBR and its chains of extended boot records (EBRs), AddPart  *)
(* and ProbeFs, on one drive.                                              *)
(*                                                                         *)
(* A disk is what the code looks at: the entries of its tables, which of   *)
(* its sectors cannot be read, and what its file systems start with.  The  *)
(* tables count in the drive's own sectors, of Ratio * 512 bytes; the list *)
(* of partitions and BlockReadFrom count in 512 bytes.                     *)
(***************************************************************************)
EXTENDS Integers, Sequences, FiniteSets, SequencesExt

CONSTANTS
  Disks,               (* the disks that may be there                      *)
  Ratios,              (* BlockSectorSize / 512                            *)
  Rooms,               (* how many partitions there may be room for        *)
  MAX_EBR_CHAIN        (* 4096                                             *)

PartConstants ==
  /\ Ratios \subseteq Nat \ {0} /\ Rooms \subseteq Nat /\ MAX_EBR_CHAIN \in Nat \ {0}
  /\ \A d \in Disks : d.gpt.count \in Nat

VARIABLES
  disk, Ratio, Room,
  pc,
  Scanned, Calls,
  Sector,              (* the 512-byte address Sector was last filled from *)
  Parts, Found, ret,
  i, Logical,          (* ScanMbr                                          *)
  ExtStart, Ebr, n,
  Index                (* ScanGpt: s * PerSector + e                       *)

given == <<disk, Ratio, Room>>
mbr == <<i, Logical, ExtStart, Ebr, n>>
vars == <<given, pc, Scanned, Calls, Sector, Parts, Found, ret, mbr, Index>>

(* What BlockReadFrom can read: whole sectors of the drive. *)
CanRead(lba) == (lba \div Ratio) \notin disk.bad
ReadNative(lba) == CanRead(lba * Ratio)

Init ==
  /\ disk \in Disks /\ Ratio \in Ratios /\ Room \in Rooms
  /\ pc = "idle" /\ Scanned = FALSE /\ Calls = 0
  /\ Sector = -1 /\ Parts = <<>> /\ Found = 0 /\ ret = -1
  /\ i = 1 /\ Logical = 5 /\ ExtStart = 0 /\ Ebr = 0 /\ n = 0 /\ Index = 0

------------------------------------------------------------------------------
(* One partition. *)

StartsWith(lba) == IF lba \in DOMAIN disk.fs THEN disk.fs[lba] ELSE "blank"

BootFs == {"FAT32", "FAT16", "NTFS"}

(* The file system, and what the sector buffer holds when it is known. *)
ProbeFs(start) ==
  IF ~CanRead(start) THEN [fs |-> "unknown", sector |-> Sector]
  ELSE IF StartsWith(start) \in BootFs THEN [fs |-> StartsWith(start), sector |-> start]
  ELSE IF ~CanRead(start + 2) THEN [fs |-> "unknown", sector |-> start]
  ELSE [fs |-> IF StartsWith(start + 2) = "ext superblock" THEN "ext" ELSE "unknown",
        sector |-> start + 2]

Part(number, start, count, scheme) ==
  [number |-> number, start |-> start, count |-> count, scheme |-> scheme, fs |-> ProbeFs(start).fs]

HasRoom == Len(Parts) < Room

AddPart(number, start, count, scheme) ==
  /\ Parts' = Append(Parts, Part(number, start, count, scheme))
  /\ Sector' = ProbeFs(start).sector
  /\ Found' = Found + 1

NoPart == UNCHANGED <<Parts, Found>>

Return(r) == ret' = r /\ pc' = "done"

------------------------------------------------------------------------------
(* PartScanDevice: also when the device has been scanned before, and when  *)
(* there is no page for the sector buffer.                                 *)

PartScanDevice ==
  /\ pc = "idle" /\ Calls < 2
  /\ Calls' = Calls + 1 /\ UNCHANGED <<given, mbr, Index>>
  /\ \/ /\ Scanned \/ Sector = -1
        /\ ret' = 0 /\ UNCHANGED <<pc, Scanned, Sector, Parts, Found>>
     \/ /\ ~Scanned /\ Scanned' = TRUE
        /\ IF ~CanRead(0) THEN Return(0) /\ NoPart /\ UNCHANGED Sector
           ELSE IF disk.fat
             THEN IF HasRoom THEN AddPart(1, 0, disk.size * Ratio, "RAW") /\ Return(1)
                  ELSE Return(0) /\ NoPart /\ Sector' = 0
           ELSE /\ NoPart /\ Sector' = 0
                /\ IF ~disk.signed THEN Return(0)
                   ELSE /\ UNCHANGED ret
                        /\ pc' = IF \E k \in 1..4 : disk.mbr[k].type = "gpt" THEN "gpt" ELSE "mbr"

(* ScanGpt's header.  One with entries that do not fit its sectors counts  *)
(* as none.                                                                *)
GptHeader ==
  /\ pc = "gpt"
  /\ IF ReadNative(1) /\ disk.gpt.valid THEN pc' = "entries" /\ UNCHANGED ret ELSE Return(0)
  /\ UNCHANGED <<given, Scanned, Calls, Sector, Parts, Found, mbr, Index>>

GptEnd == Index = disk.gpt.count

(* One entry of ScanGpt, behind the read of its sector if it is the first. *)
GptEntry ==
  /\ pc = "entries"
  /\ LET G == disk.gpt
         E == G.entries[Index + 1]
     IN  IF GptEnd \/ (Index % G.per = 0 /\ ~ReadNative(G.lba + Index \div G.per))
           THEN Return(Found) /\ UNCHANGED <<Index, Parts, Found, Sector>>
         ELSE IF ~E.used \/ E.last < E.first
           THEN Index' = Index + 1 /\ UNCHANGED <<pc, ret, Parts, Found, Sector>>
         ELSE IF HasRoom
           THEN /\ AddPart(Index + 1, E.first * Ratio, (E.last - E.first + 1) * Ratio, "GPT")
                /\ Index' = Index + 1 /\ UNCHANGED <<pc, ret>>
         ELSE Return(Found) /\ UNCHANGED <<Index, Parts, Found, Sector>>
  /\ UNCHANGED <<given, Scanned, Calls, mbr>>

Used(E) == E.type # "none" /\ E.count # 0

(* The numbers of a chain go on from the one before. *)
FirstLogical == UNCHANGED Logical

(* One primary entry of ScanMbr, or the head of a chain. *)
MbrEntry ==
  /\ pc = "mbr"
  /\ IF i = 5 THEN Return(Found) /\ UNCHANGED <<mbr, Parts, Found, Sector>>
     ELSE LET E == disk.mbr[i]
          IN  IF ~Used(E)
                THEN i' = i + 1 /\ UNCHANGED <<pc, ret, Logical, ExtStart, Ebr, n, Parts, Found, Sector>>
              ELSE IF E.type = "extended"
                THEN /\ ExtStart' = E.start /\ Ebr' = E.start /\ n' = 0 /\ pc' = "ebr"
                     /\ FirstLogical /\ UNCHANGED <<i, ret, Parts, Found, Sector>>
              ELSE IF HasRoom
                THEN /\ AddPart(i, E.start * Ratio, E.count * Ratio, "MBR")
                     /\ i' = i + 1 /\ UNCHANGED <<pc, ret, Logical, ExtStart, Ebr, n>>
              ELSE Return(Found) /\ UNCHANGED <<mbr, Parts, Found, Sector>>
  /\ UNCHANGED <<given, Scanned, Calls, Index>>

NoEntry == [type |-> "none", start |-> 0, count |-> 0]

(* The second entry of the record that a buffer filled from lba holds. *)
Link(lba) ==
  IF lba % Ratio = 0 /\ lba \div Ratio \in DOMAIN disk.ebr
    THEN disk.ebr[lba \div Ratio].next ELSE NoEntry

(* Mutant: the link is taken from the buffer when the partition was probed. *)
Ebr1Late(read, now) == Link(now)

(* Both entries are copied before the partition is probed. *)
Ebr1(read, now) == Link(read)

LastOfChain(next) ==
  \/ next.type = "none" \/ next.start = 0
  \/ ExtStart + next.start <= Ebr
  \/ n + 1 = MAX_EBR_CHAIN

(* Mutant: the entry of the chain is gone back to. *)
ChainEndStays == pc' = "mbr" /\ UNCHANGED <<i, ExtStart, Ebr, n, ret>>

ChainEnd == pc' = "mbr" /\ i' = i + 1 /\ UNCHANGED <<ExtStart, Ebr, n, ret>>

(* One extended boot record. *)
EbrEntry ==
  /\ pc = "ebr"
  /\ IF ~ReadNative(Ebr) THEN ChainEnd /\ NoPart /\ UNCHANGED <<Sector, Logical>>
     ELSE IF Ebr \notin DOMAIN disk.ebr THEN ChainEnd /\ NoPart /\ Sector' = Ebr * Ratio /\ UNCHANGED Logical
     ELSE LET L == disk.ebr[Ebr].entry
          IN  IF Used(L) /\ ~HasRoom
                THEN Return(Found) /\ NoPart /\ Sector' = Ebr * Ratio /\ UNCHANGED mbr
              ELSE /\ IF Used(L)
                        THEN /\ AddPart(Logical, (Ebr + L.start) * Ratio, L.count * Ratio, "MBR")
                             /\ Logical' = Logical + 1
                        ELSE NoPart /\ Sector' = Ebr * Ratio /\ UNCHANGED Logical
                   /\ LET next == Ebr1(Ebr * Ratio, Sector')
                      IN  IF LastOfChain(next) THEN ChainEnd
                          ELSE /\ Ebr' = ExtStart + next.start /\ n' = n + 1
                               /\ UNCHANGED <<pc, ret, i, ExtStart>>
  /\ UNCHANGED <<given, Scanned, Calls, Index>>

(* The caller is done with the result. *)
Finish ==
  /\ pc = "done" /\ pc' = "idle"
  /\ UNCHANGED <<given, Scanned, Calls, Sector, Parts, Found, ret, mbr, Index>>

Walk == GptHeader \/ GptEntry \/ MbrEntry \/ EbrEntry \/ Finish

Next == PartScanDevice \/ Walk

Spec == Init /\ [][Next]_vars

(* PartScanDevice runs on until it returns.                                *)
Fairness == WF_vars(Walk)

------------------------------------------------------------------------------
(* What the tables of a disk say, independently of a walk. *)

FsOf(start) ==
  IF CanRead(start) /\ StartsWith(start) \in BootFs THEN StartsWith(start)
  ELSE IF CanRead(start) /\ CanRead(start + 2) /\ StartsWith(start + 2) = "ext superblock" THEN "ext"
  ELSE "unknown"

Says(number, start, count, scheme) ==
  [number |-> number, start |-> start * Ratio, count |-> count * Ratio,
   scheme |-> scheme, fs |-> FsOf(start * Ratio)]

InOrder(S) == SetToSortSeq(S, <)

(* The entries in use, in front of the first sector that cannot be read. *)
GptSays ==
  LET G == disk.gpt
      used == {k \in 1..G.count : /\ G.entries[k].used /\ G.entries[k].first <= G.entries[k].last
                                  /\ \A s \in 0..((k - 1) \div G.per) : ReadNative(G.lba + s)}
      Entry(k) == Says(k, G.entries[k].first, G.entries[k].last - G.entries[k].first + 1, "GPT")
      order == InOrder(used)
  IN  IF ReadNative(1) /\ G.valid THEN [k \in DOMAIN order |-> Entry(order[k])] ELSE <<>>

(* A chain: the records that lead on from the first, always upwards. *)
Chain(first) ==
  LET Records == {r \in DOMAIN disk.ebr : ReadNative(r)}
      To(r) == first + disk.ebr[r].next.start
      Leads(r) == disk.ebr[r].next.type # "none" /\ To(r) > r /\ To(r) > first
      Closed(S) == \A r \in S : Leads(r) /\ To(r) \in Records => To(r) \in S
      all == {S \in SUBSET Records : first \in S /\ Closed(S)}
      order == InOrder(CHOOSE S \in all : \A T \in all : S \subseteq T)
  IN  IF first \notin Records THEN <<>>
      ELSE SubSeq(order, 1, IF Len(order) < MAX_EBR_CHAIN THEN Len(order) ELSE MAX_EBR_CHAIN)

(* The primaries, and the logical partitions as 0, to be numbered. *)
MbrSays ==
  LET IsUsed(r) == Used(disk.ebr[r].entry)
      Logicals(first) ==
        LET order == SelectSeq(Chain(first), IsUsed)
        IN  [k \in DOMAIN order |->
               Says(0, order[k] + disk.ebr[order[k]].entry.start, disk.ebr[order[k]].entry.count, "MBR")]
      Entry(k) ==
        LET E == disk.mbr[k]
        IN  IF ~Used(E) THEN <<>>
            ELSE IF E.type = "extended" THEN Logicals(E.start)
            ELSE <<Says(k, E.start, E.count, "MBR")>>
      all == FlattenSeq([k \in 1..4 |-> Entry(k)])
      Before(k) == Cardinality({j \in 1..(k - 1) : all[j].number = 0})
  IN  [k \in DOMAIN all |->
         IF all[k].number # 0 THEN all[k] ELSE [all[k] EXCEPT !.number = 5 + Before(k)]]

DiskSays ==
  IF ~CanRead(0) THEN <<>>
  ELSE IF disk.fat THEN <<Says(1, 0, disk.size, "RAW")>>
  ELSE IF ~disk.signed THEN <<>>
  ELSE IF \E k \in 1..4 : disk.mbr[k].type = "gpt" THEN GptSays
  ELSE MbrSays

------------------------------------------------------------------------------

TypeOK ==
  /\ pc \in {"idle", "gpt", "entries", "mbr", "ebr", "done"}
  /\ Scanned \in BOOLEAN /\ Calls \in 0..2 /\ ret >= -1
  /\ Len(Parts) <= Room /\ Found = Len(Parts)
  /\ i \in 1..5 /\ n < MAX_EBR_CHAIN /\ Logical >= 5
  /\ pc = "entries" => Index \in 0..disk.gpt.count

(* A scan that is over has listed what the tables of the disk say, in      *)
(* their order and each once, as far as there is room: whatever the probes *)
(* of its partitions did to the buffer the tables were read with, and      *)
(* however the chains are linked.  A second call adds nothing.             *)
ListsWhatTheDiskSays ==
  Scanned /\ pc \in {"done", "idle"} =>
    Parts = SubSeq(DiskSays, 1, IF Len(DiskSays) < Room THEN Len(DiskSays) ELSE Room)

(* No two partitions of a drive have the same name, and so a path never    *)
(* means the wrong one.                                                    *)
NumbersDistinct ==
  \A j, k \in DOMAIN Parts : Parts[j].number = Parts[k].number => j = k

(* The scan of any disk comes to an end, also of chains that lead back.    *)
ScanReturns == pc # "idle" ~> pc = "idle"
==============================================================================
