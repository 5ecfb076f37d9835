------------------------------- MODULE MCDisks -------------------------------
(***************************************************************************)
(* The drivers of the built-in disks and the scan for partitions.  They    *)
(* are compiled side by side and share no state, so a behaviour is one of  *)
(* one part: `part` says which, and the others stay as they were.          *)
(***************************************************************************)
EXTENDS Nvme, Integers, Sequences, FiniteSets

CONSTANTS
  MCParts,                                         (* the parts to look at *)
  PortCount, Lbas, NoPort, NoLba,                  (* those of Ahci        *)
  Disks, Ratios, Rooms, MAX_EBR_CHAIN,             (* those of PartScan    *)
  BootSectors, Starts, Pieces, MaxPieces, Wanted, Word, EntriesPerSector,
  PieceChars, MAX_LFN_ENTRIES, FAT_NAME_MAX, MaxCalls  (* those of FatNames *)

(* What partitions a disk may have. *)

Entry(type, start) == [type |-> type, start |-> start, count |-> 2]
None == [type |-> "none", start |-> 0, count |-> 0]
Link1(start) == IF start = 0 THEN None ELSE [type |-> "extended", start |-> start, count |-> 1]
Record(entry, next) == [entry |-> entry, next |-> Link1(next)]

(* What the first and third sectors of partitions hold. *)
FirstSectors == [lba \in {x \in 0..30 : x % 5 \in {1, 3, 4}} |->
         CASE lba % 5 = 1 -> "FAT32" [] lba % 5 = 3 -> "ext superblock" [] OTHER -> "NTFS"]

NoGpt == [valid |-> FALSE, lba |-> 2, count |-> 0, per |-> 1, entries |-> <<>>]

Blank ==
  [fat |-> FALSE, signed |-> TRUE, size |-> 40, bad |-> {}, fs |-> FirstSectors,
   mbr |-> [k \in 1..4 |-> None], ebr |-> [r \in {} |-> None], gpt |-> NoGpt]

(* Chains from 2 and from 6 that go on, stop, lead back, to themselves,    *)
(* into each other, or to what is no record.                               *)
Chains ==
  {[r \in {2, 3, 4, 6} |->
      CASE r = 2 -> Record(a, x) [] r = 3 -> Record(b, y)
        [] r = 4 -> Record(Entry("data", 1), z) [] OTHER -> Record(c, w)] :
    a \in {None, Entry("data", 1)}, b \in {None, Entry("data", 1)}, c \in {None, Entry("data", 2)},
    x \in {0, 1, 2}, y \in {0, 1, 2}, z \in {1, 4}, w \in {0, 1}}

MbrDisks ==
  {[Blank EXCEPT !.mbr = <<Entry("data", 1), Entry("extended", 2), None, q>>,
                 !.ebr = c, !.bad = b] :
    q \in {None, Entry("data", 9), Entry("extended", 6)}, c \in Chains, b \in {{}, {3}}}

Slot(first, last) == [used |-> TRUE, first |-> first, last |-> last]
Free == [used |-> FALSE, first |-> 0, last |-> 0]

(* Three entries, two in a sector, and something behind the last.          *)
GptDisks ==
  {[Blank EXCEPT !.mbr[k].type = "gpt", !.bad = b,
                 !.gpt = [valid |-> v, lba |-> 2, count |-> 3, per |-> 2,
                          entries |-> <<e1, e2, e3, Slot(13, 14)>>]] :
    k \in {1, 3}, v \in BOOLEAN, b \in {{}, {0}, {1}, {3}},
    e1 \in {Free, Slot(5, 5), Slot(7, 6)}, e2 \in {Free, Slot(8, 11)}, e3 \in {Free, Slot(12, 12)}}

MCDiskSet ==
  MbrDisks \cup GptDisks \cup
  {[Blank EXCEPT !.fat = f, !.signed = s, !.bad = b] : f, s \in BOOLEAN, b \in {{}, {0}}}

(* Boot sectors: of every sector size, and with what FatMount refuses.     *)
Boot(bps, spc) ==
  [signed |-> TRUE, bps |-> bps, spc |-> spc, reserved |-> 2, fats |-> 2, rootEntries |-> 0,
   fatSize |-> 2, root |-> 2, clusters |-> 120]
Standard == Boot(512, 2)
MCBoots ==
  {Boot(b, c) : b \in {512, 1024, 4096}, c \in {1, 8}} \cup
  {Standard, [Standard EXCEPT !.signed = FALSE], [Standard EXCEPT !.spc = 3],
   [Standard EXCEPT !.rootEntries = 16], [Standard EXCEPT !.fats = 3]}

(* Short entries, whose checksums meet when their first letters are both   *)
(* odd or both even, and the long names written for them: characters of    *)
(* 97 and 98, and one that is not ASCII.                                   *)
Short(first, c) ==
  [kind |-> "short", base |-> <<c>>, ext |-> IF first > 2 THEN <<66>> ELSE <<>>,
   lower |-> IF first > 2 THEN {"ext"} ELSE {}, first |-> first]
ShortSum(e) == IF e.base = <<>> THEN 0 ELSE Head(e.base) % 2

LongPiece(long, sum, k) ==
  [kind |-> "long", seq |-> k, last |-> 2 * k >= Len(long), sum |-> sum,
   chars |-> [c \in 1..2 |-> LET x == 2 * (k - 1) + c IN
                IF x <= Len(long) THEN long[x] ELSE IF x = Len(long) + 1 THEN 0 ELSE 65535]]
LongPieces(long, sum) ==
  LET last == (Len(long) + 1) \div 2
  IN [k \in 1..last |-> LongPiece(long, sum, last + 1 - k)]

Gone == <<[kind |-> "deleted"]>>
File(entries, name, first) == [entries |-> entries, names |-> <<[name |-> name, first |-> first]>>]
Junk(entries) == [entries |-> entries, names |-> <<>>]

MCPieces ==
  LET a == Short(3, 65)  n1 == <<97, 98, 97>>
      b == Short(4, 67)  n2 == <<98, 98, 300, 97>>
      c == Short(5, 66)  n3 == <<97, 97, 97, 97, 97, 98>>
      d == Short(2, 5)   o == <<98, 97, 98>>
  IN {File(Append(LongPieces(n1, 1), a), n1, 3),
      File(Append(LongPieces(n2, 1), b), <<98, 98, 63, 97>>, 4),
      File(Append(LongPieces(n3, 0), c), <<97, 97, 97, 97, 97>>, 5),
      File(<<d>>, <<229>>, 2),
      (* renamed by a system that knows short names only                   *)
      File(Append(LongPieces(o, 0), d), <<229>>, 2),
      (* the first, or a middle, of the long entries is lost               *)
      File(Gone \o Append(Tail(LongPieces(n3, 0)), c), <<66, 46, 98>>, 5),
      File(<<LongPieces(n3, 0)[1]>> \o Gone \o <<LongPieces(n3, 0)[3], c>>, <<66, 46, 98>>, 5),
      (* deleted by a system that knows short names only                   *)
      Junk(LongPieces(n1, 1) \o Gone),
      Junk(LongPieces(o, 1) \o <<[kind |-> "label"]>>),
      Junk(<<[d EXCEPT !.base = <<46>>], [d EXCEPT !.base = <<46, 46>>]>>),
      Junk(Gone), Junk(<<[kind |-> "end"]>>)}

MCWanted == {<<66, 65, 66>>, <<229>>}

VARIABLES
  part,
  \* Ahci
  ahciPc, ahciI, ActivePort, Table, asked, ahciRet,
  Linked, Started, Running, Halted, Ci, Tfes, Busy, Buffer,
  \* PartScan
  disk, Ratio, Room, scanPc, Scanned, Calls, Sector, Parts, Found, scanRet,
  i, Logical, ExtStart, Ebr, n, Index,
  \* FatNames
  boot, V, pages, folder, namesPc, calls, want, at, Lfn, LfnValid, LfnSum, LfnCount,
  listed, namesFound, namesRet

A == INSTANCE Ahci WITH pc <- ahciPc, i <- ahciI, ret <- ahciRet
P == INSTANCE PartScan WITH pc <- scanPc, ret <- scanRet
F == INSTANCE FatNames
     WITH pc <- namesPc, Found <- namesFound, ret <- namesRet, ShortChecksum <- ShortSum

ASSUME SataConstants == A!AhciConstants
ASSUME TableConstants == P!PartConstants
ASSUME EntryConstants == F!NamesConstants

ahci == <<ahciPc, ahciI, ActivePort, Table, asked, ahciRet,
          Linked, Started, Running, Halted, Ci, Tfes, Busy, Buffer>>
scan == <<disk, Ratio, Room, scanPc, Scanned, Calls, Sector, Parts, Found, scanRet,
          i, Logical, ExtStart, Ebr, n, Index>>
names == <<boot, V, pages, folder, namesPc, calls, want, at, Lfn, LfnValid, LfnSum, LfnCount,
           listed, namesFound, namesRet>>
all == <<part, vars, ahci, scan, names>>

Least(S) == CHOOSE x \in S : \A y \in S : x <= y

DisksInit ==
  /\ part \in MCParts
  /\ Init
  /\ A!Init /\ (part = "ahci" \/ (Linked = {} /\ ~Started))
  /\ part # "scan" => disk = Blank /\ Ratio = Least(Ratios) /\ Room = Least(Rooms)
  /\ P!Init
  /\ part # "names" => boot = Standard /\ folder = <<Junk(Gone)>>
  /\ F!Init
  /\ part = "names" => boot = Standard \/ Len(folder) = 1

NvmeOnly == part = "nvme" /\ UNCHANGED <<part, ahci, scan, names>>
AhciOnly == part = "ahci" /\ UNCHANGED <<part, vars, scan, names>>
ScanOnly == part = "scan" /\ UNCHANGED <<part, vars, ahci, names>>
NamesOnly == part = "names" /\ UNCHANGED <<part, vars, ahci, scan>>

DisksNext ==
  \/ NvmeOnly /\ Next
  \/ AhciOnly /\ A!Next
  \/ ScanOnly /\ P!Next
  \/ NamesOnly /\ F!Next

(* Each part with its own fairness (see Fairness in its module).           *)
DisksSpec ==
  /\ DisksInit /\ [][DisksNext]_all
  /\ WF_all(NvmeOnly /\ Answer) /\ WF_all(NvmeOnly /\ Controller)
  /\ WF_all(AhciOnly /\ A!AhciInit) /\ WF_all(AhciOnly /\ A!Driver) /\ WF_all(AhciOnly /\ A!Disk)
  /\ WF_all(ScanOnly /\ P!Walk) /\ WF_all(NamesOnly /\ F!FatListDir)

------------------------------------------------------------------------------
(* The drivers' variables keep their types; the status returned is that of *)
(* the command it is returned for (see Nvme), a SATA read that reports     *)
(* success has its sectors (see Ahci), and no two partitions of a drive    *)
(* share a name (see PartScan).                                            *)
StateSound ==
  /\ TypeOK /\ AnswersItself
  /\ A!TypeOK /\ A!SuccessHasSectors
  /\ P!TypeOK /\ P!NumbersDistinct
  /\ part = "names" => F!TypeOK

(* The list of partitions is what the disk says (see PartScan), a volume's *)
(* regions are where its boot sector puts them, and the files of a folder  *)
(* have the names written for them and are found by them (see FatNames).   *)
ListsWhatTheDiskSays ==
  /\ P!ListsWhatTheDiskSays
  /\ part = "names" => F!GeometryAgrees /\ F!NamesRight /\ F!LookupRight

(* NVMe reads, AhciInit, SATA reads up to the first that fails, and the    *)
(* scan of any disk come to an end (see Nvme, Ahci, PartScan).             *)
CallsReturn ==
  /\ ReadAnswered
  /\ part = "ahci" => A!InitEnds
  /\ A!ReadReturns
  /\ P!ScanReturns

(* A SATA read returns after one that failed; it does not (see Ahci).      *)
ReadAfterErrorReturns == A!ReadAfterErrorReturns
==============================================================================
