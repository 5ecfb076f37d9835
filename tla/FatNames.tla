------------------------------ MODULE FatNames ------------------------------
(***************************************************************************)
(* What FatRead takes for granted of a FAT32 volume (fat32.c): that        *)
(* FatMount found its regions, and the names FatListDir puts together from *)
(* the entries of a folder, which FatLookup searches.  The clusters of a   *)
(* folder are FatRead's; here a folder is its entries, in order, and every *)
(* sector of them may be unreadable.                                       *)
(*                                                                         *)
(* A name is a sequence of character codes.  A long name is cut into       *)
(* pieces, which precede the short entry last piece first; nothing but     *)
(* their place and a checksum of the short name ties them to it.           *)
(***************************************************************************)
EXTENDS Integers, Sequences, FiniteSets, SequencesExt

CONSTANTS
  BootSectors,         (* first sectors of partitions                      *)
  Starts,              (* and where they are, in sectors of 512 bytes      *)
  Pieces,              (* pieces of folders: the entries somebody wrote,   *)
                       (* and the names these are meant to have            *)
  MaxPieces,           (* bound: pieces of one folder                      *)
  Wanted,              (* names that are looked up                         *)
  ShortChecksum(_),    (* of the 11 characters of a short entry            *)
  Word,                (* 2^32                                             *)
  EntriesPerSector,    (* 16                                               *)
  PieceChars,          (* 13                                               *)
  MAX_LFN_ENTRIES,     (* 20                                               *)
  FAT_NAME_MAX,        (* 256                                              *)
  MaxCalls             (* bound                                            *)

(* The fields of the long entries are what the code reads from them.       *)
NamesConstants ==
  /\ {MaxPieces, PieceChars, MAX_LFN_ENTRIES, MaxCalls} \subseteq Nat
  /\ \A p \in Pieces :
       /\ p.entries \in Seq(Range(p.entries))
       /\ \A e \in Range(p.entries) :
            e.kind = "long" => e.seq \in Nat /\ Len(e.chars) = PieceChars

VARIABLES
  boot,                (* the partition's first sector                     *)
  V,                   (* FAT_VOLUME                                       *)
  pages,               (* how many pages the volume has                    *)
  folder,              (* the pieces of the folder                         *)
  pc, calls,
  want,                (* the name looked up, or NoName for a listing      *)
  at,                  (* the entry the loop has come to                   *)
  Lfn, LfnValid, LfnSum, LfnCount,
  listed,              (* what the callback was given                      *)
  Found, ret

volume == <<boot, V, pages>>
lfn == <<Lfn, LfnValid, LfnSum, LfnCount>>
vars == <<volume, folder, pc, calls, want, at, lfn, listed, Found, ret>>

NoName == <<>>
NotFound == [name |-> NoName, first |-> 0]
NotMounted == [mounted |-> FALSE]

Empty == [k \in 1..PieceChars |-> 65535]

Init ==
  /\ boot \in BootSectors /\ V = NotMounted /\ pages = 0
  /\ folder \in UNION {[1..k -> Pieces] : k \in 1..MaxPieces}
  /\ pc = "unmounted" /\ calls = 0 /\ want = NoName /\ at = 0
  /\ Lfn = [k \in 1..MAX_LFN_ENTRIES |-> [c \in 1..PieceChars |-> 0]]
  /\ LfnValid = FALSE /\ LfnSum = 0 /\ LfnCount = 0
  /\ listed = <<>> /\ Found = NotFound /\ ret = FALSE

------------------------------------------------------------------------------
(* Mounting. *)

FatBootSectorValid(s) ==
  /\ s.signed
  /\ s.bps \in {512, 1024, 2048, 4096}
  /\ s.spc \in {1, 2, 4, 8, 16, 32, 64, 128}
  /\ s.reserved # 0 /\ s.fats \in {1, 2}
  /\ s.rootEntries = 0 /\ s.fatSize # 0 /\ s.root >= 2

Scale == boot.bps \div 512

(* The volume counts in its own sectors, everything here in 512 bytes.     *)
Volume(start) ==
  [mounted |-> TRUE,
   StartLba |-> start,
   SectorsPerCluster |-> (boot.spc * Scale) % 2^16,
   FatStart |-> boot.reserved * Scale,
   FirstData |-> (boot.reserved * Scale + boot.fats * boot.fatSize * Scale) % Word,
   RootCluster |-> boot.root]

(* Either page may be refused, the sector may be unreadable; a volume that *)
(* is not mounted keeps neither page.                                      *)
FatMount ==
  /\ pc = "unmounted" /\ pc' = "idle"
  /\ \/ /\ FatBootSectorValid(boot) /\ pages' = 2
        /\ \E start \in Starts : V' = Volume(start)
     \/ UNCHANGED <<V, pages>>
  /\ UNCHANGED <<boot, folder, calls, want, at, lfn, listed, Found, ret>>

ClusterLba(c) == V.StartLba + V.FirstData + (c - 2) * V.SectorsPerCluster

(* NextCluster: the sector that holds the table's entry for c. *)
TableLba(c) == V.StartLba + V.FatStart + (c * 4) \div 512

------------------------------------------------------------------------------
(* Names. *)

LowerAscii(c) == IF c \in 65..90 THEN c + 32 ELSE c
Lowered(name) == [k \in DOMAIN name |-> LowerAscii(name[k])]
NamesEqual(a, b) == Lowered(a) = Lowered(b)

(* E5 as the first byte marks a deleted entry, so a name that begins with  *)
(* it is stored with 05.                                                   *)
BuildShortName(e) ==
  LET first == IF e.base # <<>> /\ Head(e.base) = 5 THEN <<229>> \o Tail(e.base) ELSE e.base
  IN (IF "base" \in e.lower THEN Lowered(first) ELSE first) \o
     (IF e.ext = <<>> THEN <<>>
      ELSE <<46>> \o (IF "ext" \in e.lower THEN Lowered(e.ext) ELSE e.ext))

(* The characters before the end mark or the first that was never given.   *)
LongName ==
  LET last == IF LfnCount < MAX_LFN_ENTRIES THEN LfnCount ELSE MAX_LFN_ENTRIES
      all == FlattenSeq([k \in 1..last |-> Lfn[k]])
      ends == {k \in DOMAIN all : all[k] \in {0, 65535}} \cup {Len(all) + 1, FAT_NAME_MAX}
      text == SubSeq(all, 1, (CHOOSE k \in ends : \A x \in ends : k <= x) - 1)
  IN [k \in DOMAIN text |-> IF text[k] < 128 THEN text[k] ELSE 63]

------------------------------------------------------------------------------
(* FatListDir, an entry per step. *)

Entries == FlattenSeq([k \in DOMAIN folder |-> folder[k].entries])
E == Entries[at]

Call ==
  /\ pc = "idle" /\ V.mounted /\ calls < MaxCalls
  /\ pc' = "listing" /\ calls' = calls + 1 /\ want' \in Wanted \cup {NoName}
  /\ at' = 1 /\ LfnValid' = FALSE /\ LfnSum' = 0 /\ LfnCount' = 0
  /\ listed' = <<>> /\ Found' = NotFound
  /\ UNCHANGED <<volume, folder, Lfn, ret>>

Return(status) == pc' = "idle" /\ ret' = status /\ UNCHANGED at
Continue == at' = at + 1 /\ UNCHANGED <<pc, ret>>

Listing == pc = "listing" /\ UNCHANGED <<volume, folder, calls, want>>
IsEntry(kind) == Listing /\ at <= Len(Entries) /\ E.kind = kind

ReadFails ==
  /\ Listing /\ at <= Len(Entries) /\ at % EntriesPerSector = 1
  /\ Return(FALSE) /\ UNCHANGED <<lfn, listed, Found>>

(* The end mark, or no cluster follows. *)
Ends ==
  /\ Listing /\ (at <= Len(Entries) => E.kind = "end")
  /\ Return(TRUE) /\ UNCHANGED <<lfn, listed, Found>>

NoFile ==
  /\ \E kind \in {"deleted", "label"} : IsEntry(kind)
  /\ LfnValid' = FALSE /\ Continue
  /\ UNCHANGED <<Lfn, LfnSum, LfnCount, listed, Found>>

LongEntry ==
  /\ IsEntry("long")
  /\ LfnSum' = IF E.last THEN E.sum ELSE LfnSum
  /\ LfnCount' = IF E.last THEN E.seq ELSE LfnCount
  /\ LfnValid' = ((E.last \/ LfnValid) /\ E.seq \in 1..MAX_LFN_ENTRIES /\ E.sum = LfnSum')
  /\ Lfn' = [k \in 1..MAX_LFN_ENTRIES |->
               IF LfnValid' /\ k = E.seq THEN E.chars ELSE IF E.last THEN Empty ELSE Lfn[k]]
  /\ Continue /\ UNCHANGED <<listed, Found>>

Name ==
  IF LfnValid /\ ShortChecksum(E) = LfnSum THEN LongName ELSE BuildShortName(E)

(* The callback: LookupCallback stops at the name it looks for, the one of *)
(* a listing takes what there is.                                          *)
Callback(entry) ==
  /\ listed' = Append(listed, entry)
  /\ IF want # NoName /\ NamesEqual(entry.name, want)
     THEN Found' = entry /\ Return(TRUE)
     ELSE UNCHANGED Found /\ Continue

(* Mutant: pieces stay valid behind the entry they were for. *)
ShortEntryKeeps ==
  /\ IsEntry("short")
  /\ IF Name \in {<<46>>, <<46, 46>>} THEN Continue /\ UNCHANGED <<listed, Found>>
     ELSE Callback([name |-> Name, first |-> E.first])
  /\ UNCHANGED lfn

ShortEntry ==
  /\ IsEntry("short")
  /\ LfnValid' = FALSE
  /\ IF Name \in {<<46>>, <<46, 46>>} THEN Continue /\ UNCHANGED <<listed, Found>>
     ELSE Callback([name |-> Name, first |-> E.first])
  /\ UNCHANGED <<Lfn, LfnSum, LfnCount>>

FatListDir == ReadFails \/ Ends \/ NoFile \/ LongEntry \/ ShortEntry

Next == FatMount \/ Call \/ FatListDir

Spec == Init /\ [][Next]_vars /\ WF_vars(FatListDir)

------------------------------------------------------------------------------
TypeOK ==
  /\ boot \in BootSectors /\ pages \in {0, 2}
  /\ pc \in {"unmounted", "idle", "listing"} /\ calls \in 0..MaxCalls
  /\ want \in Wanted \cup {NoName}
  /\ at \in 0..Len(Entries) + 1
  /\ DOMAIN Lfn = 1..MAX_LFN_ENTRIES /\ \A k \in DOMAIN Lfn : Len(Lfn[k]) = PieceChars
  /\ LfnValid \in BOOLEAN /\ ret \in BOOLEAN
  /\ LfnValid => LfnCount >= 1

(* The clusters and the entries of the table are where the volume's own    *)
(* sectors put them, in bytes, and no sector of a table is taken for data: *)
(* FatMount's numbers fit those of ClusterLba and NextCluster, for every   *)
(* sector size.  And a volume has its two pages or is not mounted.         *)
GeometryAgrees ==
  /\ V.mounted = (pages = 2)
  /\ V.mounted =>
       LET Bytes(n) == n * boot.bps
           region == boot.reserved + boot.fats * boot.fatSize
       IN \A c \in 2..(2 + boot.clusters - 1) :
            /\ (ClusterLba(c) - V.StartLba) * 512 = Bytes(region + (c - 2) * boot.spc)
            /\ (ClusterLba(c + 1) - ClusterLba(c)) * 512 = Bytes(boot.spc)
            /\ (TableLba(c) - V.StartLba) * 512 \in
                 Bytes(boot.reserved)..(Bytes(boot.reserved + boot.fatSize) - 512)

(* The names the folder's writers meant its files to have, up to its end.  *)
Meant ==
  LET ended == {k \in DOMAIN folder : folder[k].entries = <<[kind |-> "end"]>>}
      live == {k \in DOMAIN folder : \A x \in ended : k < x}
  IN FlattenSeq([k \in 1..Cardinality(live) |-> folder[k].names])

(* FatListDir gives each file the long name that was written for it, whole *)
(* and of no other file, and its short name when the long one is damaged,  *)
(* was left by a deleted file, or belongs to another; a listing that       *)
(* succeeds has all of them.                                               *)
NamesRight ==
  /\ IsPrefix(listed, Meant)
  /\ pc = "idle" /\ ret /\ want = NoName /\ calls > 0 => listed = Meant

(* FatLookup finds the first file of that name, in whatever case; it does  *)
(* not find it only when there is none or a sector before it could not be  *)
(* read.                                                                   *)
LookupRight ==
  pc = "idle" /\ want # NoName =>
    LET same == {k \in DOMAIN Meant : NamesEqual(Meant[k].name, want)}
    IN IF Found = NotFound THEN ret => same = {}
       ELSE \E k \in same : Found = Meant[k] /\ \A x \in same : k <= x
==============================================================================
