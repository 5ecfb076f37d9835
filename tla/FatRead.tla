------------------------------- MODULE FatRead -------------------------------
(***************************************************************************)
(* Reading a mounted FAT32 volume (fat32.c): FatReadAt, FatListDir and     *)
(* NextCluster with what they keep from call to call, the buffered sector  *)
(* of the allocation table and the cursor into the last file.  The player  *)
(* and the viewer read different files of one volume in turn, and every    *)
(* sector read may fail, for the drive may be gone.                        *)
(*                                                                         *)
(* A byte of the disk is its address <<cluster, offset>>.  A loop takes    *)
(* one action per iteration, because each iteration reads the disk.        *)
(***************************************************************************)
EXTENDS Naturals, Sequences

CONSTANTS
  Clusters,            (* data clusters                                    *)
  Eoc,                 (* FAT_EOC_MIN: no cluster follows                  *)
  Fat,                 (* the allocation table: what follows a cluster     *)
  Chain,               (* Chain[c]: the clusters from c on, as Fat has them *)
  ChainLast,           (* the index of the last one                        *)
  Files,               (* directory entries of files: [first, size]        *)
  Dirs,                (* folders: [first, used], used sectors before the end mark *)
  SectorsPerCluster,
  SectorBytes,         (* 512                                              *)
  EntriesPerSector,    (* entries in a sector of the table, 128            *)
  MaxChunk,            (* sectors a data read asks for at most, 8          *)
  MaxLength,           (* bound: bytes a caller asks for                   *)
  NoSector             (* a buffer that holds no sector                    *)

ClusterBytes == SectorsPerCluster * SectorBytes

ASSUME FatConstants ==
  /\ Clusters \subseteq Nat
  /\ Eoc \notin Clusters
  /\ Fat \in [Clusters -> Clusters \cup {Eoc}]
  /\ \A x \in Files : x.first \in Nat /\ x.size \in Nat
  /\ \A x \in Dirs : x.first \in Clusters /\ x.used \in Nat
  /\ SectorsPerCluster \in Nat \ {0} /\ SectorBytes \in Nat \ {0}
  /\ EntriesPerSector \in Nat \ {0} /\ MaxChunk \in Nat \ {0} /\ MaxLength \in Nat
  /\ NoSector \notin Nat

(* Chain[c] follows the table from c.                                      *)
ChainOf(c) ==
  /\ ChainLast[c] \in Nat
  /\ Chain[c] \in [0..ChainLast[c] -> Clusters]
  /\ Chain[c][0] = c
  /\ \A i \in 0..ChainLast[c] : i # ChainLast[c] => Fat[Chain[c][i]] = Chain[c][i + 1]

(* A chain reaches its end in the table, or as far as the file's size or   *)
(* the folder's end mark.                                                  *)
Reaches(c, here) == Fat[Chain[c][ChainLast[c]]] = Eoc \/ here <= ChainLast[c]

ASSUME ChainConstants ==
  /\ \A x \in Files : x.first \in Clusters =>
       ChainOf(x.first) /\ (x.size > 0 => Reaches(x.first, (x.size - 1) \div ClusterBytes))
  /\ \A x \in Dirs : ChainOf(x.first) /\ Reaches(x.first, x.used \div SectorsPerCluster)

VARIABLES
  FatBuffer,           (* the table sector in the buffer                   *)
  FatBufferLba,        (* the one it is believed to hold                   *)
  FatBufferValid,
  CursorFirst, CursorIndex, CursorCluster,
  \* the call, and what the last one returned
  pc, file, Offset, Length, Index, Cluster, Out,
  dir, sector, listed, ret,
  ok                   (* no read has failed during the call               *)

buffer == <<FatBuffer, FatBufferLba, FatBufferValid>>
cursor == <<CursorFirst, CursorIndex, CursorCluster>>
reading == <<file, Offset, Length, Out>>
listing == <<dir, sector, listed, ret>>
vars == <<buffer, cursor, pc, reading, Index, Cluster, listing, ok>>

ClusterValid(c) == c \in Clusters

Done == Len(Out)

WantIndex == Offset \div ClusterBytes

Init ==
  /\ FatBuffer = NoSector /\ FatBufferLba = NoSector /\ FatBufferValid = FALSE
  /\ CursorFirst = Eoc /\ CursorIndex = 0 /\ CursorCluster = Eoc
  /\ pc = "idle"
  /\ file \in Files /\ Offset = 0 /\ Length = 0 /\ Out = <<>>
  /\ Index = 0 /\ Cluster = Eoc
  /\ dir \in Dirs /\ sector = 0 /\ listed = <<>> /\ ret = FALSE
  /\ ok = TRUE

------------------------------------------------------------------------------
(* NextCluster: the entry of the table, through the buffered sector. *)

FatSector(c) == c \div EntriesPerSector

(* What the buffer says follows c: anything, if it holds another sector. *)
Entry(c) == IF FatBuffer = FatSector(c) THEN {Fat[c]} ELSE Clusters \cup {Eoc}

Buffered(c) == FatBufferValid /\ FatBufferLba = FatSector(c)

(* A read that fails spoils the buffer and looks like the end of the chain. *)
NextCluster(c, next) ==
  \/ Buffered(c) /\ next \in Entry(c) /\ UNCHANGED <<buffer, ok>>
  \/ /\ ~Buffered(c)
     /\ FatBuffer' = FatSector(c) /\ FatBufferLba' = FatSector(c) /\ FatBufferValid' = TRUE
     /\ next = Fat[c]
     /\ UNCHANGED ok
  \/ /\ ~Buffered(c)
     /\ FatBuffer' = NoSector /\ FatBufferValid' = FALSE /\ ok' = FALSE
     /\ next = Eoc
     /\ UNCHANGED FatBufferLba

------------------------------------------------------------------------------
(* FatReadAt. *)

(* Mutant: the cursor of another file is used. *)
ResumeOther(x, want) == CursorIndex <= want /\ ClusterValid(CursorCluster)

(* The cursor stands in this file, not behind the offset. *)
Resume(x, want) ==
  CursorFirst = x.first /\ CursorIndex <= want /\ ClusterValid(CursorCluster)

(* Refused calls return 0. *)
ReadRefused(x, o) ==
  /\ pc = "idle"
  /\ x \in Files /\ o \in Nat
  /\ o >= x.size \/ ~ClusterValid(x.first)
  /\ file' = x /\ Offset' = o /\ Length' = 0 /\ Out' = <<>>
  /\ listed' = <<>> /\ ret' = FALSE
  /\ UNCHANGED <<buffer, cursor, pc, Index, Cluster, dir, sector, ok>>

ReadCall(x, o, n) ==
  /\ pc = "idle"
  /\ x \in Files /\ o < x.size /\ ClusterValid(x.first)
  /\ file' = x /\ Offset' = o /\ Out' = <<>>
  /\ Length' = IF n > x.size - o THEN x.size - o ELSE n
  /\ IF Resume(x, o \div ClusterBytes)
       THEN Index' = CursorIndex /\ Cluster' = CursorCluster
       ELSE Index' = 0 /\ Cluster' = x.first
  /\ pc' = "seek" /\ ok' = TRUE
  /\ listed' = <<>> /\ ret' = FALSE
  /\ UNCHANGED <<buffer, cursor, dir, sector>>

(* First loop: along the chain to the cluster of the offset.  A call that  *)
(* does not get there returns 0 and leaves the cursor alone.               *)
Seek ==
  /\ pc = "seek" /\ Index < WantIndex
  /\ \E next \in Clusters \cup {Eoc} :
       /\ NextCluster(Cluster, next)
       /\ Cluster' = next
       /\ IF ClusterValid(next) THEN Index' = Index + 1 /\ pc' = pc
          ELSE Index' = Index /\ pc' = "idle"
  /\ UNCHANGED <<cursor, reading, listing>>

SeekDone ==
  /\ pc = "seek" /\ Index >= WantIndex
  /\ pc' = IF Length > 0 THEN "copy" ELSE "save"
  /\ UNCHANGED <<buffer, cursor, reading, Index, Cluster, listing, ok>>

InCluster == (Offset + Done) % ClusterBytes
SectorInCluster == InCluster \div SectorBytes
SectorOffset == InCluster % SectorBytes
SectorsLeft == SectorsPerCluster - SectorInCluster
Chunk == IF SectorsLeft > MaxChunk THEN MaxChunk ELSE SectorsLeft
Available == Chunk * SectorBytes - SectorOffset
Take == IF Length - Done < Available THEN Length - Done ELSE Available

(* Byte i of the sectors just read. *)
SectorBuffer(i) == <<Cluster, SectorInCluster * SectorBytes + i>>

(* Mutant: a sector that cannot be read is sought again. *)
CopyRestarts ==
  /\ pc = "copy"
  /\ LET n == Take
         at == SectorOffset
     IN  \/ /\ Out' = Out \o [i \in 1..n |-> SectorBuffer(at + i - 1)]
            /\ pc' = CASE Done + n >= Length -> "save"
                       [] Done + n < Length /\ (Offset + Done + n) % ClusterBytes = 0 -> "next"
                       [] OTHER -> "copy"
            /\ UNCHANGED ok
         \/ pc' = "seek" /\ ok' = FALSE /\ UNCHANGED Out
  /\ UNCHANGED <<buffer, cursor, file, Offset, Length, Index, Cluster, listing>>

(* Second loop: a few sectors at a time, never across a cluster's end. *)
Copy ==
  /\ pc = "copy"
  /\ LET n == Take
         at == SectorOffset
     IN  \/ /\ Out' = Out \o [i \in 1..n |-> SectorBuffer(at + i - 1)]
            /\ pc' = CASE Done + n >= Length -> "save"
                       [] Done + n < Length /\ (Offset + Done + n) % ClusterBytes = 0 -> "next"
                       [] OTHER -> "copy"
            /\ UNCHANGED ok
         \/ pc' = "save" /\ ok' = FALSE /\ UNCHANGED Out
  /\ UNCHANGED <<buffer, cursor, file, Offset, Length, Index, Cluster, listing>>

Advance ==
  /\ pc = "next"
  /\ \E next \in Clusters \cup {Eoc} :
       /\ NextCluster(Cluster, next)
       /\ IF ClusterValid(next) THEN Cluster' = next /\ Index' = Index + 1 /\ pc' = "copy"
          ELSE UNCHANGED <<Cluster, Index>> /\ pc' = "save"
  /\ UNCHANGED <<cursor, reading, listing>>

(* The call returns Done. *)
Save ==
  /\ pc = "save"
  /\ CursorFirst' = file.first /\ CursorIndex' = Index /\ CursorCluster' = Cluster
  /\ pc' = "idle"
  /\ UNCHANGED <<buffer, reading, Index, Cluster, listing, ok>>

FatReadAt == Seek \/ SeekDone \/ Copy \/ Advance \/ Save

------------------------------------------------------------------------------
(* FatListDir, whose entries are the sectors that hold them. *)

ListCall(d) ==
  /\ pc = "idle"
  /\ dir' = d /\ Cluster' = d.first /\ sector' = 0 /\ listed' = <<>>
  /\ pc' = "list" /\ ret' = FALSE /\ ok' = TRUE
  /\ Length' = 0 /\ Out' = <<>>
  /\ UNCHANGED <<buffer, cursor, file, Offset, Index>>

Return(status) == pc' = "idle" /\ ret' = status

(* One sector: the end mark is in the sector after the used ones. *)
ListSector ==
  /\ pc = "list" /\ sector < SectorsPerCluster
  /\ \/ /\ Return(FALSE) /\ ok' = FALSE
        /\ UNCHANGED <<sector, listed>>
     \/ /\ Len(listed) = dir.used
        /\ Return(TRUE)
        /\ UNCHANGED <<sector, listed, ok>>
     \/ /\ Len(listed) < dir.used
        /\ listed' = Append(listed, <<Cluster, sector>>)
        /\ sector' = sector + 1
        /\ UNCHANGED <<pc, ret, ok>>
  /\ UNCHANGED <<buffer, cursor, reading, Index, Cluster, dir>>

(* Mutant: the sector count runs on into the next cluster. *)
ListNextKeepsSector ==
  /\ pc = "list" /\ sector >= SectorsPerCluster
  /\ \E next \in Clusters \cup {Eoc} :
       /\ NextCluster(Cluster, next)
       /\ Cluster' = next
       /\ IF ClusterValid(next) THEN sector' = 1 /\ UNCHANGED <<pc, ret>>
          ELSE Return(TRUE) /\ UNCHANGED sector
  /\ UNCHANGED <<cursor, reading, Index, dir, listed>>

(* A folder may end with its chain, without an end mark. *)
ListNext ==
  /\ pc = "list" /\ sector >= SectorsPerCluster
  /\ \E next \in Clusters \cup {Eoc} :
       /\ NextCluster(Cluster, next)
       /\ Cluster' = next
       /\ IF ClusterValid(next) THEN sector' = 0 /\ UNCHANGED <<pc, ret>>
          ELSE Return(TRUE) /\ UNCHANGED sector
  /\ UNCHANGED <<cursor, reading, Index, dir, listed>>

FatListDir == ListSector \/ ListNext

Calls ==
  \/ \E x \in Files : \E o \in 0..x.size :
       ReadRefused(x, o) \/ \E n \in 0..MaxLength : ReadCall(x, o, n)
  \/ \E d \in Dirs : ListCall(d)

Next == Calls \/ FatReadAt \/ FatListDir

Spec == Init /\ [][Next]_vars

(* The kernel's thread keeps running. *)
FairSpec == Spec /\ WF_vars(FatReadAt \/ FatListDir)

------------------------------------------------------------------------------

TypeOK ==
  /\ FatBuffer \in Nat \cup {NoSector} /\ FatBufferLba \in Nat \cup {NoSector}
  /\ FatBufferValid \in BOOLEAN
  /\ CursorIndex \in Nat /\ CursorCluster \in Clusters \cup {Eoc}
  /\ CursorFirst \in {x.first : x \in Files} \cup {Eoc}
  /\ pc \in {"idle", "seek", "copy", "next", "save", "list"}
  /\ file \in Files /\ Offset \in Nat /\ Length \in Nat
  /\ Out \in Seq(Clusters \X Nat)
  /\ Index \in Nat /\ Cluster \in Clusters \cup {Eoc}
  /\ dir \in Dirs /\ sector \in 0..SectorsPerCluster /\ listed \in Seq(Clusters \X Nat)
  /\ ret \in BOOLEAN /\ ok \in BOOLEAN

(* The byte of file x at offset o, along the chain from its first cluster. *)
FileByte(x, o) == <<Chain[x.first][o \div ClusterBytes], o % ClusterBytes>>

(* A read returns the bytes of its file from its offset on, in order,      *)
(* whichever files and folders were read before and whichever reads        *)
(* failed: neither the cursor nor the buffered table sector misleads it.   *)
BytesRight ==
  /\ Done <= Length
  /\ \A i \in 1..Done : Out[i] = FileByte(file, Offset + i - 1)

Intact(x) == x.size = 0 \/ (x.size - 1) \div ClusterBytes \in DOMAIN Chain[x.first]

(* A read of an intact file falls short only when a sector could not be    *)
(* read.                                                                   *)
ReadComplete ==
  pc = "idle" /\ ok /\ ClusterValid(file.first) /\ Intact(file) => Done = Length

(* The n-th sector of a folder. *)
DirSector(d, n) == <<Chain[d.first][n \div SectorsPerCluster], n % SectorsPerCluster>>

(* A listing goes through the folder's sectors in order, none twice, and   *)
(* one that succeeds without a failed read has gone through all of them.   *)
ListedRight ==
  /\ \A i \in 1..Len(listed) : listed[i] = DirSector(dir, i - 1)
  /\ pc = "idle" /\ ret /\ ok =>
       \/ Len(listed) = dir.used
       \/ Len(listed) \div SectorsPerCluster \notin DOMAIN Chain[dir.first]

(* A listing that reports success lists the whole folder (README, "Error   *)
(* codes": E102, cannot read folder).  Does not hold: NextCluster turns a  *)
(* failed read into the end of the chain, and the folder looks shorter.    *)
ShortListingIsError ==
  pc = "idle" /\ ret =>
    \/ Len(listed) = dir.used
    \/ Len(listed) \div SectorsPerCluster \notin DOMAIN Chain[dir.first]

(* Every read and every listing returns. *)
CallsReturn == pc # "idle" ~> pc = "idle"
(* A read returns the bytes of its file, and all that it was asked for     *)
(* unless a sector failed.                                                 *)
ReadsRight == BytesRight /\ ReadComplete
==============================================================================
