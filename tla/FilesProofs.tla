----------------------------- MODULE FilesProofs -----------------------------
(***************************************************************************)
(* From the volume to the screen, for every volume, tree, folder and file, *)
(* every sequence of calls and every pattern of failing sectors.  Reads    *)
(* and listings: where on its chain a call stands, and that the buffered   *)
(* table sector and the cursor say what they seem to say.  Volumes: each   *)
(* stands for a partition before the cursor, in order.  The explorer: the  *)
(* list has no entry twice, the selection is on the screen, and what is    *)
(* not marked for drawing is drawn.  The viewer: the window is where       *)
(* clamping would put it, and what is not marked is drawn.                 *)
(***************************************************************************)
EXTENDS MCFiles, FiniteSetTheorems, SequenceTheorems, WellFoundedInduction, TLAPS

(* What the two caches promise. *)
FatHonest == FatBufferValid => FatBuffer = FatBufferLba

OnChain(c, n, cluster) ==
  c \in Clusters /\ ChainOf(c) /\ n \in 0..ChainLast[c] /\ cluster = Chain[c][n]

CursorOnChain == CursorFirst # Eoc => OnChain(CursorFirst, CursorIndex, CursorCluster)

(* Where a read stands. *)
ReadOnChain ==
  pc \in {"seek", "copy", "next", "save"} =>
    /\ OnChain(file.first, Index, Cluster)
    /\ Offset < file.size /\ Offset + Length <= file.size
    /\ Reaches(file.first, (file.size - 1) \div ClusterBytes)

Position ==
  /\ pc = "seek" => Index <= WantIndex /\ Out = <<>>
  /\ pc = "copy" => Done < Length /\ Index = (Offset + Done) \div ClusterBytes
  /\ pc = "next" => Done < Length /\ (Offset + Done) % ClusterBytes = 0
                    /\ Index + 1 = (Offset + Done) \div ClusterBytes
  /\ pc = "save" /\ ok /\ Intact(file) => Done = Length
  /\ pc # "idle" => ~ret

(* Where a listing stands. *)
Listing ==
  pc = "list" =>
    /\ \E n \in Nat : OnChain(dir.first, n, Cluster) /\ Len(listed) = n * SectorsPerCluster + sector
    /\ Len(listed) <= dir.used
    /\ Length = 0 /\ Out = <<>>

Inv ==
  /\ TypeOK /\ FatHonest /\ CursorOnChain /\ ReadOnChain /\ Position /\ Listing
  /\ BytesRight /\ ReadComplete /\ ListedRight

------------------------------------------------------------------------------
(* Arithmetic of positions. *)

LEMMA Product ==
  ASSUME NEW a \in Nat \ {0}, NEW b \in Nat \ {0}
  PROVE  a * b \in Nat \ {0}
OBVIOUS

LEMMA UnitsPositive ==
  ClusterBytes \in Nat \ {0} /\ SectorsPerCluster \in Nat \ {0} /\ SectorBytes \in Nat \ {0}
<1>1. SectorsPerCluster \in Nat \ {0} /\ SectorBytes \in Nat \ {0}
  BY FatConstants
<1> QED BY <1>1, Product DEF ClusterBytes

LEMMA DivMod ==
  ASSUME NEW a \in Nat, NEW b \in Nat \ {0}
  PROVE  a % b \in 0..(b - 1) /\ a \div b \in Nat
OBVIOUS

LEMMA DivModSum ==
  ASSUME NEW a \in Int, NEW b \in Int, b > 0
  PROVE  a = b * (a \div b) + (a % b)
BY Z3

LEMMA Unique ==
  ASSUME NEW b \in Nat \ {0}, NEW q \in Nat, NEW r \in 0..(b - 1)
  PROVE  (q * b + r) \div b = q /\ (q * b + r) % b = r
OBVIOUS

LEMMA WithinUnit ==
  ASSUME NEW a \in Nat, NEW b \in Nat \ {0}, NEW i \in Nat, (a % b) + i < b
  PROVE  (a + i) \div b = a \div b /\ (a + i) % b = (a % b) + i
OBVIOUS

(* A step that ends on a boundary is in the unit before it. *)
LEMMA ReachesBoundary ==
  ASSUME NEW a \in Nat, NEW b \in Nat \ {0}, NEW i \in Nat \ {0}, (a % b) + i <= b
  PROVE  (a + i) % b = 0 => a \div b + 1 = (a + i) \div b
OBVIOUS

LEMMA StaysWithin ==
  ASSUME NEW a \in Nat, NEW b \in Nat \ {0}, NEW i \in Nat \ {0}, (a % b) + i <= b
  PROVE  (a + i) % b # 0 => a \div b = (a + i) \div b
OBVIOUS

LEMMA DivMonotone ==
  ASSUME NEW a \in Nat, NEW c \in Nat, NEW b \in Nat \ {0}, a <= c
  PROVE  a \div b <= c \div b
OBVIOUS

LEMMA ProductMonotone ==
  ASSUME NEW x \in Nat, NEW y \in Nat, NEW b \in Nat, x <= y
  PROVE  x * b <= y * b /\ x * b \in Nat /\ y * b \in Nat
BY Z3

LEMMA Distributes ==
  ASSUME NEW x \in Int, NEW y \in Int, NEW b \in Int
  PROVE  (x + y) * b = x * b + y * b /\ x * b \in Int /\ y * b \in Int
BY Z3

LEMMA Commutes ==
  ASSUME NEW x \in Nat, NEW y \in Nat
  PROVE  x * y = y * x /\ x * y \in Nat
BY Z3

LEMMA DivBelow ==
  ASSUME NEW a \in Nat, NEW p \in Nat, NEW b \in Nat \ {0}, a < p * b
  PROVE  a \div b < p
<1>1. a \div b \in Nat /\ a % b \in 0..(b - 1)
  BY ZenonT(40), DivMod
<1>2. a = b * (a \div b) + (a % b)
  <2>1. b \in Int /\ a \in Int /\ b > 0
    OBVIOUS
  <2> QED BY <2>1, DivModSum
<1>3. b * (a \div b) <= a
  <2> DEFINE q == a \div b
             r == a % b
  <2>1. q \in Nat /\ r \in 0..(b - 1) /\ a = b * q + r
    BY <1>1, <1>2
  <2>2. b * q \in Nat
    BY <2>1, Commutes
  <2> HIDE DEF q, r
  <2>3. b * q <= a
    BY <2>1, <2>2
  <2> QED BY <2>3 DEF q
<1> SUFFICES ASSUME p <= a \div b PROVE FALSE
  BY <1>1
<1>4. p * b <= (a \div b) * b /\ (a \div b) * b \in Nat /\ p * b \in Nat
  BY <1>1, ProductMonotone
<1>5. b * (a \div b) = (a \div b) * b
  BY <1>1, Commutes
<1> QED BY <1>3, <1>4, <1>5

(* A byte of a file is not behind the cluster of its last byte.            *)
LEMMA LastCluster ==
  ASSUME NEW p \in Nat, NEW size \in Nat, p < size
  PROVE  /\ p \div ClusterBytes \in Nat /\ (size - 1) \div ClusterBytes \in Nat
         /\ p \div ClusterBytes <= (size - 1) \div ClusterBytes
<1>1. size - 1 \in Nat /\ p <= size - 1
  OBVIOUS
<1>2. ClusterBytes \in Nat \ {0}
  BY UnitsPositive
<1>3. p \div ClusterBytes <= (size - 1) \div ClusterBytes
  BY <1>1, <1>2, DivMonotone
<1>4. p \div ClusterBytes \in Nat
  BY <1>2, DivMod
<1>5. (size - 1) \div ClusterBytes \in Nat
  BY <1>1, <1>2, DivMod
<1> QED BY <1>3, <1>4, <1>5

------------------------------------------------------------------------------

(* NextCluster tells the truth, or says "end" after a failed read. *)
LEMMA NextIsFat ==
  ASSUME TypeOK, FatHonest, NEW c \in Clusters, NEW next \in Clusters \cup {Eoc},
         NextCluster(c, next)
  PROVE  /\ FatHonest'
         /\ FatBuffer' \in Nat \cup {NoSector} /\ FatBufferLba' \in Nat \cup {NoSector}
         /\ FatBufferValid' \in BOOLEAN /\ ok' \in BOOLEAN
         /\ ok' => ok
         /\ next = Fat[c] \/ (next = Eoc /\ ~ok')
<1>1. FatSector(c) \in Nat
  BY FatConstants DEF FatSector
<1>2. CASE Buffered(c) /\ next \in Entry(c) /\ UNCHANGED <<buffer, ok>>
  <2>1. FatBuffer = FatSector(c)
    BY <1>2 DEF Buffered, FatHonest
  <2>2. next = Fat[c]
    BY <1>2, <2>1 DEF Entry
  <2> QED BY <1>2, <2>2 DEF buffer, FatHonest, TypeOK
<1>3. CASE /\ ~Buffered(c)
           /\ FatBuffer' = FatSector(c) /\ FatBufferLba' = FatSector(c) /\ FatBufferValid' = TRUE
           /\ next = Fat[c]
           /\ UNCHANGED ok
  BY <1>1, <1>3 DEF FatHonest, TypeOK
<1>4. CASE /\ ~Buffered(c)
           /\ FatBuffer' = NoSector /\ FatBufferValid' = FALSE /\ ok' = FALSE
           /\ next = Eoc
           /\ UNCHANGED FatBufferLba
  BY ZenonT(40), <1>4 DEF FatHonest, TypeOK
<1> QED BY ZenonT(40), <1>2, <1>3, <1>4 DEF NextCluster

LEMMA NextHere ==
  ASSUME Inv, Cluster \in Clusters, NEW next \in Clusters \cup {Eoc}, NextCluster(Cluster, next)
  PROVE  /\ FatHonest' /\ ok' \in BOOLEAN /\ (ok' => ok)
         /\ FatBuffer' \in Nat \cup {NoSector} /\ FatBufferLba' \in Nat \cup {NoSector}
         /\ FatBufferValid' \in BOOLEAN
         /\ next = Fat[Cluster] \/ (next = Eoc /\ ~ok')
<1>1. TypeOK /\ FatHonest
  BY DEF Inv
<1>2. ASSUME NEW c \in Clusters, NextCluster(c, next)
      PROVE  /\ FatHonest' /\ ok' \in BOOLEAN /\ (ok' => ok)
             /\ FatBuffer' \in Nat \cup {NoSector} /\ FatBufferLba' \in Nat \cup {NoSector}
             /\ FatBufferValid' \in BOOLEAN
             /\ next = Fat[c] \/ (next = Eoc /\ ~ok')
  BY <1>1, <1>2, NextIsFat
<1> QED BY <1>2

(* One step along a chain that goes on. *)
LEMMA ChainStep ==
  ASSUME NEW c, NEW n \in Nat, NEW cluster, OnChain(c, n, cluster),
         NEW here \in Nat, Reaches(c, here), n < here, Fat[cluster] \in Clusters
  PROVE  OnChain(c, n + 1, Fat[cluster])
<1>1. n # ChainLast[c]
  BY FatConstants DEF OnChain, ChainOf, Reaches
<1> QED BY <1>1 DEF OnChain, ChainOf

(* A chain that stops, stops at its last index. *)
LEMMA ChainStops ==
  ASSUME NEW c, NEW n \in Nat, NEW cluster, OnChain(c, n, cluster), Fat[cluster] \notin Clusters
  PROVE  n = ChainLast[c]
<1> SUFFICES ASSUME n # ChainLast[c] PROVE FALSE
  OBVIOUS
<1>1. n + 1 \in 0..ChainLast[c] /\ Chain[c][n + 1] \in Clusters /\ Fat[Chain[c][n]] = Chain[c][n + 1]
  BY DEF OnChain, ChainOf
<1> QED BY <1>1 DEF OnChain

LEMMA InitInv == Init => Inv
<1> SUFFICES ASSUME Init PROVE Inv
  OBVIOUS
<1>1. TypeOK
  <2>1. <<>> \in Seq(Clusters \X Nat)
    OBVIOUS
  <2>2. 0 \in 0..SectorsPerCluster
    BY UnitsPositive
  <2> QED BY ZenonT(40), <2>1, <2>2 DEF Init, TypeOK
<1>2. FatHonest /\ CursorOnChain /\ ReadOnChain /\ Position /\ Listing
  BY DEF Init, FatHonest, CursorOnChain, ReadOnChain, Position, Listing
<1>3. BytesRight /\ ReadComplete /\ ListedRight
  BY DEF Init, BytesRight, ReadComplete, ListedRight, Done
<1> QED BY <1>1, <1>2, <1>3 DEF Inv

------------------------------------------------------------------------------
(* FatReadAt. *)

LEMMA ReadRefusedStep ==
  ASSUME Inv, NEW x, NEW o, ReadRefused(x, o)
  PROVE  Inv'
<1> USE DEF ReadRefused, buffer, cursor
<1>1. TypeOK'
  <2>1. <<>> \in Seq(Clusters \X Nat)
    OBVIOUS
  <2> QED BY ZenonT(40), <2>1 DEF Inv, TypeOK
<1>2. FatHonest' /\ CursorOnChain' /\ ReadOnChain' /\ Position' /\ Listing'
  BY DEF Inv, FatHonest, CursorOnChain, ReadOnChain, Position, Listing
<1>3. BytesRight' /\ ReadComplete' /\ ListedRight'
  BY DEF BytesRight, ReadComplete, ListedRight, Done
<1> QED BY <1>1, <1>2, <1>3 DEF Inv

LEMMA ReadCallStep ==
  ASSUME Inv, NEW x \in Files, NEW o \in Nat, NEW n \in Nat, ReadCall(x, o, n)
  PROVE  Inv'
<1> USE DEF ReadCall, buffer, cursor, ClusterValid
<1>0. x.size \in Nat /\ x.first \in Clusters /\ o < x.size /\ o \div ClusterBytes \in Nat
  BY ZenonT(40), FatConstants, UnitsPositive, DivMod
<1>1. OnChain(x.first, Index', Cluster') /\ Index' <= o \div ClusterBytes
  <2>1. CASE Resume(x, o \div ClusterBytes)
    BY <1>0, <2>1, FatConstants DEF Resume, Inv, CursorOnChain
  <2>2. CASE ~Resume(x, o \div ClusterBytes)
    BY <1>0, <2>2, ChainConstants DEF OnChain, ChainOf
  <2> QED BY <2>1, <2>2
<1>2. Length' \in Nat /\ o + Length' <= x.size
  BY <1>0
<1>3. TypeOK'
  <2>1. Index' \in Nat /\ Cluster' \in Clusters
    BY <1>1 DEF OnChain, ChainOf
  <2>2. <<>> \in Seq(Clusters \X Nat) /\ pc' = "seek"
    OBVIOUS
  <2> QED BY ZenonT(40), <1>0, <1>2, <2>1, <2>2 DEF Inv, TypeOK
<1>4. ReadOnChain' /\ Position'
  BY <1>0, <1>1, <1>2, ChainConstants DEF ReadOnChain, Position, WantIndex
<1>5. FatHonest' /\ CursorOnChain' /\ Listing'
  BY DEF Inv, FatHonest, CursorOnChain, Listing
<1>6. BytesRight' /\ ReadComplete' /\ ListedRight'
  BY <1>2 DEF BytesRight, ReadComplete, ListedRight, Done
<1> QED BY <1>3, <1>4, <1>5, <1>6 DEF Inv

(* A chain that stops before the offset belongs to a file that is not      *)
(* intact.                                                                 *)
LEMMA StopsShort ==
  ASSUME TypeOK, ReadOnChain, pc \in {"seek", "next"}, Fat[Cluster] \notin Clusters,
         NEW p \in Nat, p < file.size, Index < p \div ClusterBytes
  PROVE  ~Intact(file)
<1> SUFFICES ASSUME Intact(file) PROVE FALSE
  OBVIOUS
<1>1. OnChain(file.first, Index, Cluster) /\ file.size \in Nat /\ Index \in Nat
  BY FatConstants DEF ReadOnChain, TypeOK
<1>2. Index = ChainLast[file.first]
  BY ZenonT(40), <1>1, ChainStops
<1>3. (file.size - 1) \div ClusterBytes <= ChainLast[file.first]
  <2>1. DOMAIN Chain[file.first] = 0..ChainLast[file.first]
    BY <1>1 DEF OnChain, ChainOf
  <2> QED BY <1>1, <2>1 DEF Intact
<1>4. p \div ClusterBytes <= (file.size - 1) \div ClusterBytes
  BY <1>1, UnitsPositive, DivMonotone
<1> QED
  <2>1. p \div ClusterBytes \in Nat /\ (file.size - 1) \div ClusterBytes \in Nat
    BY SMTT(30), <1>1, UnitsPositive, DivMod
  <2> QED BY <1>1, <1>2, <1>3, <1>4, <2>1

LEMMA SeekStep ==
  ASSUME Inv, Seek
  PROVE  Inv'
<1> USE DEF Seek, cursor, reading, listing, ClusterValid
<1>1. PICK next \in Clusters \cup {Eoc} : NextCluster(Cluster, next) /\ Cluster' = next
  OBVIOUS
<1>2. /\ OnChain(file.first, Index, Cluster) /\ Cluster \in Clusters
      /\ Index \in Nat /\ Offset \in Nat /\ file.size \in Nat /\ Offset < file.size
      /\ Reaches(file.first, (file.size - 1) \div ClusterBytes)
  <2>1. file \in Files /\ file.size \in Nat /\ Index \in Nat /\ Offset \in Nat
    BY FatConstants DEF Inv, TypeOK
  <2>2. /\ OnChain(file.first, Index, Cluster) /\ Offset < file.size
        /\ Reaches(file.first, (file.size - 1) \div ClusterBytes)
    BY DEF Inv, ReadOnChain
  <2> QED BY <2>1, <2>2 DEF OnChain, ChainOf
<1>3. /\ FatHonest' /\ ok' \in BOOLEAN /\ (ok' => ok)
      /\ FatBuffer' \in Nat \cup {NoSector} /\ FatBufferLba' \in Nat \cup {NoSector}
      /\ FatBufferValid' \in BOOLEAN
      /\ next = Fat[Cluster] \/ (next = Eoc /\ ~ok')
  BY <1>1, <1>2, NextHere
<1>4. /\ WantIndex \in Nat /\ (file.size - 1) \div ClusterBytes \in Nat
      /\ WantIndex <= (file.size - 1) \div ClusterBytes
  <2>1. Offset \in Nat /\ file.size \in Nat /\ Offset < file.size
    BY <1>2
  <2> QED BY <2>1, LastCluster DEF WantIndex
<1>5. CASE next \in Clusters
  <2>1. pc' = "seek" /\ Index' = Index + 1 /\ Cluster' = Fat[Cluster]
    BY <1>1, <1>3, <1>5, FatConstants
  <2>2. OnChain(file.first, Index + 1, Fat[Cluster])
    BY <1>2, <1>3, <1>4, <1>5, FatConstants, ChainStep
  <2>3. TypeOK'
    BY <1>1, <1>2, <1>3, <2>1 DEF Inv, TypeOK
  <2>4. ReadOnChain' /\ Position' /\ Listing' /\ CursorOnChain'
    BY <1>2, <1>4, <2>1, <2>2
    DEF Inv, ReadOnChain, Position, Listing, CursorOnChain, WantIndex
  <2>5. BytesRight' /\ ReadComplete' /\ ListedRight'
    BY <2>1 DEF Inv, Position, BytesRight, ReadComplete, ListedRight, Done, FileByte, DirSector
  <2> QED BY <1>3, <2>3, <2>4, <2>5 DEF Inv
<1>6. CASE next \notin Clusters
  <2>1. pc' = "idle" /\ Index' = Index
    BY <1>1, <1>6
  <2>2. ~(ok' /\ Intact(file))
    BY <1>2, <1>3, <1>4, <1>6, StopsShort DEF Inv, WantIndex
  <2>3. TypeOK'
    BY <1>1, <1>2, <1>3, <2>1 DEF Inv, TypeOK
  <2>4. ReadOnChain' /\ Position' /\ Listing' /\ CursorOnChain'
    BY <2>1 DEF Inv, ReadOnChain, Position, Listing, CursorOnChain
  <2>5. ReadComplete'
    BY <2>1, <2>2 DEF ReadComplete, Intact
  <2>6. BytesRight' /\ ListedRight'
    BY <1>3, <2>1 DEF Inv, Position, BytesRight, ListedRight, Done, FileByte, DirSector
  <2> QED BY <1>3, <2>3, <2>4, <2>5, <2>6 DEF Inv
<1> QED BY <1>5, <1>6

(* A read takes at least a byte, no more than it was asked for, and stays  *)
(* within the cluster.                                                     *)
LEMMA TakeBounds ==
  ASSUME TypeOK, Position, pc = "copy"
  PROVE  /\ Take \in Nat \ {0} /\ Take <= Length - Done /\ Done \in Nat
         /\ InCluster \in Nat /\ InCluster + Take <= ClusterBytes
         /\ SectorOffset \in Nat /\ SectorInCluster \in Nat
         /\ SectorInCluster * SectorBytes \in Nat
         /\ SectorInCluster * SectorBytes + SectorOffset = InCluster
<1>1. Done \in Nat /\ Offset \in Nat /\ Length \in Nat /\ Done < Length
  BY DEF TypeOK, Position, Done
<1>2. /\ ClusterBytes \in Nat \ {0} /\ SectorsPerCluster \in Nat \ {0}
      /\ SectorBytes \in Nat \ {0} /\ MaxChunk \in Nat \ {0}
      /\ ClusterBytes = SectorsPerCluster * SectorBytes
  BY UnitsPositive, FatConstants DEF ClusterBytes
<1>3. InCluster \in 0..(ClusterBytes - 1)
  BY <1>1, <1>2, DivMod DEF InCluster
<1>4. SectorOffset \in 0..(SectorBytes - 1) /\ SectorInCluster \in Nat
  <2>1. InCluster \in Nat /\ SectorBytes \in Nat \ {0}
    BY <1>2, <1>3
  <2> QED BY ZenonT(40), <2>1, DivMod DEF SectorOffset, SectorInCluster
<1>5. InCluster = SectorBytes * SectorInCluster + SectorOffset
  <2>1. InCluster \in Int /\ SectorBytes \in Int /\ SectorBytes > 0
    BY <1>2, <1>3
  <2> QED BY <2>1, DivModSum DEF SectorOffset, SectorInCluster
<1>6. SectorInCluster < SectorsPerCluster
  BY <1>2, <1>3, DivBelow DEF SectorInCluster
<1>7. Chunk \in Nat \ {0} /\ SectorInCluster + Chunk <= SectorsPerCluster
  BY <1>2, <1>4, <1>6 DEF Chunk, SectorsLeft
<1>8. /\ SectorBytes * SectorInCluster = SectorInCluster * SectorBytes
      /\ SectorInCluster * SectorBytes \in Nat
  BY <1>2, <1>4, Commutes
<1>9. Chunk * SectorBytes \in Nat /\ SectorBytes <= Chunk * SectorBytes
  <2>1. 1 * SectorBytes <= Chunk * SectorBytes /\ Chunk * SectorBytes \in Nat
    BY <1>2, <1>7, ProductMonotone
  <2> QED BY <1>2, <2>1
<1>10. SectorInCluster * SectorBytes + Chunk * SectorBytes <= ClusterBytes
  <2>1. (SectorInCluster + Chunk) * SectorBytes <= SectorsPerCluster * SectorBytes
    BY <1>2, <1>4, <1>7, ProductMonotone
  <2>2. (SectorInCluster + Chunk) * SectorBytes = SectorInCluster * SectorBytes + Chunk * SectorBytes
    BY <1>2, <1>4, <1>7, Distributes
  <2> QED BY <1>2, <2>1, <2>2
<1>11. /\ Available \in Nat \ {0}
       /\ InCluster + Available = SectorInCluster * SectorBytes + Chunk * SectorBytes
  BY <1>2, <1>3, <1>4, <1>5, <1>8, <1>9 DEF Available
<1>12. Take \in Nat \ {0} /\ Take <= Length - Done /\ Take <= Available
  BY <1>1, <1>11 DEF Take
<1> QED BY <1>1, <1>2, <1>3, <1>4, <1>5, <1>8, <1>10, <1>11, <1>12

LEMMA SeekDoneStep ==
  ASSUME Inv, SeekDone
  PROVE  Inv'
<1> USE DEF SeekDone, buffer, cursor, reading, listing
<1>1. /\ Index = WantIndex /\ Out = <<>> /\ Done = 0 /\ ~ret
      /\ Offset \in Nat /\ Index \in Nat /\ Length \in Nat /\ WantIndex \in Nat
  <2>1. Index <= WantIndex /\ Out = <<>> /\ Index \in Nat /\ Offset \in Nat /\ Length \in Nat /\ ~ret
    BY DEF Inv, Position, TypeOK
  <2>2. WantIndex \in Nat
    BY <2>1, UnitsPositive, DivMod DEF WantIndex
  <2> QED BY <2>1, <2>2 DEF Done
<1>2. pc' \in {"copy", "save"} /\ (pc' = "copy" <=> Length > 0)
  OBVIOUS
<1>3. TypeOK'
  BY <1>2 DEF Inv, TypeOK
<1>4. Position'
  BY <1>1, <1>2 DEF Position, Done, WantIndex
<1>5. FatHonest' /\ CursorOnChain' /\ ReadOnChain' /\ Listing'
  BY <1>2 DEF Inv, FatHonest, CursorOnChain, ReadOnChain, Listing
<1>6. BytesRight' /\ ReadComplete' /\ ListedRight'
  BY <1>1, <1>2 DEF Inv, BytesRight, ReadComplete, ListedRight, Done, FileByte
<1> QED BY <1>3, <1>4, <1>5, <1>6 DEF Inv

LEMMA CopyStep ==
  ASSUME Inv, Copy
  PROVE  Inv'
<1> DEFINE n == Take
           data == [i \in 1..n |-> SectorBuffer(SectorOffset + i - 1)]
<1> USE DEF buffer, cursor, listing
<1>1. pc = "copy" /\ TypeOK /\ Position /\ BytesRight
  BY DEF Inv, Copy
<1>2. /\ n \in Nat \ {0} /\ n <= Length - Done /\ Done \in Nat
      /\ InCluster \in Nat /\ InCluster + n <= ClusterBytes
      /\ SectorOffset \in Nat /\ SectorInCluster \in Nat
      /\ SectorInCluster * SectorBytes \in Nat
      /\ SectorInCluster * SectorBytes + SectorOffset = InCluster
  BY <1>1, TakeBounds
<1>3. /\ OnChain(file.first, Index, Cluster) /\ Cluster \in Clusters
      /\ Index = (Offset + Done) \div ClusterBytes /\ Done < Length
      /\ Offset \in Nat /\ Length \in Nat /\ Out \in Seq(Clusters \X Nat) /\ ~ret
  BY ZenonT(120), <1>1 DEF Inv, ReadOnChain, Position, OnChain, ChainOf, TypeOK
<1>4. /\ UNCHANGED <<buffer, cursor, file, Offset, Length, Index, Cluster, listing>>
      /\ \/ /\ Out' = Out \o data
            /\ pc' = CASE Done + n >= Length -> "save"
                       [] Done + n < Length /\ (Offset + Done + n) % ClusterBytes = 0 -> "next"
                       [] OTHER -> "copy"
            /\ UNCHANGED ok
         \/ pc' = "save" /\ ok' = FALSE /\ UNCHANGED Out
  BY ZenonT(40) DEF Copy
<1> HIDE DEF n
<1>5. FatHonest' /\ CursorOnChain' /\ Listing' /\ ReadOnChain'
  <2>1. pc' \in {"copy", "next", "save"}
    BY <1>2, <1>3, <1>4
  <2> QED BY <1>1, <1>4, <2>1 DEF Inv, FatHonest, CursorOnChain, Listing, ReadOnChain
<1>6. CASE pc' = "save" /\ ok' = FALSE /\ UNCHANGED Out
  <2>1. TypeOK'
    BY ZenonT(40), <1>1, <1>4, <1>6 DEF TypeOK
  <2>2. Position' /\ BytesRight' /\ ReadComplete' /\ ListedRight'
    BY <1>1, <1>3, <1>4, <1>6
    DEF Inv, Position, BytesRight, ReadComplete, ListedRight, Done, FileByte
  <2> QED BY <1>5, <2>1, <2>2 DEF Inv
<1>7. CASE /\ Out' = Out \o data
           /\ pc' = CASE Done + n >= Length -> "save"
                      [] Done + n < Length /\ (Offset + Done + n) % ClusterBytes = 0 -> "next"
                      [] OTHER -> "copy"
           /\ UNCHANGED ok
  <2>1. \A i \in 1..n : data[i] = <<Cluster, InCluster + (i - 1)>>
    <3> TAKE i \in 1..n
    <3>1. SectorInCluster * SectorBytes + (SectorOffset + i - 1) = InCluster + (i - 1)
      BY <1>2
    <3>2. data[i] = SectorBuffer(SectorOffset + i - 1)
      OBVIOUS
    <3>3. data[i] = <<Cluster, SectorInCluster * SectorBytes + (SectorOffset + i - 1)>>
      BY <3>2 DEF SectorBuffer
    <3> QED BY ONLY <3>1, <3>3
  <2>2. data \in Seq(Clusters \X Nat) /\ Len(data) = n
    <3>1. ASSUME NEW i \in 1..n
          PROVE  data[i] \in Clusters \X Nat
      <4> HIDE DEF data
      <4>1. InCluster + (i - 1) \in Nat /\ Cluster \in Clusters
        BY <1>2, <1>3
      <4>2. data[i] = <<Cluster, InCluster + (i - 1)>>
        BY <2>1
      <4> QED BY <4>1, <4>2
    <3>2. data = [i \in 1..n |-> data[i]]
      OBVIOUS
    <3> HIDE DEF data
    <3>3. data \in [1..n -> Clusters \X Nat]
      BY <3>1, <3>2
    <3>4. n \in Nat
      BY <1>2
    <3> QED BY <3>3, <3>4
  <2> HIDE DEF data
  <2>3. /\ Out' \in Seq(Clusters \X Nat) /\ Done' = Done + n
        /\ \A i \in 1..Done : Out'[i] = Out[i]
        /\ \A i \in (Done + 1)..(Done + n) : Out'[i] = data[i - Done]
    <3>1. Out \in Seq(Clusters \X Nat) /\ data \in Seq(Clusters \X Nat) /\ Out' = Out \o data
      BY <1>3, <1>7, <2>2
    <3>2. Out' \in Seq(Clusters \X Nat) /\ Len(Out') = Len(Out) + Len(data)
      BY <3>1
    <3>3. \A i \in 1..Len(Out) : Out'[i] = Out[i]
      BY <3>1
    <3>4. \A i \in (Len(Out) + 1)..(Len(Out) + Len(data)) : Out'[i] = data[i - Len(Out)]
      BY <3>1
    <3> QED BY <2>2, <3>2, <3>3, <3>4 DEF Done
  <2>4. \A i \in 1..Done' : Out'[i] = FileByte(file, Offset + i - 1)
    <3> TAKE i \in 1..Done'
    <3>1. CASE i \in 1..Done
      BY <1>1, <2>3, <3>1 DEF BytesRight
    <3>2. CASE i \notin 1..Done
      <4> DEFINE k == i - Done - 1
                 at == Offset + Done
      <4>1. /\ i \in (Done + 1)..(Done + n) /\ i - Done \in 1..n /\ k \in Nat
            /\ Offset + i - 1 = at + k /\ at \in Nat /\ k < n /\ i - Done - 1 = k
        BY <1>2, <1>3, <2>3, <3>2
      <4>2. at % ClusterBytes = InCluster
        BY DEF InCluster
      <4>3. InCluster + k < ClusterBytes /\ ClusterBytes \in Nat \ {0}
        BY <1>2, <4>1, UnitsPositive
      <4> HIDE DEF k, at
      <4>4. (at + k) \div ClusterBytes = at \div ClusterBytes /\ (at + k) % ClusterBytes = InCluster + k
        BY ZenonT(40), <4>1, <4>2, <4>3, WithinUnit
      <4>5. FileByte(file, Offset + i - 1) = <<Cluster, InCluster + k>>
        BY <1>3, <4>1, <4>4 DEF FileByte, OnChain, at
      <4>6. Out'[i] = <<Cluster, InCluster + k>>
        BY ZenonT(40), <2>1, <2>3, <4>1
      <4> QED BY <4>5, <4>6
    <3> QED BY <3>1, <3>2
  <2>5. Done' <= Length
    BY SMTT(30), <1>2, <1>3, <2>3
  <2>6. Position'
    <3> DEFINE at == Offset + Done
    <3>1. at \in Nat /\ Offset + Done' = at + n /\ (at % ClusterBytes) + n <= ClusterBytes
      BY <1>2, <1>3, <2>3 DEF InCluster
    <3>2. Offset + Done + n = at + n
      OBVIOUS
    <3>3. ClusterBytes \in Nat \ {0} /\ at \div ClusterBytes = Index
      BY <1>3, UnitsPositive
    <3> HIDE DEF at
    <3>4. (at + n) % ClusterBytes = 0 => Index + 1 = (at + n) \div ClusterBytes
      BY ZenonT(40), <1>2, <3>1, <3>3, ReachesBoundary
    <3>5. (at + n) % ClusterBytes # 0 => Index = (at + n) \div ClusterBytes
      BY ZenonT(40), <1>2, <3>1, <3>3, StaysWithin
    <3>6. CASE Done + n >= Length
      <4>1. pc' = "save"
        BY <1>2, <1>3, <1>7, <3>6
      <4>2. Done + n = Length
        BY <1>2, <1>3, <3>6
      <4>3. Done' = Length'
        BY <1>4, <2>3, <4>2
      <4> QED BY <1>3, <1>4, <4>1, <4>3 DEF Position
    <3>7. CASE Done + n < Length /\ (at + n) % ClusterBytes = 0
      <4>1. pc' = "next"
        BY <1>2, <1>3, <1>7, <3>2, <3>7
      <4> QED BY <1>3, <1>4, <2>3, <3>1, <3>4, <3>7, <4>1 DEF Position
    <3>8. CASE Done + n < Length /\ (at + n) % ClusterBytes # 0
      <4>1. pc' = "copy"
        BY <1>2, <1>3, <1>7, <3>2, <3>8
      <4> QED BY <1>3, <1>4, <2>3, <3>1, <3>5, <3>8, <4>1 DEF Position
    <3> QED BY <1>2, <1>3, <3>6, <3>7, <3>8
  <2>7. pc' \in {"copy", "next", "save"}
    BY <1>2, <1>3, <1>7
  <2>8. TypeOK'
    BY <1>1, <1>4, <1>7, <2>3, <2>7 DEF TypeOK
  <2>9. BytesRight'
    BY <1>4, <2>4, <2>5 DEF BytesRight, FileByte
  <2>10. ReadComplete' /\ ListedRight'
    BY <1>4, <2>7 DEF Inv, ReadComplete, ListedRight
  <2> QED BY <1>5, <2>6, <2>8, <2>9, <2>10 DEF Inv
<1> QED BY ZenonT(40), <1>4, <1>6, <1>7

LEMMA AdvanceStep ==
  ASSUME Inv, Advance
  PROVE  Inv'
<1> USE DEF Advance, cursor, reading, listing, ClusterValid
<1> DEFINE here == (Offset + Done) \div ClusterBytes
           last == (file.size - 1) \div ClusterBytes
<1>1. PICK next \in Clusters \cup {Eoc} :
        /\ NextCluster(Cluster, next)
        /\ IF ClusterValid(next) THEN Cluster' = next /\ Index' = Index + 1 /\ pc' = "copy"
           ELSE UNCHANGED <<Cluster, Index>> /\ pc' = "save"
  OBVIOUS
<1>2. /\ pc = "next" /\ TypeOK /\ file \in Files /\ file.size \in Nat /\ Done \in Nat
      /\ Index \in Nat /\ Offset \in Nat /\ Length \in Nat
  BY FatConstants DEF Inv, TypeOK, Done
<1>3. /\ OnChain(file.first, Index, Cluster) /\ Cluster \in Clusters
      /\ Offset + Done < file.size /\ Reaches(file.first, last)
      /\ Index + 1 = here /\ Done < Length /\ ~ret
  <2>1. /\ OnChain(file.first, Index, Cluster) /\ Offset + Length <= file.size
        /\ Reaches(file.first, last)
    BY <1>2 DEF Inv, ReadOnChain
  <2>2. Done < Length /\ Index + 1 = here /\ ~ret
    BY <1>2 DEF Inv, Position
  <2>3. Cluster \in Clusters
    BY <2>1 DEF OnChain, ChainOf
  <2>4. Offset + Done < file.size
    BY <1>2, <2>1, <2>2
  <2> QED BY <2>1, <2>2, <2>3, <2>4
<1>4. here \in Nat /\ last \in Nat /\ here <= last
  <2>1. Offset + Done \in Nat /\ file.size \in Nat /\ Offset + Done < file.size
    BY <1>2, <1>3
  <2> QED BY <2>1, LastCluster
<1>5. /\ FatHonest' /\ ok' \in BOOLEAN /\ (ok' => ok)
      /\ FatBuffer' \in Nat \cup {NoSector} /\ FatBufferLba' \in Nat \cup {NoSector}
      /\ FatBufferValid' \in BOOLEAN
      /\ next = Fat[Cluster] \/ (next = Eoc /\ ~ok')
  BY <1>1, <1>3, NextHere
<1>6. BytesRight' /\ ReadComplete' /\ ListedRight'
  BY <1>1, <1>3 DEF Inv, BytesRight, ReadComplete, ListedRight, Done, FileByte
<1>7. FatHonest' /\ CursorOnChain' /\ Listing'
  BY <1>1, <1>5 DEF Inv, CursorOnChain, Listing
<1>8. CASE next \in Clusters
  <2>1. pc' = "copy" /\ Index' = Index + 1 /\ Cluster' = Fat[Cluster]
    BY <1>1, <1>5, <1>8, FatConstants
  <2>2. OnChain(file.first, Index + 1, Fat[Cluster])
    BY <1>2, <1>3, <1>4, <1>5, <1>8, FatConstants, ChainStep
  <2>3. TypeOK'
    BY <1>1, <1>2, <1>5, <1>8, <2>1 DEF TypeOK
  <2>4. ReadOnChain' /\ Position'
    BY <1>2, <1>3, <2>1, <2>2 DEF Inv, ReadOnChain, Position, Done
  <2> QED BY <1>6, <1>7, <2>3, <2>4 DEF Inv
<1>9. CASE next \notin Clusters
  <2>1. pc' = "save" /\ Index' = Index /\ Cluster' = Cluster
    BY <1>1, <1>9
  <2>2. ~(ok' /\ Intact(file))
    <3>1. ASSUME ok' PROVE Fat[Cluster] \notin Clusters
      BY <1>5, <1>9, <3>1
    <3>2. Index < here /\ ReadOnChain /\ Offset + Done \in Nat
      BY <1>2, <1>3, <1>4 DEF Inv
    <3> QED BY <1>2, <1>3, <3>1, <3>2, StopsShort
  <2>3. TypeOK'
    BY <1>1, <1>2, <1>5, <2>1 DEF TypeOK
  <2>4. ReadOnChain'
    BY <1>2, <2>1 DEF Inv, ReadOnChain
  <2>5. Position'
    BY <1>3, <2>1, <2>2 DEF Position, Intact
  <2> QED BY <1>6, <1>7, <2>3, <2>4, <2>5 DEF Inv
<1> QED BY <1>8, <1>9

LEMMA SaveStep ==
  ASSUME Inv, Save
  PROVE  Inv'
<1> USE DEF Save, buffer, reading, listing
<1>1. pc = "save" /\ OnChain(file.first, Index, Cluster) /\ TypeOK
  BY DEF Inv, ReadOnChain
<1>2. TypeOK'
  BY <1>1 DEF TypeOK
<1>3. CursorOnChain'
  BY <1>1 DEF CursorOnChain
<1>4. FatHonest' /\ ReadOnChain' /\ Position' /\ Listing'
  BY DEF Inv, FatHonest, ReadOnChain, Position, Listing
<1>5. BytesRight' /\ ReadComplete' /\ ListedRight'
  BY ZenonT(40), <1>1 DEF Inv, Position, BytesRight, ReadComplete, ListedRight, Done, FileByte, Intact
<1> QED BY <1>2, <1>3, <1>4, <1>5 DEF Inv

------------------------------------------------------------------------------
(* FatListDir. *)

LEMMA ListCallStep ==
  ASSUME Inv, NEW d \in Dirs, ListCall(d)
  PROVE  Inv'
<1> USE DEF ListCall, buffer, cursor
<1>1. d.first \in Clusters /\ ChainOf(d.first) /\ d.used \in Nat
  BY FatConstants, ChainConstants
<1>2. TypeOK'
  <2>1. <<>> \in Seq(Clusters \X Nat) /\ 0 \in 0..SectorsPerCluster /\ pc' = "list"
    BY UnitsPositive
  <2> QED BY ZenonT(40), <1>1, <2>1 DEF Inv, TypeOK
<1>3. Listing'
  <2>1. OnChain(d.first, 0, d.first)
    BY <1>1 DEF OnChain, ChainOf
  <2>2. 0 * SectorsPerCluster + 0 = 0
    BY UnitsPositive
  <2>3. Len(<<>>) = 0
    OBVIOUS
  <2> QED BY <1>1, <2>1, <2>2, <2>3 DEF Listing
<1>4. FatHonest' /\ CursorOnChain' /\ ReadOnChain' /\ Position'
  BY DEF Inv, FatHonest, CursorOnChain, ReadOnChain, Position
<1>5. BytesRight' /\ ReadComplete' /\ ListedRight'
  BY DEF BytesRight, ReadComplete, ListedRight, Done
<1> QED BY <1>2, <1>3, <1>4, <1>5 DEF Inv

LEMMA ListSectorStep ==
  ASSUME Inv, ListSector
  PROVE  Inv'
<1> USE DEF buffer, cursor, reading
<1>1. /\ pc = "list" /\ sector < SectorsPerCluster /\ TypeOK /\ Length = 0 /\ Out = <<>>
      /\ UNCHANGED <<buffer, cursor, reading, Index, Cluster, dir>> /\ ~ret
  BY DEF ListSector, Inv, Listing, Position
<1>2. PICK n \in Nat : OnChain(dir.first, n, Cluster) /\ Len(listed) = n * SectorsPerCluster + sector
  BY <1>1 DEF Inv, Listing
<1>3. /\ Cluster \in Clusters /\ Len(listed) \in Nat /\ Len(listed) <= dir.used /\ dir.used \in Nat
      /\ sector \in Nat /\ listed \in Seq(Clusters \X Nat)
  BY SMTT(30), <1>1, <1>2, FatConstants DEF Inv, Listing, OnChain, ChainOf, TypeOK
<1>4. FatHonest' /\ CursorOnChain' /\ BytesRight'
  BY <1>1 DEF Inv, FatHonest, CursorOnChain, BytesRight, Done, FileByte
<1>5. CASE Return(FALSE) /\ ok' = FALSE /\ UNCHANGED <<sector, listed>>
  <2>1. TypeOK'
    BY ZenonT(40), <1>1, <1>5 DEF TypeOK, Return
  <2>2. ReadOnChain' /\ Position' /\ Listing' /\ ReadComplete' /\ ListedRight'
    BY <1>1, <1>5 DEF Inv, ReadOnChain, Position, Listing, ReadComplete, ListedRight, DirSector, Return
  <2> QED BY <1>4, <2>1, <2>2 DEF Inv
<1>6. CASE Len(listed) = dir.used /\ Return(TRUE) /\ UNCHANGED <<sector, listed, ok>>
  <2>1. TypeOK'
    BY <1>1, <1>6 DEF TypeOK, Return
  <2>2. ReadOnChain' /\ Position' /\ Listing' /\ ReadComplete' /\ ListedRight'
    BY <1>1, <1>6
    DEF Inv, ReadOnChain, Position, Listing, ReadComplete, ListedRight, DirSector, Return, Done
  <2> QED BY <1>4, <2>1, <2>2 DEF Inv
<1>7. CASE /\ Len(listed) < dir.used
           /\ listed' = Append(listed, <<Cluster, sector>>)
           /\ sector' = sector + 1
           /\ UNCHANGED <<pc, ret, ok>>
  <2>1. /\ listed' \in Seq(Clusters \X Nat) /\ Len(listed') = Len(listed) + 1
        /\ \A i \in 1..Len(listed) : listed'[i] = listed[i]
        /\ listed'[Len(listed) + 1] = <<Cluster, sector>>
    BY <1>3, <1>7
  <2>2. sector' \in 0..SectorsPerCluster
    BY <1>1, <1>3, <1>7, UnitsPositive
  <2>3. TypeOK'
    BY <1>1, <1>7, <2>1, <2>2 DEF TypeOK
  <2>4. Listing'
    <3>1. n * SectorsPerCluster \in Nat
      BY UnitsPositive, Commutes
    <3>2. Len(listed') = n * SectorsPerCluster + sector' /\ Len(listed') <= dir.used
      BY <1>2, <1>3, <1>7, <2>1, <3>1
    <3> QED BY <1>1, <1>2, <1>7, <3>2 DEF Listing
  <2>5. ReadOnChain' /\ Position' /\ ReadComplete'
    BY <1>1, <1>7 DEF ReadOnChain, Position, ReadComplete
  <2>6. ListedRight'
    <3>1. <<Cluster, sector>> = DirSector(dir, Len(listed))
      <4>1. /\ (n * SectorsPerCluster + sector) \div SectorsPerCluster = n
            /\ (n * SectorsPerCluster + sector) % SectorsPerCluster = sector
        <5>1. sector \in 0..(SectorsPerCluster - 1) /\ SectorsPerCluster \in Nat \ {0}
          BY <1>1, <1>3, UnitsPositive
        <5> QED BY <5>1, Unique
      <4> QED BY <1>2, <4>1 DEF DirSector, OnChain
    <3>2. ASSUME NEW i \in 1..Len(listed')
          PROVE  listed'[i] = DirSector(dir', i - 1)
      <4>1. dir' = dir /\ DirSector(dir', i - 1) = DirSector(dir, i - 1)
        BY <1>1 DEF DirSector
      <4>2. CASE i \in 1..Len(listed)
        BY <2>1, <4>1, <4>2 DEF Inv, ListedRight
      <4>3. CASE i \notin 1..Len(listed)
        <5>1. i = Len(listed) + 1 /\ i - 1 = Len(listed)
          BY <1>3, <2>1, <4>3
        <5> QED BY <2>1, <3>1, <4>1, <5>1
      <4> QED BY <4>2, <4>3
    <3> QED BY <1>1, <1>7, <3>2 DEF ListedRight
  <2> QED BY <1>4, <2>3, <2>4, <2>5, <2>6 DEF Inv
<1> QED BY ZenonT(40), <1>5, <1>6, <1>7 DEF ListSector

LEMMA ListNextStep ==
  ASSUME Inv, ListNext
  PROVE  Inv'
<1> USE DEF ListNext, cursor, reading, ClusterValid
<1>1. PICK next \in Clusters \cup {Eoc} :
        /\ NextCluster(Cluster, next)
        /\ Cluster' = next
        /\ IF ClusterValid(next) THEN sector' = 0 /\ UNCHANGED <<pc, ret>>
           ELSE Return(TRUE) /\ UNCHANGED sector
  BY ZenonT(40)
<1>2. /\ pc = "list" /\ sector = SectorsPerCluster /\ TypeOK /\ Length = 0 /\ Out = <<>> /\ ~ret
      /\ dir \in Dirs /\ dir.used \in Nat /\ SectorsPerCluster \in Nat \ {0}
      /\ UNCHANGED <<cursor, reading, Index, dir, listed>>
  <2>1. pc = "list" /\ sector \in 0..SectorsPerCluster /\ sector >= SectorsPerCluster /\ dir \in Dirs
    BY DEF Inv, TypeOK
  <2> QED BY <2>1, UnitsPositive, FatConstants DEF Inv, Listing, Position
<1>3. PICK n \in Nat : OnChain(dir.first, n, Cluster) /\ Len(listed) = n * SectorsPerCluster + sector
  BY <1>2 DEF Inv, Listing
<1>4. Cluster \in Clusters /\ ChainOf(dir.first) /\ Len(listed) <= dir.used /\ n <= ChainLast[dir.first]
  BY <1>2, <1>3 DEF Inv, Listing, OnChain, ChainOf
<1>5. /\ FatHonest' /\ ok' \in BOOLEAN /\ (ok' => ok)
      /\ FatBuffer' \in Nat \cup {NoSector} /\ FatBufferLba' \in Nat \cup {NoSector}
      /\ FatBufferValid' \in BOOLEAN
      /\ next = Fat[Cluster] \/ (next = Eoc /\ ~ok')
  BY <1>1, <1>4, NextHere
<1>6. Len(listed) = (n + 1) * SectorsPerCluster
  <2>1. (n + 1) * SectorsPerCluster = n * SectorsPerCluster + 1 * SectorsPerCluster
    BY <1>2, Distributes
  <2>2. n * SectorsPerCluster \in Nat /\ 1 * SectorsPerCluster = SectorsPerCluster
    BY <1>2, Commutes
  <2> QED BY <1>2, <1>3, <2>1, <2>2
<1>7. /\ Len(listed) = (n + 1) * SectorsPerCluster + 0
      /\ Len(listed) \div SectorsPerCluster = n + 1
  <2>1. 0 \in 0..(SectorsPerCluster - 1) /\ n + 1 \in Nat
    BY <1>2
  <2>2. ((n + 1) * SectorsPerCluster + 0) \div SectorsPerCluster = n + 1
    BY <1>2, <2>1, Unique
  <2>3. (n + 1) * SectorsPerCluster \in Nat
    BY <1>2, <2>1, Commutes
  <2>4. (n + 1) * SectorsPerCluster + 0 = (n + 1) * SectorsPerCluster
    BY <2>3
  <2> QED BY <1>6, <2>2, <2>4
<1>8. FatHonest' /\ CursorOnChain' /\ BytesRight'
  BY <1>2, <1>5 DEF Inv, CursorOnChain, BytesRight, Done, FileByte
<1>9. CASE next \in Clusters
  <2>1. pc' = "list" /\ sector' = 0 /\ Cluster' = Fat[Cluster] /\ ret' = ret
    BY <1>1, <1>2, <1>5, <1>9, FatConstants
  <2>2. OnChain(dir.first, n + 1, Fat[Cluster])
    <3>1. dir.used \div SectorsPerCluster \in Nat /\ n + 1 <= dir.used \div SectorsPerCluster
      <4>1. Len(listed) \in Nat
        BY <1>2 DEF TypeOK
      <4>2. Len(listed) \div SectorsPerCluster <= dir.used \div SectorsPerCluster
        BY ZenonT(40), <1>2, <1>4, <4>1, DivMonotone
      <4> QED BY ZenonT(40), <1>2, <1>7, <4>2, DivMod
    <3>2. n < dir.used \div SectorsPerCluster
      BY <3>1
    <3>3. Reaches(dir.first, dir.used \div SectorsPerCluster)
      BY <1>2, ChainConstants
    <3> QED BY <1>3, <1>5, <1>9, <3>1, <3>2, <3>3, FatConstants, ChainStep
  <2>3. TypeOK'
    <3>1. sector' \in 0..SectorsPerCluster
      BY <1>2, <2>1
    <3> QED BY <1>1, <1>2, <1>5, <1>9, <2>1, <3>1 DEF TypeOK
  <2>4. Listing'
    <3>1. n + 1 \in Nat /\ OnChain(dir', n + 1, Cluster') = OnChain(dir, n + 1, Cluster')
      BY <1>2
    <3>2. \E m \in Nat : OnChain(dir'.first, m, Cluster') /\ Len(listed') = m * SectorsPerCluster + sector'
      BY <1>2, <1>7, <2>1, <2>2, <3>1
    <3> QED BY <1>2, <1>4, <3>2 DEF Listing
  <2>5. ReadOnChain' /\ Position' /\ ReadComplete'
    BY <1>2, <2>1 DEF ReadOnChain, Position, ReadComplete
  <2>6. ListedRight'
    BY ZenonT(40), <1>2, <2>1 DEF Inv, ListedRight, DirSector
  <2> QED BY <1>8, <2>3, <2>4, <2>5, <2>6 DEF Inv
<1>10. CASE next \notin Clusters
  <2>1. pc' = "idle" /\ ret' = TRUE /\ sector' = sector
    BY <1>1, <1>10 DEF Return
  <2>2. TypeOK'
    BY <1>1, <1>2, <1>5, <2>1 DEF TypeOK
  <2>3. ReadOnChain' /\ Position' /\ Listing' /\ ReadComplete'
    BY <1>2, <2>1 DEF ReadOnChain, Position, Listing, ReadComplete, Done
  <2>4. ListedRight'
    <3>1. ASSUME ok' PROVE Len(listed) \div SectorsPerCluster \notin DOMAIN Chain[dir.first]
      <4>1. Fat[Cluster] \notin Clusters
        BY <1>5, <1>10, <3>1
      <4>2. n = ChainLast[dir.first]
        BY ZenonT(40), <1>3, <4>1, ChainStops
      <4>3. DOMAIN Chain[dir.first] = 0..ChainLast[dir.first]
        BY <1>4 DEF ChainOf
      <4> QED BY <1>7, <4>2, <4>3
    <3>2. \A i \in 1..Len(listed') : listed'[i] = DirSector(dir', i - 1)
      BY <1>2 DEF Inv, ListedRight, DirSector
    <3> QED BY <1>2, <3>1, <3>2 DEF ListedRight
  <2> QED BY <1>8, <2>2, <2>3, <2>4 DEF Inv
<1> QED BY <1>9, <1>10

------------------------------------------------------------------------------

LEMMA StutterStep ==
  ASSUME Inv, UNCHANGED vars
  PROVE  Inv'
<1> USE DEF vars, buffer, cursor, reading, listing
<1>1. TypeOK' /\ FatHonest' /\ CursorOnChain' /\ ReadOnChain'
  BY DEF Inv, TypeOK, FatHonest, CursorOnChain, ReadOnChain
<1>2. Position' /\ Listing' /\ BytesRight'
  BY DEF Inv, Position, Listing, BytesRight, WantIndex, Done, FileByte
<1>3. ReadComplete' /\ ListedRight'
  BY DEF Inv, ReadComplete, ListedRight, Done, Intact, DirSector
<1> QED BY <1>1, <1>2, <1>3 DEF Inv

LEMMA StepInv == Inv /\ [Next]_vars => Inv'
<1> SUFFICES ASSUME Inv, [Next]_vars PROVE Inv'
  OBVIOUS
<1>1. CASE Calls
  <2>1. ASSUME NEW x \in Files, NEW o \in 0..x.size, ReadRefused(x, o) PROVE Inv'
    BY <2>1, ReadRefusedStep
  <2>2. ASSUME NEW x \in Files, NEW o \in 0..x.size, NEW n \in 0..MaxLength, ReadCall(x, o, n)
        PROVE  Inv'
    <3>1. o \in Nat /\ n \in Nat
      BY FatConstants
    <3> QED BY <2>2, <3>1, ReadCallStep
  <2>3. ASSUME NEW d \in Dirs, ListCall(d) PROVE Inv'
    BY <2>3, ListCallStep
  <2> QED BY <1>1, <2>1, <2>2, <2>3 DEF Calls
<1>2. CASE FatReadAt
  BY <1>2, SeekStep, SeekDoneStep, CopyStep, AdvanceStep, SaveStep DEF FatReadAt
<1>3. CASE FatListDir
  BY <1>3, ListSectorStep, ListNextStep DEF FatListDir
<1>4. CASE UNCHANGED vars
  BY <1>4, StutterStep
<1> QED BY <1>1, <1>2, <1>3, <1>4 DEF Next

LEMMA SpecInv == Spec => []Inv
BY InitInv, StepInv, PTL DEF Spec

(* Every variable of the reader keeps its type.                            *)
THEOREM TypeCorrect == Spec => []TypeOK
<1>1. Inv => TypeOK
  BY DEF Inv
<1> QED BY <1>1, SpecInv, PTL

(* Whatever was read before and whichever sectors fail, FatReadAt copies   *)
(* the bytes of its file, in order.                                        *)
THEOREM BytesCorrect == Spec => []BytesRight
<1>1. Inv => BytesRight
  BY DEF Inv
<1> QED BY <1>1, SpecInv, PTL

(* FatReadAt falls short of an intact file only when a sector failed.      *)
THEOREM ReadsComplete == Spec => []ReadComplete
<1>1. Inv => ReadComplete
  BY DEF Inv
<1> QED BY <1>1, SpecInv, PTL

(* FatListDir goes through a folder's sectors in order, and through all of *)
(* them when it succeeds and no sector failed.                             *)
THEOREM ListingCorrect == Spec => []ListedRight
<1>1. Inv => ListedRight
  BY DEF Inv
<1> QED BY <1>1, SpecInv, PTL

(* FatReadAt returns the bytes of its file, all unless a sector failed.    *)
THEOREM ReadsCorrect == Spec => []ReadsRight
<1>1. BytesRight /\ ReadComplete => ReadsRight
  BY DEF ReadsRight
<1> QED BY <1>1, BytesCorrect, ReadsComplete, PTL

------------------------------------------------------------------------------
(* The explorer: the order of a list. *)
LEMMA SameSize == \A S : X!Cardinality(S) = Cardinality(S) /\ (X!IsFiniteSet(S) <=> IsFiniteSet(S))
BY Zenon DEF X!Cardinality, Cardinality, X!IsFiniteSet, IsFiniteSet

(* What may be listed together. *)
Listable(S) ==
  /\ IsFiniteSet(S) /\ S \subseteq X!Entry
  /\ \A e, f \in S : e.name = f.name => e = f

LEMMA ContentsListable ==
  ASSUME NEW d \in DOMAIN Contents, NEW S \in SUBSET Contents[d]
  PROVE  Listable(S)
<1>1. /\ X!IsFiniteSet(Contents[d]) /\ \A e \in Contents[d] : e \in X!Entry
      /\ \A e, f \in Contents[d] : e.name = f.name => e = f
  BY ZenonT(40), ListConstants DEF X!ExplorerConstants
<1>2. IsFiniteSet(Contents[d])
  BY ZenonT(40), <1>1, SameSize
<1>3. IsFiniteSet(S)
  BY <1>2, FS_Subset
<1> QED BY ZenonT(40), <1>1, <1>3 DEF Listable

LEMMA EntriesOrdered ==
  ASSUME NEW S, Listable(S), NEW mode
  PROVE  /\ \A a \in S : ~X!EntryLess(mode, a, a)
         /\ \A a, b \in S : a # b => X!EntryLess(mode, a, b) \/ X!EntryLess(mode, b, a)
         /\ \A a, b, c \in S :
              X!EntryLess(mode, a, b) /\ X!EntryLess(mode, b, c) => X!EntryLess(mode, a, c)
<1>1. /\ \A a \in S : a.name \in Nat /\ a.size \in Nat /\ a.ext \in Nat
      /\ \A a, b \in S : a # b => a.name # b.name
  BY DEF Listable, X!Entry
<1>2. \A a \in S : ~X!EntryLess(mode, a, a)
  BY <1>1 DEF X!EntryLess
<1>3. \A a, b \in S : a # b => X!EntryLess(mode, a, b) \/ X!EntryLess(mode, b, a)
  BY <1>1 DEF X!EntryLess
<1>4. ASSUME NEW a \in S, NEW b \in S, NEW c \in S,
             X!EntryLess(mode, a, b), X!EntryLess(mode, b, c)
      PROVE  X!EntryLess(mode, a, c)
  BY <1>1, <1>4 DEF X!EntryLess
<1> QED BY <1>2, <1>3, <1>4

(* Sorting puts every entry somewhere, and nothing else. *)
LEMMA SortHas ==
  ASSUME NEW S, Listable(S), NEW mode
  PROVE  /\ Cardinality(S) \in Nat
         /\ X!SortEntries(S, mode) \in [1..Cardinality(S) -> S]
         /\ \A e \in S : \E k \in 1..Cardinality(S) : X!SortEntries(S, mode)[k] = e
         /\ \A j, k \in 1..Cardinality(S) :
              X!SortEntries(S, mode)[j].name = X!SortEntries(S, mode)[k].name => j = k
<1>1. PICK m \in Nat : m = Cardinality(S)
  BY FS_CardinalityType DEF Listable
<1>2. PICK Before : Before = [e \in S |-> {x \in S : X!EntryLess(mode, x, e)}]
  BY ZenonT(40)
<1>3. \A e \in S : Before[e] \in SUBSET S /\ e \notin Before[e]
  BY <1>2, EntriesOrdered
<1>4. \A e \in S : IsFiniteSet(Before[e]) /\ Cardinality(Before[e]) \in 0..(m - 1)
  <2> TAKE e \in S
  <2>1. IsFiniteSet(Before[e]) /\ Cardinality(Before[e]) <= m /\ Cardinality(Before[e]) # m
    BY <1>1, <1>3, FS_Subset DEF Listable
  <2>2. Cardinality(Before[e]) \in Nat
    BY <2>1, FS_CardinalityType
  <2> QED BY <1>1, <2>1, <2>2
<1>5. ASSUME NEW a \in S, NEW b \in S, X!EntryLess(mode, a, b)
      PROVE  Cardinality(Before[a]) # Cardinality(Before[b])
  <2>1. Before[a] \in SUBSET Before[b]
    BY <1>2, <1>5, EntriesOrdered
  <2>2. a \in Before[b] /\ a \notin Before[a]
    BY <1>2, <1>3, <1>5
  <2> QED BY <1>4, <2>1, <2>2, FS_Subset
<1>6. PICK rank : rank = [e \in S |-> Cardinality(Before[e])]
  BY ZenonT(40)
<1>7. rank \in Injection(S, 0..(m - 1))
  <2>1. rank \in [S -> 0..(m - 1)]
    BY <1>4, <1>6
  <2>2. \A a, b \in S : a # b => rank[a] # rank[b]
    BY <1>5, <1>6, EntriesOrdered
  <2> QED BY <2>1, <2>2 DEF Injection, IsInjective
<1>8. IsFiniteSet(0..(m - 1)) /\ Cardinality(0..(m - 1)) = m
  <2>1. m - 1 \in Int /\ (0 > m - 1 => m = 0) /\ (m - 1) - 0 + 1 = m
    OBVIOUS
  <2> QED BY <2>1, FS_Interval
<1>9. rank \in Surjection(S, 0..(m - 1))
  BY <1>1, <1>7, <1>8, FS_Injection
<1>10. \A k \in 1..m : \E e \in S : rank[e] = k - 1
  <2> TAKE k \in 1..m
  <2>1. k - 1 \in 0..(m - 1)
    OBVIOUS
  <2> QED BY <1>9, <2>1 DEF Surjection
<1>11. X!SortEntries(S, mode) =
         [k \in 1..m |-> CHOOSE e \in S : Cardinality({x \in S : X!EntryLess(mode, x, e)}) = k - 1]
  <2>1. X!SortEntries(S, mode) =
          [k \in 1..X!Cardinality(S) |->
             CHOOSE e \in S : X!Cardinality({x \in S : X!EntryLess(mode, x, e)}) = k - 1]
    BY Zenon DEF X!SortEntries
  <2> QED BY ZenonT(40), <1>1, <2>1, SameSize
<1>12. PICK s : s = X!SortEntries(S, mode)
  BY ZenonT(40)
<1>13. \A k \in 1..m : s[k] \in S /\ Cardinality(Before[s[k]]) = k - 1
  <2> TAKE k \in 1..m
  <2>1. \E e \in S : Cardinality({x \in S : X!EntryLess(mode, x, e)}) = k - 1
    BY <1>2, <1>6, <1>10
  <2>2. s[k] = CHOOSE e \in S : Cardinality({x \in S : X!EntryLess(mode, x, e)}) = k - 1
    BY ZenonT(40), <1>11, <1>12
  <2>3. s[k] \in S /\ Cardinality({x \in S : X!EntryLess(mode, x, s[k])}) = k - 1
    BY ZenonT(40), <2>1, <2>2
  <2>4. Before[s[k]] = {x \in S : X!EntryLess(mode, x, s[k])}
    BY ZenonT(40), <1>2, <2>3
  <2> QED BY ZenonT(40), <2>3, <2>4
<1>14. s \in [1..m -> S]
  BY ZenonT(40), <1>11, <1>12, <1>13
<1>15. ASSUME NEW e \in S PROVE \E k \in 1..m : s[k] = e
  <2>1. PICK k \in 1..m : k - 1 = rank[e]
    <3>1. rank[e] + 1 \in 1..m /\ (rank[e] + 1) - 1 = rank[e]
      BY <1>4, <1>6
    <3> QED BY <3>1
  <2>2. s[k] \in S /\ rank[s[k]] = rank[e]
    BY <1>6, <1>13, <2>1
  <2> QED BY <1>7, <2>2 DEF Injection, IsInjective
<1>16. ASSUME NEW j \in 1..m, NEW k \in 1..m, s[j].name = s[k].name PROVE j = k
  <2>1. s[j] = s[k]
    BY <1>13, <1>16 DEF Listable
  <2>2. j - 1 = k - 1
    BY ZenonT(40), <1>13, <2>1
  <2> QED BY <2>2
<1> QED BY ZenonT(40), <1>1, <1>12, <1>14, <1>15, <1>16

------------------------------------------------------------------------------
(* Volumes: each stands for a FAT32 partition before PartCursor, in the    *)
(* order of the partitions.                                                *)
FsInv ==
  /\ Parts \in Seq(BOOLEAN) /\ PartCursor \in 0..Len(Parts) /\ fsVolumes \in Seq(Nat)
  /\ \A v \in 1..Len(fsVolumes) : fsVolumes[v] \in 1..PartCursor /\ Parts[fsVolumes[v]]
  /\ \A v, w \in 1..Len(fsVolumes) : v < w => fsVolumes[v] < fsVolumes[w]
  /\ Len(fsVolumes) <= MAX_VOLUMES
  /\ mounting \in BOOLEAN /\ Status \in {"none", "ok", "failed"}
  /\ CwdVolume = -1 \/ CwdVolume \in 1..Len(fsVolumes)

LEMMA TreeSizes ==
  /\ MAX_VOLUMES \in Nat /\ VOLUMES_PER_PAGE \in Nat \ {0}
  /\ \A input \in Inputs : input.volume \in Nat
BY TreeConstants DEF F!FsConstants

LEMMA InitFs == F!Init => FsInv
<1> SUFFICES ASSUME F!Init PROVE FsInv
  OBVIOUS
<1>1. /\ Parts = << >> /\ PartCursor = 0 /\ fsVolumes = << >> /\ mounting = FALSE
      /\ CwdVolume = -1 /\ Status = "none"
  BY ZenonT(40) DEF F!Init
<1>2. Parts \in Seq(BOOLEAN) /\ fsVolumes \in Seq(Nat) /\ Len(Parts) = 0 /\ Len(fsVolumes) = 0
  BY <1>1
<1>3. 1..Len(fsVolumes) = {} /\ PartCursor \in 0..Len(Parts) /\ Len(fsVolumes) <= MAX_VOLUMES
  BY <1>1, <1>2, TreeSizes
<1> QED BY ZenonT(40), <1>1, <1>2, <1>3 DEF FsInv

LEMMA DeviceFs == FsInv /\ F!FsMountDevice => FsInv'
<1> SUFFICES ASSUME FsInv, F!FsMountDevice PROVE FsInv'
  OBVIOUS
<1>1. PICK fat32 \in BOOLEAN, count \in 0..2 : Parts' = Parts \o [k \in 1..count |-> fat32]
  BY ZenonT(40) DEF F!FsMountDevice
<1>2. mounting' = TRUE /\ UNCHANGED <<PartCursor, fsVolumes, CwdVolume, Status>>
  BY ZenonT(40) DEF F!FsMountDevice, F!cwd
<1>3. PICK more \in Seq(BOOLEAN) : Parts' = Parts \o more
  <2>1. [k \in 1..count |-> fat32] \in Seq(BOOLEAN)
    OBVIOUS
  <2> QED BY ZenonT(40), <1>1, <2>1
<1>4. /\ Parts' \in Seq(BOOLEAN) /\ Len(Parts') = Len(Parts) + Len(more)
      /\ \A k \in 1..Len(Parts) : Parts'[k] = Parts[k]
  BY <1>3, ConcatProperties DEF FsInv
<1>5. Len(Parts) \in Nat /\ Len(more) \in Nat /\ PartCursor \in 0..Len(Parts)
  BY DEF FsInv
<1>6. PartCursor' \in 0..Len(Parts')
  BY <1>2, <1>4, <1>5
<1>7. 1..PartCursor \subseteq 1..Len(Parts)
  BY <1>5
<1>8. \A v \in 1..Len(fsVolumes') : fsVolumes'[v] \in 1..PartCursor' /\ Parts'[fsVolumes'[v]]
  BY ZenonT(40), <1>2, <1>4, <1>7 DEF FsInv
<1> QED BY ZenonT(40), <1>2, <1>4, <1>6, <1>8 DEF FsInv

(* The loop of MountNewPartitions goes on, with a volume more or not. *)
LEMMA PartFs ==
  ASSUME FsInv, PartCursor < Len(Parts), PartCursor' = PartCursor + 1,
         UNCHANGED <<Parts, mounting, CwdVolume, Status>>,
         \/ UNCHANGED fsVolumes
         \/ /\ Parts[PartCursor + 1] /\ Len(fsVolumes) < MAX_VOLUMES
            /\ fsVolumes' = Append(fsVolumes, PartCursor + 1)
  PROVE  FsInv'
<1>1. /\ Parts \in Seq(BOOLEAN) /\ PartCursor \in Nat /\ Len(Parts) \in Nat /\ fsVolumes \in Seq(Nat)
      /\ Len(fsVolumes) \in Nat
  BY DEF FsInv
<1>2. PartCursor' \in 0..Len(Parts') /\ \A n : n \in 1..PartCursor => n \in 1..PartCursor'
        /\ n <= PartCursor
  BY <1>1
<1>3. CASE UNCHANGED fsVolumes
  <2>1. \A v \in 1..Len(fsVolumes') : fsVolumes'[v] \in 1..PartCursor' /\ Parts'[fsVolumes'[v]]
    BY ZenonT(40), <1>2, <1>3 DEF FsInv
  <2> QED BY ZenonT(40), <1>2, <1>3, <2>1 DEF FsInv
<1>4. CASE /\ Parts[PartCursor + 1] /\ Len(fsVolumes) < MAX_VOLUMES
           /\ fsVolumes' = Append(fsVolumes, PartCursor + 1)
  <2>1. PICK new \in Nat : new = PartCursor + 1
    BY <1>1
  <2>2. new \in 1..PartCursor' /\ \A n \in 1..PartCursor : n < new
    BY <1>1, <2>1
  <2>3. /\ fsVolumes' \in Seq(Nat) /\ Len(fsVolumes') = Len(fsVolumes) + 1
        /\ \A v \in 1..Len(fsVolumes) : fsVolumes'[v] = fsVolumes[v]
        /\ fsVolumes'[Len(fsVolumes) + 1] = new
    BY <1>1, <1>4, <2>1, AppendProperties
  <2>4. ASSUME NEW v \in 1..Len(fsVolumes')
        PROVE  v \in 1..Len(fsVolumes) \/ v = Len(fsVolumes) + 1
    BY <1>1, <2>3
  <2>5. \A v \in 1..Len(fsVolumes) : fsVolumes[v] \in 1..PartCursor /\ Parts[fsVolumes[v]]
    BY ZenonT(40) DEF FsInv
  <2>6. \A v \in 1..Len(fsVolumes') : fsVolumes'[v] \in 1..PartCursor' /\ Parts'[fsVolumes'[v]]
    BY ZenonT(40), <1>2, <1>4, <2>1, <2>2, <2>3, <2>4, <2>5
  <2>7. ASSUME NEW v \in 1..Len(fsVolumes'), NEW w \in 1..Len(fsVolumes'), v < w
        PROVE  fsVolumes'[v] < fsVolumes'[w]
    <3>1. v \in 1..Len(fsVolumes)
      BY <1>1, <2>3, <2>7
    <3>2. CASE w \in 1..Len(fsVolumes)
      BY ZenonT(40), <2>3, <2>7, <3>1, <3>2 DEF FsInv
    <3>3. CASE w = Len(fsVolumes) + 1
      BY ZenonT(40), <2>2, <2>3, <2>5, <3>1, <3>3
    <3> QED BY <2>4, <3>2, <3>3
  <2>8. Len(fsVolumes') <= MAX_VOLUMES
    BY <1>1, <1>4, <2>3, TreeSizes
  <2>9. CwdVolume' = -1 \/ CwdVolume' \in 1..Len(fsVolumes')
    <3>1. CwdVolume = -1 \/ CwdVolume \in 1..Len(fsVolumes)
      BY ZenonT(40) DEF FsInv
    <3>2. 1..Len(fsVolumes) \subseteq 1..Len(fsVolumes')
      BY <1>1, <2>3
    <3> QED BY ZenonT(40), <3>1, <3>2
  <2> QED BY ZenonT(40), <1>2, <2>3, <2>6, <2>7, <2>8, <2>9 DEF FsInv
<1> QED BY <1>3, <1>4

LEMMA DoneFs ==
  ASSUME FsInv, F!MountDone, UNCHANGED PartCursor \/ (PartCursor < Len(Parts)
           /\ PartCursor' = PartCursor + 1)
  PROVE  FsInv'
<1>1. mounting' = FALSE /\ UNCHANGED <<Parts, fsVolumes, Status>>
  BY ZenonT(40) DEF F!MountDone
<1>2. /\ PartCursor' \in 0..Len(Parts') /\ \A n : n \in 1..PartCursor => n \in 1..PartCursor'
  <2>1. PartCursor \in 0..Len(Parts) /\ Len(Parts) \in Nat
    BY DEF FsInv
  <2> QED BY <1>1, <2>1
<1>3. \A v \in 1..Len(fsVolumes') : fsVolumes'[v] \in 1..PartCursor' /\ Parts'[fsVolumes'[v]]
  BY ZenonT(40), <1>1, <1>2 DEF FsInv
<1>4. CwdVolume' = -1 \/ CwdVolume' \in 1..Len(fsVolumes')
  <2>1. CASE fsVolumes # << >> /\ CwdVolume' = 1
    <3>1. fsVolumes \in Seq(Nat)
      BY DEF FsInv
    <3> QED BY <1>1, <2>1, <3>1
  <2>2. CASE CwdVolume' = CwdVolume
    BY ZenonT(40), <1>1, <2>2 DEF FsInv
  <2> QED BY ZenonT(40), <2>1, <2>2 DEF F!MountDone
<1>5. mounting' \in BOOLEAN
  BY ZenonT(40), <1>1
<1> QED BY ZenonT(40), <1>1, <1>2, <1>3, <1>4, <1>5 DEF FsInv

LEMMA MountFs == FsInv /\ F!MountNewPartitions => FsInv'
<1> SUFFICES ASSUME FsInv, F!MountNewPartitions PROVE FsInv'
  OBVIOUS
<1>1. CASE F!MountDone /\ (UNCHANGED PartCursor \/ (PartCursor < Len(Parts)
        /\ PartCursor' = PartCursor + 1))
  BY ZenonT(40), <1>1, DoneFs
<1>2. CASE /\ PartCursor < Len(Parts) /\ PartCursor' = PartCursor + 1
           /\ UNCHANGED <<Parts, mounting, CwdVolume, Status>>
           /\ \/ UNCHANGED fsVolumes
              \/ /\ Parts[PartCursor + 1] /\ F!MayHaveRoom
                 /\ fsVolumes' = Append(fsVolumes, PartCursor + 1)
  BY ZenonT(40), <1>2, PartFs DEF F!MayHaveRoom
<1> QED BY ZenonT(40), <1>1, <1>2 DEF F!MountNewPartitions, F!Mount, F!Skipped, F!cwd

LEMMA ChdirFs == FsInv /\ (\E input \in Inputs : F!FsChdir(input)) => FsInv'
<1> SUFFICES ASSUME FsInv, NEW input \in Inputs, F!FsChdir(input) PROVE FsInv'
  OBVIOUS
<1>1. UNCHANGED <<Parts, PartCursor, fsVolumes, mounting>> /\ Status' \in {"none", "ok", "failed"}
  BY ZenonT(40) DEF F!FsChdir
<1>2. CwdVolume' = -1 \/ CwdVolume' \in 1..Len(fsVolumes)
  <2>1. CASE UNCHANGED CwdVolume
    BY ZenonT(40), <2>1 DEF FsInv
  <2>2. CASE F!Enterable(F!FsResolve(input)) /\ F!Enter(F!FsResolve(input))
    <3>1. PICK node : node = F!FsResolve(input)
      BY ZenonT(40)
    <3>2. node.status = "ok" /\ CwdVolume' = node.volume
      BY ZenonT(40), <2>2, <3>1 DEF F!Enterable, F!Enter
    <3>3. PICK P : P = F!ParseInput(input)
      BY ZenonT(40)
    <3>4. PICK found : found = F!Look(P.volume, P.components)
      BY ZenonT(40)
    <3>5. node = IF F!HasVolume(input)
                   THEN [status |-> found.status, volume |-> P.volume, path |-> found.path,
                     text |-> found.text]
                 ELSE [status |-> "no volume", volume |-> 0, path |-> << >>, text |-> F!NoText]
      BY ZenonT(40), <3>1, <3>3, <3>4 DEF F!FsResolve
    <3>6. F!HasVolume(input) /\ node.volume = P.volume
      BY ZenonT(40), <3>2, <3>5
    <3>7. P.volume = IF input.volume # 0 THEN input.volume ELSE CwdVolume
      <4>1. P = [volume |-> IF input.volume # 0 THEN input.volume ELSE CwdVolume,
              components |-> P.components]
        BY <3>3 DEF F!ParseInput
      <4> QED BY <4>1
    <3>8. CASE input.volume # 0
      <4>1. input.volume <= Len(fsVolumes)
        BY ZenonT(40), <3>6, <3>8 DEF F!HasVolume
      <4>2. Len(fsVolumes) \in Nat /\ input.volume \in Nat
        BY TreeSizes DEF FsInv
      <4>3. input.volume \in 1..Len(fsVolumes)
        BY <3>8, <4>1, <4>2
      <4> QED BY ZenonT(40), <3>2, <3>6, <3>7, <3>8, <4>3
    <3>9. CASE input.volume = 0
      BY ZenonT(40), <3>2, <3>6, <3>7, <3>9 DEF FsInv
    <3> QED BY <3>8, <3>9
  <2> QED BY ZenonT(40), <2>1, <2>2 DEF F!FsChdir
<1> QED BY ZenonT(40), <1>1, <1>2 DEF FsInv

LEMMA StepFs == FsInv /\ (F!Next \/ UNCHANGED fs) => FsInv'
<1>1. FsInv /\ UNCHANGED fs => FsInv'
  BY ZenonT(40) DEF fs, FsInv
<1> QED BY ZenonT(40), <1>1, DeviceFs, MountFs, ChdirFs DEF F!Next

LEMMA FsTyped == FsInv => F!TypeOK /\ F!VolumesDiffer
<1> SUFFICES ASSUME FsInv PROVE F!TypeOK /\ F!VolumesDiffer
  OBVIOUS
<1>1. DOMAIN fsVolumes = 1..Len(fsVolumes)
  BY DEF FsInv
<1> QED BY ZenonT(40), <1>1 DEF FsInv, F!TypeOK, F!VolumesDiffer

(* The list: entries of the directory it shows, none twice. *)
ViewOK(v) ==
  /\ v \in [Volume : 1..Volumes, Dir : Seq(Nat), Order : Seq(X!Entry), Selected : Int, Scroll : Int]
  /\ <<v.Volume, v.Dir>> \in DOMAIN Contents
  /\ \A k \in 1..Len(v.Order) : v.Order[k] \in Contents[<<v.Volume, v.Dir>>]
  /\ \A j, k \in 1..Len(v.Order) : v.Order[j].name = v.Order[k].name => j = k

InRange(v) ==
  /\ v.Selected \in Nat
  /\ v.Selected < X!ItemCount(v) \/ (X!ItemCount(v) = 0 /\ v.Selected = 0)

OnScreen(v) ==
  /\ InRange(v) /\ v.Scroll \in Nat
  /\ v.Scroll <= v.Selected /\ v.Selected < v.Scroll + Visible
  /\ v.Scroll > 0 => v.Scroll + Visible <= X!ItemCount(v)

LEMMA ListSizes ==
  /\ Volumes \in Nat \ {0} /\ Visible \in Nat /\ Visible >= 3
  /\ \A v \in 1..Volumes : <<v, << >>>> \in DOMAIN Contents
BY ListConstants DEF X!ExplorerConstants

LEMMA CountIs ==
  ASSUME NEW v, ViewOK(v)
  PROVE  /\ X!Shift(v) \in {0, 1} /\ X!ItemCount(v) \in Nat /\ Len(v.Order) \in Nat
         /\ X!ItemCount(v) = Len(v.Order) + X!Shift(v)
         /\ v.Dir # << >> => X!Shift(v) = 1
<1>1. v.Order \in Seq(X!Entry)
  BY DEF ViewOK
<1>2. X!Shift(v) \in {0, 1} /\ (v.Dir # << >> => X!Shift(v) = 1)
  BY DEF X!Shift
<1>3. X!ItemCount(v) = Len(v.Order) + X!Shift(v)
  BY ZenonT(40) DEF X!ItemCount
<1> QED BY <1>1, <1>2, <1>3

LEMMA ClampShows ==
  ASSUME NEW v, ViewOK(v), InRange(v)
  PROVE  /\ ViewOK(X!ClampScroll(v)) /\ OnScreen(X!ClampScroll(v)) /\ ~X!OutOfRange(v)
         /\ X!ClampScroll(v).Selected = v.Selected
         /\ X!ClampScroll(v).Order = v.Order /\ X!ClampScroll(v).Dir = v.Dir
         /\ X!ClampScroll(v).Volume = v.Volume
<1>1. PICK count \in Nat : count = X!ItemCount(v)
  BY CountIs
<1>2. /\ v.Selected \in Nat /\ v.Scroll \in Int /\ Visible \in Nat /\ Visible >= 3
      /\ v.Selected < count \/ (count = 0 /\ v.Selected = 0)
  BY <1>1, ListSizes DEF ViewOK, InRange
<1>3. ~X!OutOfRange(v)
  BY <1>1, <1>2 DEF X!OutOfRange
<1>4. PICK a : a = LET MaxScroll == IF count > Visible THEN count - Visible ELSE 0
                   IN  IF v.Scroll > MaxScroll THEN MaxScroll ELSE IF v.Scroll < 0 THEN 0 ELSE v.Scroll
  BY ZenonT(40)
<1>5. a \in Nat /\ (a > 0 => a + Visible <= count)
  BY <1>1, <1>2, <1>4
<1>6. PICK b : b = IF v.Selected < a THEN v.Selected ELSE a
  BY ZenonT(40)
<1>7. b \in Nat /\ (b > 0 => b + Visible <= count) /\ b <= v.Selected
  BY <1>2, <1>5, <1>6
<1>8. PICK w : w = IF v.Selected >= b + Visible THEN v.Selected - Visible + 1 ELSE b
  BY ZenonT(40)
<1>9. w \in Nat /\ w <= v.Selected /\ v.Selected < w + Visible /\ (w > 0 => w + Visible <= count)
  BY <1>2, <1>7, <1>8
<1>10. X!ClampScroll(v) = [v EXCEPT !.Selected = v.Selected, !.Scroll = w]
  BY ZenonT(40), <1>1, <1>3, <1>4, <1>6, <1>8 DEF X!ClampScroll
<1>11. PICK u : u = [v EXCEPT !.Selected = v.Selected, !.Scroll = w]
  BY ZenonT(40)
<1>12. /\ u.Selected = v.Selected /\ u.Scroll = w /\ u.Order = v.Order /\ u.Dir = v.Dir
       /\ u.Volume = v.Volume
       /\ u \in [Volume : 1..Volumes, Dir : Seq(Nat), Order : Seq(X!Entry), Selected : Int, Scroll : Int]
  <2>1. v \in [Volume : 1..Volumes, Dir : Seq(Nat), Order : Seq(X!Entry), Selected : Int, Scroll : Int]
    BY DEF ViewOK
  <2>2. w \in Int
    BY <1>9
  <2> QED BY ZenonT(40), <1>11, <2>1, <2>2
<1>13. X!ItemCount(u) = count
  BY <1>1, <1>12 DEF X!ItemCount, X!Shift
<1>14. ViewOK(u) /\ OnScreen(u)
  BY ZenonT(40), <1>2, <1>9, <1>12, <1>13 DEF ViewOK, OnScreen, InRange
<1> QED BY ZenonT(40), <1>3, <1>10, <1>11, <1>12, <1>14

LEMMA ItemIs ==
  ASSUME NEW v, ViewOK(v), NEW index \in Int
  PROVE  X!ItemEntry(v, index) \in Contents[<<v.Volume, v.Dir>>] \cup {X!NoItem}
<1>1. v.Order \in Seq(X!Entry)
  BY DEF ViewOK
<1>2. DOMAIN v.Order = 1..Len(v.Order)
  BY <1>1
<1> QED BY ZenonT(40), <1>2 DEF ViewOK, X!ItemEntry

(* The index of a name, and where the selection goes. *)
LEMMA FindIs ==
  ASSUME NEW v, ViewOK(v), NEW name
  PROVE  /\ X!FindItemByName(v, name) \in Int /\ X!FindItemByName(v, name) >= -1
         /\ X!FindItemByName(v, name) < X!ItemCount(v)
<1> DEFINE found == {k \in DOMAIN v.Order : v.Order[k].name = name}
<1>2. X!FindItemByName(v, name) =
        IF found = {} THEN -1 ELSE (CHOOSE k \in found : TRUE) - 1 + X!Shift(v)
  BY DEF X!FindItemByName
<1>3. /\ X!Shift(v) \in {0, 1} /\ X!ItemCount(v) \in Nat /\ Len(v.Order) \in Nat
      /\ X!ItemCount(v) = Len(v.Order) + X!Shift(v)
  BY CountIs
<1> HIDE DEF found
<1>4. CASE found = {}
  <2>1. X!FindItemByName(v, name) = -1
    BY ZenonT(40), <1>2, <1>4
  <2> QED BY <1>3, <2>1
<1>5. CASE found # {}
  <2>1. PICK k : k = CHOOSE j \in found : TRUE
    BY ZenonT(40)
  <2>2. k \in found
    BY ZenonT(40), <1>5, <2>1
  <2>3. k \in 1..Len(v.Order)
    <3>1. v.Order \in Seq(X!Entry)
      BY DEF ViewOK
    <3> QED BY <2>2, <3>1 DEF found
  <2>4. X!FindItemByName(v, name) = k - 1 + X!Shift(v)
    BY ZenonT(40), <1>2, <1>5, <2>1
  <2> QED BY <1>3, <2>3, <2>4
<1> QED BY <1>4, <1>5

LEMMA FocusIs ==
  ASSUME NEW v, ViewOK(v), NEW focus
  PROVE  /\ X!Focused(v, focus) \in Nat
         /\ X!Focused(v, focus) < X!ItemCount(v) \/ (X!ItemCount(v) = 0 /\ X!Focused(v, focus) = 0)
<1>1. X!ItemCount(v) \in Nat
  BY CountIs
<1>2. PICK place : place = X!FindItemByName(v, focus) /\ place \in Int /\ place >= -1
        /\ place < X!ItemCount(v)
  BY FindIs
<1>3. X!Focused(v, focus) = IF focus # X!NoFocus THEN IF place >= 0 THEN place ELSE 0
                            ELSE IF v.Dir # << >> /\ X!ItemCount(v) > 1 THEN 1 ELSE 0
  BY ZenonT(40), <1>2 DEF X!Focused
<1> QED BY <1>1, <1>2, <1>3

(* Both depend on the list only. *)
PlaceIn(order, shift, name) ==
  LET found == {k \in DOMAIN order : order[k].name = name}
  IN  IF found = {} THEN -1 ELSE (CHOOSE k \in found : TRUE) - 1 + shift

FocusAt(path, count, place, focus) ==
  IF focus # X!NoFocus THEN (IF place >= 0 THEN place ELSE 0)
  ELSE IF path # << >> /\ count > 1 THEN 1 ELSE 0

LEMMA FindSame ==
  ASSUME NEW v, NEW w, v.Order = w.Order, v.Dir = w.Dir
  PROVE  /\ \A name : X!FindItemByName(v, name) = X!FindItemByName(w, name)
         /\ \A focus : X!Focused(v, focus) = X!Focused(w, focus)
         /\ X!ItemCount(v) = X!ItemCount(w)
<1>1. X!Shift(v) = X!Shift(w)
  BY ZenonT(40) DEF X!Shift
<1>2. X!ItemCount(v) = X!ItemCount(w)
  BY ZenonT(40), <1>1 DEF X!ItemCount
<1>3. \A name : X!FindItemByName(v, name) = X!FindItemByName(w, name)
  <2>1. \A u, name : X!FindItemByName(u, name) = PlaceIn(u.Order, X!Shift(u), name)
    BY ZenonT(40) DEF X!FindItemByName, PlaceIn
  <2> QED BY ZenonT(40), <1>1, <2>1
<1>4. \A focus : X!Focused(v, focus) = X!Focused(w, focus)
  <2>1. \A u, focus : X!Focused(u, focus) = FocusAt(u.Dir, X!ItemCount(u), X!FindItemByName(u, focus),
          focus)
    BY ZenonT(40) DEF X!Focused, FocusAt
  <2> QED BY ZenonT(40), <1>2, <1>3, <2>1
<1> QED BY <1>2, <1>3, <1>4

(* What a step does with the list: it is clamped, and E130 is not raised.  *)
NewView(v) ==
  /\ ViewOK(view') /\ OnScreen(view') /\ corrected' = corrected
  /\ view'.Selected = v.Selected /\ view'.Order = v.Order /\ view'.Dir = v.Dir /\ view'.Volume = v.Volume

LEMMA ClampedIs ==
  ASSUME NEW v, ViewOK(v), InRange(v), corrected = FALSE, X!Clamped(v)
  PROVE  NewView(v)
<1>1. /\ ViewOK(X!ClampScroll(v)) /\ OnScreen(X!ClampScroll(v)) /\ ~X!OutOfRange(v)
      /\ X!ClampScroll(v).Selected = v.Selected
      /\ X!ClampScroll(v).Order = v.Order /\ X!ClampScroll(v).Dir = v.Dir
      /\ X!ClampScroll(v).Volume = v.Volume
  BY ClampShows
<1>2. view' = X!ClampScroll(v) /\ corrected' = corrected
  BY ZenonT(40), <1>1 DEF X!Clamped
<1> QED BY ZenonT(40), <1>1, <1>2 DEF NewView

LEMMA FolderFacts ==
  ASSUME NEW vol, NEW path, <<vol, path>> \in DOMAIN Contents
  PROVE  /\ vol \in 1..Volumes /\ path \in Seq(Nat)
         /\ path # << >> => <<vol, X!Front(path)>> \in DOMAIN Contents
         /\ \A e \in Contents[<<vol, path>>] :
              /\ e \in X!Entry
              /\ e.kind = "dir" => <<vol, Append(path, e.name)>> \in DOMAIN Contents
<1>1. PICK d \in DOMAIN Contents : d = <<vol, path>>
  OBVIOUS
<1>2. d[1] = vol /\ d[2] = path
  BY <1>1
<1>3. d \in (1..Volumes) \X Seq(Nat)
  BY ZenonT(40), <1>1, ListConstants DEF X!ExplorerConstants
<1>4. vol \in 1..Volumes /\ path \in Seq(Nat)
  BY <1>1, <1>3
<1>5. /\ d[2] # << >> => <<d[1], X!Front(d[2])>> \in DOMAIN Contents
      /\ \A e \in Contents[d] :
           /\ e \in X!Entry
           /\ e.kind = "dir" => <<d[1], Append(d[2], e.name)>> \in DOMAIN Contents
  BY ZenonT(40), ListConstants DEF X!ExplorerConstants
<1> QED BY ZenonT(40), <1>1, <1>2, <1>4, <1>5

LEMMA ReadingsAre ==
  ASSUME NEW vol, NEW path, NEW hidden, NEW r \in X!Readings(vol, path, hidden)
  PROVE  r.entries \in SUBSET Contents[<<vol, path>>]
BY DEF X!Readings

(* Reading a directory shows it. *)
Shows(vol, path) ==
  /\ ViewOK(view') /\ OnScreen(view') /\ corrected' = FALSE
  /\ view'.Volume = vol /\ view'.Dir = path

LEMMA LoadIs ==
  ASSUME NEW vol, NEW path, <<vol, path>> \in DOMAIN Contents, corrected = FALSE,
         NEW S \in SUBSET Contents[<<vol, path>>], NEW mode, NEW focus,
         X!Load(vol, path, mode, S, focus)
  PROVE  Shows(vol, path) /\ view'.Selected = X!Focused(view', focus)
<1>1. PICK order : order = X!SortEntries(S, mode)
  BY ZenonT(40)
<1>2. PICK m \in Nat : /\ order \in [1..m -> S]
                    /\ \A j, k \in 1..m : order[j].name = order[k].name => j = k
  <2>1. Listable(S)
    BY ContentsListable
  <2>2. /\ Cardinality(S) \in Nat /\ order \in [1..Cardinality(S) -> S]
        /\ \A j, k \in 1..Cardinality(S) : order[j].name = order[k].name => j = k
    BY ZenonT(40), <1>1, <2>1, SortHas
  <2>3. PICK c : c = Cardinality(S)
    BY ZenonT(40)
  <2> QED BY ZenonT(40), <2>2, <2>3
<1>3. vol \in 1..Volumes /\ path \in Seq(Nat) /\ \A e \in Contents[<<vol, path>>] : e \in X!Entry
  BY ZenonT(40), FolderFacts
<1>4. order \in Seq(X!Entry) /\ Len(order) = m
  <2>1. order \in [1..m -> X!Entry]
    BY ZenonT(40), <1>2, <1>3
  <2> QED BY <2>1
<1>5. PICK v : v = [Volume |-> vol, Dir |-> path, Order |-> order, Selected |-> 0, Scroll |-> 0]
  BY ZenonT(40)
<1>6. ViewOK(v)
  <2>1. v.Volume = vol /\ v.Dir = path /\ v.Order = order /\ v.Selected = 0 /\ v.Scroll = 0
    BY ZenonT(40), <1>5
  <2>2. v \in [Volume : 1..Volumes, Dir : Seq(Nat), Order : Seq(X!Entry), Selected : Int, Scroll : Int]
    <3>1. 0 \in Int
      OBVIOUS
    <3> QED BY ZenonT(40), <1>3, <1>4, <1>5, <3>1
  <2>3. DOMAIN order = 1..m /\ \A k \in 1..m : order[k] \in Contents[<<vol, path>>]
    BY ZenonT(40), <1>2
  <2> QED BY ZenonT(40), <1>2, <1>4, <2>1, <2>2, <2>3 DEF ViewOK
<1>7. PICK k : k = X!Focused(v, focus)
  BY ZenonT(40)
<1>8. k \in Nat /\ (k < X!ItemCount(v) \/ (X!ItemCount(v) = 0 /\ k = 0))
  BY ZenonT(40), <1>6, <1>7, FocusIs
<1>9. PICK u : u = [v EXCEPT !.Selected = k]
  BY ZenonT(40)
<1>10. /\ u = [Volume |-> vol, Dir |-> path, Order |-> order, Selected |-> k, Scroll |-> 0]
  BY <1>5, <1>9
<1>11. ViewOK(u)
  <2>1. u \in [Volume : 1..Volumes, Dir : Seq(Nat), Order : Seq(X!Entry), Selected : Int, Scroll : Int]
    <3>1. k \in Int /\ 0 \in Int
      BY <1>8
    <3> QED BY <1>3, <1>4, <1>10, <3>1
  <2>2. u.Volume = vol /\ u.Dir = path /\ u.Order = order
    BY <1>10
  <2>3. \A j \in 1..Len(u.Order) : u.Order[j] \in Contents[<<u.Volume, u.Dir>>]
    BY ZenonT(40), <1>2, <1>4, <2>2
  <2>4. \A i, j \in 1..Len(u.Order) : u.Order[i].name = u.Order[j].name => i = j
    BY <1>2, <1>4, <2>2
  <2> QED BY ZenonT(40), <2>1, <2>2, <2>3, <2>4 DEF ViewOK
<1>12. X!ItemCount(u) = X!ItemCount(v)
  BY <1>5, <1>10 DEF X!ItemCount, X!Shift
<1>13. InRange(u)
  BY <1>8, <1>10, <1>12 DEF InRange
<1>14. X!Clamped(u)
  BY ZenonT(40), <1>1, <1>5, <1>7, <1>9 DEF X!Load
<1>15. NewView(u)
  BY ZenonT(40), <1>11, <1>13, <1>14, ClampedIs
<1>16. view'.Selected = k /\ view'.Order = order /\ view'.Dir = path /\ Shows(vol, path)
  BY <1>10, <1>15 DEF NewView, Shows
<1>17. v.Order = order /\ v.Dir = path
  BY <1>5
<1>18. X!Focused(v, focus) = X!Focused(view', focus)
  BY ZenonT(40), <1>16, <1>17, FindSame
<1> QED BY ZenonT(40), <1>7, <1>16, <1>18

LEMMA LoadDirIs ==
  ASSUME NEW vol, NEW path, <<vol, path>> \in DOMAIN Contents, corrected = FALSE,
         NEW hidden, NEW focus, X!LoadDir(vol, path, hidden, focus)
  PROVE  Shows(vol, path) /\ dirty' = X!All /\ view'.Selected = X!Focused(view', focus)
<1>1. PICK r \in X!Readings(vol, path, hidden) : X!Load(vol, path, SortMode, r.entries, focus)
  BY ZenonT(40) DEF X!LoadDir
<1>2. PICK S \in SUBSET Contents[<<vol, path>>] : S = r.entries
  BY ZenonT(40), ReadingsAre
<1>3. X!Load(vol, path, SortMode, S, focus)
  BY ZenonT(40), <1>1, <1>2
<1>4. Shows(vol, path) /\ view'.Selected = X!Focused(view', focus)
  BY ZenonT(40), <1>3, LoadIs
<1> QED BY ZenonT(40), <1>4 DEF X!LoadDir

(* Moving the selection. *)
LEMMA NearIs ==
  ASSUME ViewOK(view), X!ItemCount(view) # 0, NEW index \in Int
  PROVE  X!Near(index) \in Nat /\ X!Near(index) < X!ItemCount(view)
<1>1. PICK count \in Nat \ {0} : count = X!ItemCount(view)
  BY CountIs
<1>2. X!Near(index) = IF index < 0 THEN 0 ELSE IF index >= count THEN count - 1 ELSE index
  BY ZenonT(40), <1>1 DEF X!Near
<1> QED BY <1>1, <1>2

Moved ==
  /\ ViewOK(view') /\ OnScreen(view') /\ corrected' = FALSE
  /\ view'.Order = view.Order /\ view'.Dir = view.Dir /\ view'.Volume = view.Volume
  /\ view'.Selected = view.Selected => view' = view

LEMMA MoveIs ==
  ASSUME ViewOK(view), OnScreen(view), corrected = FALSE, NEW index \in Int, X!Move(index)
  PROVE  Moved /\ (X!ItemCount(view) # 0 => view'.Selected = X!Near(index))
<1>1. CASE X!ItemCount(view) = 0 \/ X!Near(index) = view.Selected
  <2>1. view' = view /\ corrected' = corrected
    BY ZenonT(40), <1>1 DEF X!Move
  <2>2. Moved
    BY <2>1 DEF Moved
  <2> QED BY ZenonT(40), <1>1, <2>1, <2>2
<1>2. CASE X!ItemCount(view) # 0 /\ X!Near(index) # view.Selected
  <2>1. PICK k \in Nat : k = X!Near(index) /\ k < X!ItemCount(view) /\ k # view.Selected
    BY <1>2, NearIs
  <2>2. PICK u : u = [view EXCEPT !.Selected = k]
    BY ZenonT(40)
  <2>3. X!Clamped(u)
    BY ZenonT(40), <1>2, <2>1, <2>2 DEF X!Move
  <2>4. /\ u.Selected = k /\ u.Scroll = view.Scroll /\ u.Order = view.Order /\ u.Dir = view.Dir
        /\ u.Volume = view.Volume
        /\ u \in [Volume : 1..Volumes, Dir : Seq(Nat), Order : Seq(X!Entry), Selected : Int, Scroll : Int]
    <3>1. view \in [Volume : 1..Volumes, Dir : Seq(Nat), Order : Seq(X!Entry), Selected : Int, Scroll : Int]
      BY DEF ViewOK
    <3> QED BY <2>2, <3>1
  <2>5. ViewOK(u)
    BY ZenonT(40), <2>4 DEF ViewOK
  <2>6. X!ItemCount(u) = X!ItemCount(view)
    BY <2>4 DEF X!ItemCount, X!Shift
  <2>7. InRange(u)
    BY <2>1, <2>4, <2>6 DEF InRange
  <2>8. NewView(u)
    BY ZenonT(40), <2>3, <2>5, <2>7, ClampedIs
  <2>9. Moved /\ view'.Selected = k
    BY <2>1, <2>4, <2>8 DEF NewView, Moved
  <2> QED BY ZenonT(40), <2>1, <2>9
<1> QED BY <1>1, <1>2

LEMMA LeastOf ==
  ASSUME NEW S \in SUBSET Nat, S # {}
  PROVE  X!Min(S) \in S /\ \A y \in S : X!Min(S) <= y
<1>1. IsWellFoundedOn(OpToRel(<, Nat), Nat)
  BY ZenonT(40), NatLessThanWellFounded
<1>2. PICK x \in S : \A y \in S : ~(<<y, x>> \in OpToRel(<, Nat))
  BY ZenonT(40), <1>1, WFMin
<1>3. \A y \in S : ~(y < x)
  BY ZenonT(40), <1>2 DEF OpToRel
<1>4. \A y \in S : x <= y
  <2> TAKE y \in S
  <2>1. ~(y < x)
    BY Zenon, <1>3
  <2>2. x \in Nat /\ y \in Nat
    OBVIOUS
  <2> QED BY <2>1, <2>2
<1> QED BY ZenonT(40), <1>4 DEF X!Min

LEMMA JumpIs ==
  ASSUME ViewOK(view), OnScreen(view), NEW letter, X!StepsTo(letter) # {}
  PROVE  (view.Selected + X!Min(X!StepsTo(letter))) % X!ItemCount(view) \in Int
<1>1. PICK count \in Nat : count = X!ItemCount(view)
  BY CountIs
<1>2. PICK S : S = X!StepsTo(letter)
  BY ZenonT(40)
<1>3. S \subseteq 1..count /\ S # {}
  BY ZenonT(40), <1>1, <1>2 DEF X!StepsTo
<1>4. count > 0 /\ S \in SUBSET Nat
  <2>1. PICK x \in S : x \in 1..count
    BY ZenonT(40), <1>3
  <2>2. S \in SUBSET Nat
    BY <1>3
  <2> QED BY <2>1, <2>2
<1>5. PICK step \in 1..count : step = X!Min(S)
  BY ZenonT(40), <1>3, <1>4, LeastOf
<1>6. view.Selected \in Nat
  BY DEF OnScreen, InRange
<1>7. (view.Selected + step) % count \in Int
  BY <1>4, <1>5, <1>6
<1> QED BY ZenonT(40), <1>1, <1>2, <1>5, <1>7

(* What of the screen is not marked is as it would be drawn now.           *)
Marks == [list : BOOLEAN, now : BOOLEAN, rows : [a : Nat \cup {-1}, b : Nat \cup {-1}],
          lost : BOOLEAN, stale : BOOLEAN]

RowOf(v, p, index) ==
  IF index >= X!ItemCount(v) THEN << >>
  ELSE <<X!ItemEntry(v, index).name, index = v.Selected,
         /\ X!ItemEntry(v, index) # X!NoItem
         /\ p.state = "playing" /\ p.track = X!Track(v, X!ItemEntry(v, index))>>

NowOf(p, auto) == <<IF p.state = "playing" THEN p.track ELSE X!NoTrack, auto>>

Marked(m, v, r) == v.Scroll + r \in {m.rows.a, m.rows.b} /\ v.Scroll + r < X!ItemCount(v)

RowsDrawn(m, v, p, s) ==
  m.list \/ \A r \in 0..(Visible - 1) : s.rows[r] = RowOf(v, p, v.Scroll + r) \/ Marked(m, v, r)

Drawn(m, v, p, auto, s) ==
  ~m.stale => (m.lost \/ RowsDrawn(m, v, p, s)) /\ (m.now \/ s.now = NowOf(p, auto))

LEMMA RowIs ==
  /\ \A i : X!Row(i) = RowOf(view, playing, i)
  /\ X!NowLine = NowOf(playing, Autoplay)
BY Zenon DEF X!Row, X!IsPlayingEntry, RowOf, X!NowLine, NowOf

LEMMA AllDrawn ==
  ASSUME NEW m, m.list, m.now, NEW v, NEW p, NEW auto, NEW s
  PROVE  Drawn(m, v, p, auto, s)
BY DEF Drawn, RowsDrawn

LEMMA MarksAre ==
  /\ X!All \in Marks /\ X!All.list /\ X!All.now /\ X!NoRows = [a |-> -1, b |-> -1]
  /\ \A m \in Marks :
       /\ X!List(m) \in Marks /\ X!List(m).list
       /\ X!List(m).now = m.now /\ X!List(m).stale = m.stale /\ X!List(m).lost = m.lost
       /\ X!ListAndNow(m) \in Marks /\ X!ListAndNow(m).list /\ X!ListAndNow(m).now
<1>1. X!NoRows = [a |-> -1, b |-> -1]
  BY DEF X!NoRows
<1>2. X!All \in Marks /\ X!All.list /\ X!All.now
  BY <1>1 DEF X!All, Marks
<1>3. ASSUME NEW m \in Marks
      PROVE  /\ X!List(m) \in Marks /\ X!List(m).list
             /\ X!List(m).now = m.now /\ X!List(m).stale = m.stale /\ X!List(m).lost = m.lost
             /\ X!ListAndNow(m) \in Marks /\ X!ListAndNow(m).list /\ X!ListAndNow(m).now
  BY ZenonT(40) DEF Marks, X!List, X!ListAndNow
<1> QED BY <1>1, <1>2, <1>3

(* A list that is marked may be any other. *)
LEMMA ListDrawn ==
  ASSUME NEW m \in Marks, NEW v, NEW w, NEW p, NEW auto, NEW s, Drawn(m, v, p, auto, s)
  PROVE  Drawn(X!List(m), w, p, auto, s)
<1>1. /\ X!List(m).list /\ X!List(m).now = m.now /\ X!List(m).stale = m.stale
  BY MarksAre
<1> QED BY ZenonT(40), <1>1 DEF Drawn, RowsDrawn

(* The line of the track is marked when what it shows changes. *)
LEMMA NowDrawn ==
  ASSUME NEW m \in Marks, NEW b \in BOOLEAN, NEW v, NEW p, NEW auto, NEW other, NEW s,
         Drawn(m, v, p, auto, s), ~b => other = auto
  PROVE  /\ [m EXCEPT !.now = @ \/ b] \in Marks
         /\ Drawn([m EXCEPT !.now = @ \/ b], v, p, other, s)
<1>1. PICK n : n = [m EXCEPT !.now = m.now \/ b]
  BY ZenonT(40)
<1>2. /\ n \in Marks /\ n.list = m.list /\ n.rows = m.rows /\ n.lost = m.lost /\ n.stale = m.stale
      /\ n.now = (m.now \/ b)
  <2>1. m.now \in BOOLEAN /\ (m.now \/ b) \in BOOLEAN
    BY DEF Marks
  <2> QED BY <1>1, <2>1 DEF Marks
<1>3. RowsDrawn(m, v, p, s) => RowsDrawn(n, v, p, s)
  BY ZenonT(40), <1>2 DEF RowsDrawn, Marked
<1>4. Drawn(n, v, p, other, s)
  BY ZenonT(40), <1>2, <1>3 DEF Drawn
<1> QED BY ZenonT(40), <1>1, <1>2, <1>4

(* A player that stops where nothing played changes nothing. *)
LEMMA StopDrawn ==
  ASSUME NEW m \in Marks, NEW v, NEW p, NEW q, NEW auto, NEW s, Drawn(m, v, p, auto, s),
         q.state # "playing"
  PROVE  /\ [m EXCEPT !.stale = @ \/ p.state = "playing"] \in Marks
         /\ Drawn([m EXCEPT !.stale = @ \/ p.state = "playing"], v, q, auto, s)
<1>1. PICK b \in BOOLEAN : b = (p.state = "playing")
  BY ZenonT(40)
<1>2. PICK n : n = [m EXCEPT !.stale = m.stale \/ b]
  BY ZenonT(40)
<1>3. /\ n \in Marks /\ n.list = m.list /\ n.rows = m.rows /\ n.lost = m.lost /\ n.now = m.now
      /\ n.stale = (m.stale \/ b)
  <2>1. m.stale \in BOOLEAN /\ (m.stale \/ b) \in BOOLEAN
    BY DEF Marks
  <2> QED BY <1>2, <2>1 DEF Marks
<1>4. ASSUME ~b PROVE Drawn(n, v, q, auto, s)
  <2>1. p.state # "playing"
    BY ZenonT(40), <1>1, <1>4
  <2>2. \A i : RowOf(v, q, i) = RowOf(v, p, i)
    BY ZenonT(40), <2>1 DEF RowOf
  <2>3. NowOf(q, auto) = NowOf(p, auto)
    BY ZenonT(40), <2>1 DEF NowOf
  <2>4. RowsDrawn(m, v, p, s) => RowsDrawn(n, v, q, s)
    BY ZenonT(40), <1>3, <2>2 DEF RowsDrawn, Marked
  <2> QED BY ZenonT(40), <1>3, <2>3, <2>4 DEF Drawn
<1>5. ASSUME b PROVE Drawn(n, v, q, auto, s)
  BY ZenonT(40), <1>3, <1>5 DEF Drawn
<1> QED BY ZenonT(40), <1>1, <1>2, <1>3, <1>4, <1>5

(* MarkSelect marks what a move of the selection changes. *)
LEMMA SelectDrawn ==
  ASSUME NEW m \in Marks, NEW v, ViewOK(v), OnScreen(v), NEW w, ViewOK(w), OnScreen(w),
         w.Order = v.Order, w.Dir = v.Dir, w.Volume = v.Volume, w.Selected = v.Selected => w = v,
         NEW p, NEW auto, NEW s, Drawn(m, v, p, auto, s)
  PROVE  X!MarkSelect(v, w, m) \in Marks /\ Drawn(X!MarkSelect(v, w, m), w, p, auto, s)
<1>1. CASE w.Selected = v.Selected
  <2>1. X!MarkSelect(v, w, m) = m
    BY ZenonT(40), <1>1 DEF X!MarkSelect
  <2> QED BY ZenonT(40), <1>1, <2>1
<1>2. CASE w.Selected # v.Selected /\ w.Scroll # v.Scroll
  <2>1. X!MarkSelect(v, w, m) = X!List(m)
    BY ZenonT(40), <1>2 DEF X!MarkSelect
  <2>2. X!List(m) \in Marks
    BY ZenonT(40), MarksAre
  <2>3. Drawn(X!List(m), w, p, auto, s)
    BY ListDrawn
  <2> QED BY ZenonT(40), <2>1, <2>2, <2>3
<1>3. CASE w.Selected # v.Selected /\ w.Scroll = v.Scroll
  <2>1. v.Selected \in Nat /\ w.Selected \in Nat /\ v.Scroll \in Nat
    BY DEF OnScreen, InRange
  <2>2. PICK b \in BOOLEAN : b = (m.rows # X!NoRows)
    BY ZenonT(40)
  <2>3. PICK n : n = [m EXCEPT !.rows = [a |-> v.Selected, b |-> w.Selected], !.lost = m.lost \/ b]
    BY ZenonT(40)
  <2>4. X!MarkSelect(v, w, m) = n
    BY ZenonT(40), <1>3, <2>2, <2>3 DEF X!MarkSelect
  <2>5. /\ n \in Marks /\ n.list = m.list /\ n.now = m.now /\ n.stale = m.stale
        /\ n.rows.a = v.Selected /\ n.rows.b = w.Selected /\ n.lost = (m.lost \/ b)
    <3>1. m.lost \in BOOLEAN /\ (m.lost \/ b) \in BOOLEAN
      BY DEF Marks
    <3>2. PICK two : two = [a |-> v.Selected, b |-> w.Selected]
      BY ZenonT(40)
    <3>3. two \in [a : Nat \cup {-1}, b : Nat \cup {-1}] /\ two.a = v.Selected /\ two.b = w.Selected
      BY <2>1, <3>2
    <3>4. n = [m EXCEPT !.rows = two, !.lost = m.lost \/ b]
      BY ZenonT(40), <2>3, <3>2
    <3> QED BY ZenonT(40), <3>1, <3>3, <3>4 DEF Marks
  <2>6. X!ItemCount(w) = X!ItemCount(v) /\ \A i : X!ItemEntry(w, i) = X!ItemEntry(v, i)
    BY ZenonT(40) DEF X!ItemCount, X!ItemEntry, X!Shift
  <2>7. \A E : X!Track(w, E) = X!Track(v, E)
    BY ZenonT(40) DEF X!Track
  <2>8. \A i : i # v.Selected /\ i # w.Selected => RowOf(w, p, i) = RowOf(v, p, i)
    <3> TAKE i
    <3> HAVE i # v.Selected /\ i # w.Selected
    <3>1. CASE i >= X!ItemCount(v)
      BY ZenonT(40), <2>6, <3>1 DEF RowOf
    <3>2. CASE ~(i >= X!ItemCount(v))
      <4>1. PICK e, t : e = X!ItemEntry(v, i) /\ t = X!Track(v, e)
        BY ZenonT(40)
      <4>2. RowOf(v, p, i) =
              <<e.name, i = v.Selected, e # X!NoItem /\ p.state = "playing" /\ p.track = t>>
        BY ZenonT(40), <3>2, <4>1 DEF RowOf
      <4>3. RowOf(w, p, i) =
              <<e.name, i = w.Selected, e # X!NoItem /\ p.state = "playing" /\ p.track = t>>
        <5>1. e = X!ItemEntry(w, i) /\ ~(i >= X!ItemCount(w))
          BY ZenonT(40), <2>6, <3>2, <4>1
        <5>2. t = X!Track(w, e)
          BY ZenonT(40), <2>7, <4>1
        <5> QED BY ZenonT(40), <5>1, <5>2 DEF RowOf
      <4>4. (i = v.Selected) = (i = w.Selected)
        OBVIOUS
      <4> QED BY ZenonT(40), <4>2, <4>3, <4>4
    <3> QED BY <3>1, <3>2
  <2>9. \A i : i >= X!ItemCount(v) => RowOf(w, p, i) = RowOf(v, p, i)
    BY ZenonT(40), <2>6 DEF RowOf
  <2>10. ASSUME ~b, RowsDrawn(m, v, p, s) PROVE RowsDrawn(n, w, p, s)
    <3>1. CASE m.list
      BY ZenonT(40), <2>5, <3>1 DEF RowsDrawn
    <3>2. CASE ~m.list
      <4> SUFFICES ASSUME NEW r \in 0..(Visible - 1)
                   PROVE  s.rows[r] = RowOf(w, p, w.Scroll + r) \/ Marked(n, w, r)
        BY DEF RowsDrawn
      <4>1. PICK i : i = v.Scroll + r
        BY ZenonT(40)
      <4>2. i \in Nat /\ i # -1
        BY <2>1, <4>1, ListSizes
      <4>3. ~Marked(m, v, r)
        <5>1. m.rows = X!NoRows
          BY ZenonT(40), <2>2, <2>10
        <5>2. X!NoRows.a = -1 /\ X!NoRows.b = -1
          BY DEF X!NoRows
        <5>3. m.rows.a = -1 /\ m.rows.b = -1
          BY ZenonT(40), <5>1, <5>2
        <5> QED BY <4>1, <4>2, <5>3 DEF Marked
      <4>4. s.rows[r] = RowOf(v, p, i)
        BY ZenonT(40), <2>10, <3>2, <4>1, <4>3 DEF RowsDrawn
      <4>5. X!ItemCount(v) \in Nat
        BY CountIs
      <4>6. CASE i >= X!ItemCount(v)
        BY ZenonT(40), <1>3, <2>9, <4>1, <4>4, <4>6
      <4>7. CASE i < X!ItemCount(v) /\ i \in {v.Selected, w.Selected}
        <5>1. w.Scroll + r \in {n.rows.a, n.rows.b}
          BY ZenonT(40), <1>3, <2>5, <4>1, <4>7
        <5>2. w.Scroll + r < X!ItemCount(w)
          BY ZenonT(40), <1>3, <2>6, <4>1, <4>7
        <5> QED BY ZenonT(40), <5>1, <5>2 DEF Marked
      <4>8. CASE i \notin {v.Selected, w.Selected}
        BY ZenonT(40), <1>3, <2>8, <4>1, <4>4, <4>8
      <4>9. i >= X!ItemCount(v) \/ i < X!ItemCount(v)
        BY <4>2, <4>5
      <4> QED BY ZenonT(40), <4>6, <4>7, <4>8, <4>9
    <3> QED BY <3>1, <3>2
  <2>11. Drawn(n, w, p, auto, s)
    BY ZenonT(40), <2>5, <2>10 DEF Drawn
  <2> QED BY ZenonT(40), <2>4, <2>5, <2>11
<1> QED BY ZenonT(40), <1>1, <1>2, <1>3

------------------------------------------------------------------------------
(* The explorer, step by step: what is not marked is on the screen, except *)
(* for a track that has just ended, which the next step takes up.          *)
Ended == playing.state \in {"ended", "broken"}

Framed(s) ==
  /\ s = [rows |-> s.rows, now |-> s.now]
  /\ s.rows = [r \in 0..(Visible - 1) |-> s.rows[r]]

(* What every handler keeps. *)
ListInv ==
  /\ ViewOK(view) /\ OnScreen(view) /\ corrected = FALSE
  /\ dirty \in Marks /\ Framed(screen)

Redrawn == Drawn(dirty, view, playing, Autoplay, screen)

Fresh == xpc = "key" => dirty = X!All \/ (~dirty.list /\ ~dirty.now /\ dirty.rows = X!NoRows)

(* What plays is a WAV file on a volume. *)
PlayerOK(p) ==
  /\ p \in [state : {"idle", "playing", "ended", "broken"}, track : X!Tracks]
  /\ p.state = "idle" <=> p.track = X!NoTrack

SettingsOK ==
  /\ SortMode \in 0..2 /\ ShowHidden \in BOOLEAN /\ Autoplay \in BOOLEAN
  /\ LastClickItem \in Nat \cup {-1}

ExplorerInv ==
  /\ xpc \in {"shell", "key", "mouse", "poll", "take", "present"}
  /\ ListInv /\ Fresh /\ SettingsOK /\ PlayerOK(playing)
  /\ xpc # "shell" /\ ~(xpc = "take" /\ Ended) => Redrawn

(* A step that marks everything. *)
LEMMA ShowsRedrawn ==
  ASSUME NEW vol, NEW path, Shows(vol, path), dirty' = X!All, Framed(screen')
  PROVE  ListInv' /\ Redrawn'
<1>1. dirty' \in Marks /\ dirty'.list /\ dirty'.now
  BY ZenonT(40), MarksAre
<1>2. Drawn(dirty', view', playing', Autoplay', screen')
  BY ZenonT(40), <1>1, AllDrawn
<1> QED BY ZenonT(40), <1>1, <1>2 DEF Shows, ListInv, Redrawn

LEMMA SelectKeeps ==
  ASSUME ListInv, Redrawn, NEW index \in Int, X!Select(index),
         UNCHANGED <<playing, screen, Autoplay>>
  PROVE  ListInv' /\ Redrawn' 
<1>1. X!Move(index) /\ dirty' = X!MarkSelect(view, view', dirty)
  BY ZenonT(40) DEF X!Select
<1>2. Moved
  BY ZenonT(40), <1>1, MoveIs DEF ListInv
<1>3. Drawn(dirty, view, playing, Autoplay, screen) /\ dirty \in Marks
  BY ZenonT(40) DEF Redrawn, ListInv
<1>4. PICK w : w = view'
  BY ZenonT(40)
<1>5. /\ ViewOK(w) /\ OnScreen(w) /\ w.Order = view.Order /\ w.Dir = view.Dir /\ w.Volume = view.Volume
      /\ w.Selected = view.Selected => w = view
  BY ZenonT(40), <1>2, <1>4 DEF Moved
<1>6. /\ X!MarkSelect(view, w, dirty) \in Marks
      /\ Drawn(X!MarkSelect(view, w, dirty), w, playing, Autoplay, screen)
  BY ZenonT(40), <1>3, <1>5, SelectDrawn DEF ListInv
<1> QED BY ZenonT(40), <1>1, <1>2, <1>4, <1>6 DEF Moved, ListInv, Redrawn

LEMMA JumpKeeps ==
  ASSUME ListInv, Redrawn, NEW letter, X!JumpToLetter(letter),
         UNCHANGED <<playing, screen, Autoplay>>
  PROVE  ListInv' /\ Redrawn'
<1>1. CASE X!StepsTo(letter) = {}
  <2>1. view' = view /\ corrected' = corrected /\ dirty' = dirty
    BY ZenonT(40), <1>1 DEF X!JumpToLetter
  <2> QED BY ZenonT(40), <2>1 DEF ListInv, Redrawn
<1>2. CASE X!StepsTo(letter) # {}
  <2>1. PICK k \in Int : k = (view.Selected + X!Min(X!StepsTo(letter))) % X!ItemCount(view)
    BY ZenonT(40), <1>2, JumpIs DEF ListInv
  <2>2. X!Select(k)
    BY ZenonT(40), <1>2, <2>1 DEF X!JumpToLetter
  <2> QED BY ZenonT(40), <2>2, SelectKeeps
<1> QED BY ZenonT(40), <1>1, <1>2

LEMMA IdleIs == X!Idle.state = "idle"
BY DEF X!Idle

(* A track that is to start: nothing, a silence or the track. *)
LEMMA StartKeeps ==
  ASSUME ListInv, Redrawn, NEW E, X!StartPlay(E, dirty, playing),
         UNCHANGED <<view, corrected, screen, Autoplay>>
  PROVE  ListInv' /\ Redrawn'
<1>1. CASE playing' = playing /\ dirty' = dirty
  BY ZenonT(40), <1>1 DEF ListInv, Redrawn
<1>2. CASE playing' = X!Idle /\ dirty' = [dirty EXCEPT !.stale = @ \/ playing.state = "playing"]
  <2>1. PICK q : q = playing' /\ q.state # "playing"
    BY <1>2, IdleIs
  <2>2. /\ [dirty EXCEPT !.stale = @ \/ playing.state = "playing"] \in Marks
        /\ Drawn([dirty EXCEPT !.stale = @ \/ playing.state = "playing"], view, q, Autoplay, screen)
    BY ZenonT(40), <2>1, StopDrawn DEF ListInv, Redrawn
  <2> QED BY ZenonT(40), <1>2, <2>1, <2>2 DEF ListInv, Redrawn
<1>3. CASE dirty' = X!ListAndNow(dirty)
  <2>1. dirty' \in Marks /\ dirty'.list /\ dirty'.now
    BY ZenonT(40), <1>3, MarksAre DEF ListInv
  <2>2. Drawn(dirty', view', playing', Autoplay', screen')
    BY ZenonT(40), <2>1, AllDrawn
  <2> QED BY ZenonT(40), <2>1, <2>2 DEF ListInv, Redrawn
<1> QED BY ZenonT(40), <1>1, <1>2, <1>3 DEF X!StartPlay

(* Opening and leaving directories. *)
LEMMA GoUpKeeps ==
  ASSUME ListInv, Redrawn, X!GoUp, UNCHANGED <<playing, screen, Autoplay>>
  PROVE  ListInv' /\ Redrawn'
<1>1. CASE view.Dir = << >>
  <2>1. view' = view /\ corrected' = corrected /\ dirty' = dirty
    BY ZenonT(40), <1>1 DEF X!GoUp
  <2> QED BY ZenonT(40), <2>1 DEF ListInv, Redrawn
<1>2. CASE view.Dir # << >>
  <2>1. <<view.Volume, X!Front(view.Dir)>> \in DOMAIN Contents
    BY ZenonT(40), <1>2, FolderFacts DEF ListInv, ViewOK
  <2>2. X!LoadDir(view.Volume, X!Front(view.Dir), ShowHidden, X!Last(view.Dir))
    BY ZenonT(40), <1>2 DEF X!GoUp
  <2>3. Shows(view.Volume, X!Front(view.Dir)) /\ dirty' = X!All
    BY ZenonT(40), <2>1, <2>2, LoadDirIs DEF ListInv
  <2>4. Framed(screen')
    BY ZenonT(40) DEF ListInv
  <2> QED BY ZenonT(40), <2>3, <2>4, ShowsRedrawn
<1> QED BY ZenonT(40), <1>1, <1>2

LEMMA LoadKeeps ==
  ASSUME ListInv, NEW vol, NEW path, <<vol, path>> \in DOMAIN Contents,
         NEW hidden, NEW focus, X!LoadDir(vol, path, hidden, focus), UNCHANGED screen
  PROVE  ListInv' /\ Redrawn'
<1>1. Shows(vol, path) /\ dirty' = X!All
  BY ZenonT(40), LoadDirIs DEF ListInv
<1>2. Framed(screen')
  BY ZenonT(40) DEF ListInv
<1> QED BY ZenonT(40), <1>1, <1>2, ShowsRedrawn

LEMMA OpenDirShows ==
  ASSUME ListInv, NEW E \in Contents[<<view.Volume, view.Dir>>], E.kind = "dir", X!OpenDir(E)
  PROVE  Shows(view.Volume, Append(view.Dir, E.name)) \/ Shows(view.Volume, view.Dir)
<1>1. PICK sub : sub = Append(view.Dir, E.name)
  BY ZenonT(40)
<1>2. <<view.Volume, view.Dir>> \in DOMAIN Contents /\ corrected = FALSE
  BY ZenonT(40) DEF ListInv, ViewOK
<1>3. <<view.Volume, sub>> \in DOMAIN Contents
  BY ZenonT(40), <1>1, <1>2, FolderFacts
<1>4. PICK r \in X!Readings(view.Volume, sub, ShowHidden) :
        IF r.ok THEN X!Load(view.Volume, sub, SortMode, r.entries, X!NoFocus)
        ELSE \E s \in X!Readings(view.Volume, view.Dir, ShowHidden) :
               X!Load(view.Volume, view.Dir, SortMode, s.entries, X!NoFocus)
  BY ZenonT(40), <1>1 DEF X!OpenDir
<1>5. CASE r.ok
  <2>1. PICK S \in SUBSET Contents[<<view.Volume, sub>>] : S = r.entries
    BY ZenonT(40), ReadingsAre
  <2>2. X!Load(view.Volume, sub, SortMode, S, X!NoFocus)
    BY ZenonT(40), <1>4, <1>5, <2>1
  <2> QED BY ZenonT(40), <1>1, <1>2, <1>3, <2>2, LoadIs
<1>6. CASE ~r.ok
  <2>1. PICK s \in X!Readings(view.Volume, view.Dir, ShowHidden) :
          X!Load(view.Volume, view.Dir, SortMode, s.entries, X!NoFocus)
    BY ZenonT(40), <1>4, <1>6
  <2>2. PICK S \in SUBSET Contents[<<view.Volume, view.Dir>>] : S = s.entries
    BY ZenonT(40), ReadingsAre
  <2>3. X!Load(view.Volume, view.Dir, SortMode, S, X!NoFocus)
    BY ZenonT(40), <2>1, <2>2
  <2> QED BY ZenonT(40), <1>2, <2>3, LoadIs
<1> QED BY ZenonT(40), <1>5, <1>6

LEMMA OpenDirKeeps ==
  ASSUME ListInv, NEW E \in Contents[<<view.Volume, view.Dir>>], E.kind = "dir", X!OpenDir(E),
         UNCHANGED screen
  PROVE  ListInv' /\ Redrawn'
<1>1. Framed(screen') /\ dirty' = X!All
  BY ZenonT(40) DEF ListInv, X!OpenDir
<1> QED BY ZenonT(40), <1>1, OpenDirShows, ShowsRedrawn

LEMMA BlankFramed == Framed(X!Blank)
BY DEF Framed, X!Blank

(* Enter, and the second click. *)
LEMMA ActivateKeeps ==
  ASSUME ListInv, Redrawn, NEW index \in Int, X!Activate(index), UNCHANGED Autoplay
  PROVE  ListInv' /\ Redrawn'
<1>1. PICK E : E = X!ItemEntry(view, index)
  BY ZenonT(40)
<1>2. E \in Contents[<<view.Volume, view.Dir>>] \cup {X!NoItem}
  BY ZenonT(40), <1>1, ItemIs DEF ListInv
<1>3. CASE E = X!NoItem /\ X!GoUp /\ UNCHANGED <<playing, screen>>
  BY ZenonT(40), <1>3, GoUpKeeps
<1>4. CASE E.kind = "dir" /\ X!OpenDir(E) /\ UNCHANGED <<playing, screen>>
  <2>1. E \in Contents[<<view.Volume, view.Dir>>]
    <3>1. X!NoItem.kind = "none"
      BY DEF X!NoItem
    <3> QED BY <1>2, <1>4, <3>1
  <2> QED BY ZenonT(40), <1>4, <2>1, OpenDirKeeps
<1>5. CASE X!StartPlay(E, dirty, playing) /\ UNCHANGED <<view, corrected, screen>>
  BY ZenonT(40), <1>5, StartKeeps
<1>6. CASE X!OpenViewer /\ UNCHANGED <<view, corrected, playing>>
  <2>1. dirty' = X!All /\ Framed(screen')
    BY ZenonT(40), <1>6, BlankFramed DEF X!OpenViewer
  <2>2. dirty' \in Marks /\ dirty'.list /\ dirty'.now
    BY ZenonT(40), <2>1, MarksAre
  <2>3. Drawn(dirty', view', playing', Autoplay', screen')
    BY ZenonT(40), <2>2, AllDrawn
  <2> QED BY ZenonT(40), <1>6, <2>1, <2>2, <2>3 DEF ListInv, Redrawn
<1>7. CASE UNCHANGED <<view, corrected, dirty, playing, screen>>
  BY ZenonT(40), <1>7 DEF ListInv, Redrawn
<1> QED BY ZenonT(40), <1>1, <1>3, <1>4, <1>5, <1>6, <1>7 DEF X!Activate

(* What Clamped makes of a list that is marked. *)
LEMMA ListKeeps ==
  ASSUME ListInv, Redrawn, NEW v, ViewOK(v), InRange(v), X!Clamped(v), dirty' = X!List(dirty),
         UNCHANGED <<playing, screen, Autoplay>>
  PROVE  ListInv' /\ Redrawn'
<1>1. NewView(v) /\ corrected = FALSE
  BY ZenonT(40), ClampedIs DEF ListInv
<1>2. dirty \in Marks /\ Drawn(dirty, view, playing, Autoplay, screen)
  BY ZenonT(40) DEF ListInv, Redrawn
<1>3. dirty' \in Marks
  BY ZenonT(40), <1>2, MarksAre
<1>4. PICK w : w = view'
  BY ZenonT(40)
<1>5. Drawn(X!List(dirty), w, playing, Autoplay, screen)
  BY ZenonT(40), <1>2, ListDrawn
<1> QED BY ZenonT(40), <1>1, <1>3, <1>4, <1>5 DEF NewView, ListInv, Redrawn

LEMMA ResortedIs ==
  ASSUME ViewOK(view), NEW mode
  PROVE  /\ ViewOK(X!Resorted(mode)) /\ InRange(X!Resorted(mode))
         /\ X!Resorted(mode).Dir = view.Dir /\ X!Resorted(mode).Volume = view.Volume
         /\ X!SelectedName # X!NoFocus /\ X!FindItemByName(X!Resorted(mode), X!SelectedName) >= 0
              => X!Resorted(mode).Selected = X!FindItemByName(X!Resorted(mode), X!SelectedName)
<1>1. /\ view \in [Volume : 1..Volumes, Dir : Seq(Nat), Order : Seq(X!Entry), Selected : Int, Scroll : Int]
      /\ <<view.Volume, view.Dir>> \in DOMAIN Contents
      /\ \A k \in 1..Len(view.Order) : view.Order[k] \in Contents[<<view.Volume, view.Dir>>]
  BY ZenonT(40) DEF ViewOK
<1>2. PICK S : S = X!ToSet(view.Order)
  BY ZenonT(40)
<1>3. S \in SUBSET Contents[<<view.Volume, view.Dir>>]
  <2>1. view.Order \in Seq(X!Entry)
    BY <1>1
  <2>2. S = {view.Order[k] : k \in 1..Len(view.Order)}
    BY <1>2, <2>1 DEF X!ToSet
  <2> QED BY ZenonT(40), <1>1, <2>2
<1>4. PICK order : order = X!SortEntries(S, mode)
  BY ZenonT(40)
<1>5. PICK m \in Nat : /\ order \in [1..m -> S]
                    /\ \A j, k \in 1..m : order[j].name = order[k].name => j = k
  <2>1. Listable(S)
    BY <1>1, <1>3, ContentsListable
  <2>2. /\ Cardinality(S) \in Nat /\ order \in [1..Cardinality(S) -> S]
        /\ \A j, k \in 1..Cardinality(S) : order[j].name = order[k].name => j = k
    BY ZenonT(40), <1>4, <2>1, SortHas
  <2>3. PICK c : c = Cardinality(S)
    BY ZenonT(40)
  <2> QED BY ZenonT(40), <2>2, <2>3
<1>6. \A e \in Contents[<<view.Volume, view.Dir>>] : e \in X!Entry
  BY ZenonT(40), <1>1, FolderFacts
<1>7. order \in Seq(X!Entry) /\ Len(order) = m
  <2>1. order \in [1..m -> X!Entry]
    BY <1>3, <1>5, <1>6
  <2> QED BY <2>1
<1>8. PICK v : v = [view EXCEPT !.Order = order, !.Scroll = 0]
  BY ZenonT(40)
<1>9. /\ v \in [Volume : 1..Volumes, Dir : Seq(Nat), Order : Seq(X!Entry), Selected : Int, Scroll : Int]
      /\ v.Volume = view.Volume /\ v.Dir = view.Dir /\ v.Order = order
  <2>1. v = [[view EXCEPT !.Order = order] EXCEPT !.Scroll = 0]
    BY <1>1, <1>8
  <2>2. PICK x : x = [view EXCEPT !.Order = order]
    BY ZenonT(40)
  <2>3. /\ x \in [Volume : 1..Volumes, Dir : Seq(Nat), Order : Seq(X!Entry), Selected : Int, Scroll : Int]
        /\ x.Volume = view.Volume /\ x.Dir = view.Dir /\ x.Order = order
    BY ZenonT(40), <1>1, <1>7, <2>2
  <2>4. v = [x EXCEPT !.Scroll = 0]
    BY ZenonT(40), <2>1, <2>2
  <2>5. PICK k \in Int : k = 0
    OBVIOUS
  <2>6. v = [x EXCEPT !.Scroll = k]
    BY ZenonT(40), <2>4, <2>5
  <2>7. v \in [Volume : 1..Volumes, Dir : Seq(Nat), Order : Seq(X!Entry), Selected : Int, Scroll : Int]
    BY ZenonT(40), <2>3, <2>5, <2>6
  <2>8. v.Volume = view.Volume /\ v.Dir = view.Dir /\ v.Order = order
    BY <2>3, <2>6
  <2> QED BY ZenonT(40), <2>7, <2>8
<1>10. ViewOK(v)
  <2>1. \A k \in 1..Len(v.Order) : v.Order[k] \in Contents[<<v.Volume, v.Dir>>]
    BY ZenonT(40), <1>3, <1>5, <1>7, <1>9
  <2>2. \A j, k \in 1..Len(v.Order) : v.Order[j].name = v.Order[k].name => j = k
    BY <1>5, <1>7, <1>9
  <2> QED BY ZenonT(40), <1>1, <1>9, <2>1, <2>2 DEF ViewOK
<1>11. PICK found : found = IF X!SelectedName = X!NoFocus THEN -1 ELSE X!FindItemByName(v, X!SelectedName)
  BY ZenonT(40)
<1>12. X!ItemCount(v) \in Nat /\ found \in Int /\ found >= -1 /\ found < X!ItemCount(v)
  <2>1. X!ItemCount(v) \in Nat
    BY <1>10, CountIs
  <2>2. PICK place : place = X!FindItemByName(v, X!SelectedName)
    BY ZenonT(40)
  <2>3. place \in Int /\ place >= -1 /\ place < X!ItemCount(v)
    BY ZenonT(40), <1>10, <2>2, FindIs
  <2>4. found = -1 \/ found = place
    BY ZenonT(40), <1>11, <2>2
  <2> QED BY <2>1, <2>3, <2>4
<1>13. PICK k : k = IF found >= 0 THEN found ELSE 0
  BY ZenonT(40)
<1>14. k \in Nat /\ (k < X!ItemCount(v) \/ (X!ItemCount(v) = 0 /\ k = 0))
  BY <1>12, <1>13
<1>15. PICK u : u = [v EXCEPT !.Selected = k]
  BY ZenonT(40)
<1>16. u = X!Resorted(mode)
  BY ZenonT(40), <1>2, <1>4, <1>8, <1>11, <1>13, <1>15 DEF X!Resorted
<1>17. /\ u \in [Volume : 1..Volumes, Dir : Seq(Nat), Order : Seq(X!Entry), Selected : Int, Scroll : Int]
       /\ u.Volume = v.Volume /\ u.Dir = v.Dir /\ u.Order = v.Order /\ u.Selected = k
  <2>1. k \in Int
    BY <1>14
  <2> QED BY ZenonT(40), <1>9, <1>15, <2>1
<1>18. ViewOK(u)
  BY ZenonT(40), <1>10, <1>17 DEF ViewOK
<1>19. X!ItemCount(u) = X!ItemCount(v)
  BY ZenonT(40), <1>17 DEF X!ItemCount, X!Shift
<1>20. InRange(u)
  BY <1>14, <1>17, <1>19 DEF InRange
<1>21. X!FindItemByName(u, X!SelectedName) = X!FindItemByName(v, X!SelectedName)
  BY ZenonT(40), <1>17, FindSame
<1>22. /\ u.Dir = view.Dir /\ u.Volume = view.Volume
       /\ X!SelectedName # X!NoFocus /\ X!FindItemByName(u, X!SelectedName) >= 0
            => u.Selected = X!FindItemByName(u, X!SelectedName)
  BY ZenonT(40), <1>9, <1>11, <1>13, <1>17, <1>21
<1> QED BY ZenonT(40), <1>16, <1>18, <1>20, <1>22

(* The keys. *)
LEMMA CycleSortKeeps ==
  ASSUME ListInv, Redrawn, X!CycleSort, UNCHANGED <<playing, screen, Autoplay>>
  PROVE  ListInv' /\ Redrawn'
<1>1. PICK mode : mode = (SortMode + 1) % 3
  BY ZenonT(40)
<1>2. X!Clamped(X!Resorted(mode)) /\ dirty' = X!List(dirty)
  BY ZenonT(40), <1>1 DEF X!CycleSort
<1>3. PICK v : v = X!Resorted(mode)
  BY ZenonT(40)
<1>4. ViewOK(v) /\ InRange(v)
  BY ZenonT(40), <1>3, ResortedIs DEF ListInv
<1> QED BY ZenonT(40), <1>2, <1>3, <1>4, ListKeeps

LEMMA SelectKeyKeeps ==
  ASSUME ListInv, Redrawn, X!SelectKey
  PROVE  ListInv' /\ Redrawn'
<1>1. UNCHANGED <<playing, screen, Autoplay>>
  BY ZenonT(40) DEF X!SelectKey, X!settings
<1>2. ASSUME NEW index \in {view.Selected - 1, view.Selected + 1, view.Selected - Visible,
                            view.Selected + Visible, 0, X!ItemCount(view) - 1},
             X!Select(index)
      PROVE  ListInv' /\ Redrawn'
  <2>1. view.Selected \in Int /\ Visible \in Int /\ X!ItemCount(view) \in Nat
    <3>1. ViewOK(view) /\ view.Selected \in Nat
      BY ZenonT(40) DEF ListInv, OnScreen, InRange
    <3>2. X!ItemCount(view) \in Nat
      BY <3>1, CountIs
    <3> QED BY <3>1, <3>2, ListSizes
  <2>2. index \in Int
    BY <1>2, <2>1
  <2> QED BY ZenonT(40), <1>1, <1>2, <2>2, SelectKeeps
<1>3. ASSUME NEW letter \in X!Letters, X!JumpToLetter(letter) PROVE ListInv' /\ Redrawn'
  BY ZenonT(40), <1>1, <1>3, JumpKeeps
<1> QED BY ZenonT(40), <1>2, <1>3 DEF X!SelectKey

LEMMA SwitchKeeps ==
  ASSUME ListInv, NEW vol \in 1..Volumes, X!SwitchVolume(vol), UNCHANGED screen
  PROVE  ListInv' /\ Redrawn'
<1>1. <<vol, << >>>> \in DOMAIN Contents
  BY ZenonT(40), ListSizes
<1>2. X!LoadDir(vol, << >>, ShowHidden, X!NoFocus)
  BY ZenonT(40) DEF X!SwitchVolume
<1> QED BY ZenonT(40), <1>1, <1>2, LoadKeeps

LEMMA OpenKeyKeeps ==
  ASSUME ListInv, Redrawn, X!OpenKey
  PROVE  ListInv' /\ Redrawn'
<1>1. UNCHANGED Autoplay
  BY ZenonT(40) DEF X!OpenKey, X!settings
<1>2. CASE X!Activate(view.Selected)
  <2>1. view.Selected \in Int
    BY DEF ListInv, ViewOK
  <2> QED BY ZenonT(40), <1>1, <1>2, <2>1, ActivateKeeps
<1>3. CASE X!GoUp /\ UNCHANGED <<playing, screen>>
  BY ZenonT(40), <1>1, <1>3, GoUpKeeps
<1>4. CASE X!SwitchVolume((view.Volume % Volumes) + 1) /\ UNCHANGED <<playing, screen>>
  <2>1. (view.Volume % Volumes) + 1 \in 1..Volumes
    <3>1. view.Volume \in Nat /\ Volumes \in Nat \ {0}
      BY ListSizes DEF ListInv, ViewOK
    <3> QED BY <3>1
  <2> QED BY ZenonT(40), <1>4, <2>1, SwitchKeeps
<1> QED BY ZenonT(40), <1>2, <1>3, <1>4 DEF X!OpenKey

LEMMA RefreshKeeps ==
  ASSUME ListInv, NEW hidden, X!Refresh(hidden), UNCHANGED screen
  PROVE  ListInv' /\ Redrawn'
<1>1. <<view.Volume, view.Dir>> \in DOMAIN Contents
  BY ZenonT(40) DEF ListInv, ViewOK
<1>2. X!LoadDir(view.Volume, view.Dir, hidden, X!SelectedName)
  BY ZenonT(40) DEF X!Refresh
<1> QED BY ZenonT(40), <1>1, <1>2, LoadKeeps

LEMMA ListKeyKeeps ==
  ASSUME ListInv, Redrawn, X!ListKey
  PROVE  ListInv' /\ Redrawn'
<1>1. UNCHANGED <<playing, screen>>
  BY ZenonT(40) DEF X!ListKey
<1>2. CASE X!CycleSort /\ UNCHANGED <<ShowHidden, Autoplay>>
  BY ZenonT(40), <1>1, <1>2, CycleSortKeeps
<1>3. ASSUME NEW hidden, X!Refresh(hidden) PROVE ListInv' /\ Redrawn'
  BY ZenonT(40), <1>1, <1>3, RefreshKeeps
<1> QED BY ZenonT(40), <1>2, <1>3 DEF X!ListKey

LEMMA ControlKeeps ==
  ASSUME ListInv, Redrawn, X!PlayerControl
  PROVE  ListInv' /\ Redrawn'
<1>1. UNCHANGED <<view, corrected, screen>>
  BY ZenonT(40) DEF X!PlayerControl
<1>2. dirty \in Marks /\ Drawn(dirty, view, playing, Autoplay, screen)
  BY ZenonT(40) DEF ListInv, Redrawn
<1>3. CASE X!Stop
  <2>1. dirty' = X!ListAndNow(dirty)
    BY ZenonT(40), <1>3 DEF X!Stop
  <2>2. dirty' \in Marks /\ dirty'.list /\ dirty'.now
    BY ZenonT(40), <1>2, <2>1, MarksAre
  <2>3. Drawn(dirty', view', playing', Autoplay', screen')
    BY ZenonT(40), <2>2, AllDrawn
  <2> QED BY ZenonT(40), <1>1, <2>2, <2>3 DEF ListInv, Redrawn
<1>4. CASE X!ToggleAutoplay
  <2>1. PICK b \in BOOLEAN : b = TRUE
    BY ZenonT(40)
  <2>2. PICK n : n = [dirty EXCEPT !.now = dirty.now \/ b]
    BY ZenonT(40)
  <2>3. dirty' = n /\ playing' = playing
    <3>1. (dirty.now \/ b) = TRUE
      BY <1>2, <2>1 DEF Marks
    <3> QED BY ZenonT(40), <1>4, <2>2, <3>1 DEF X!ToggleAutoplay
  <2>4. PICK other : other = Autoplay'
    BY ZenonT(40)
  <2>5. n \in Marks /\ Drawn(n, view, playing, other, screen)
    BY ZenonT(40), <1>2, <2>1, <2>2, NowDrawn
  <2> QED BY ZenonT(40), <1>1, <2>3, <2>4, <2>5 DEF ListInv, Redrawn
<1> QED BY ZenonT(40), <1>3, <1>4 DEF X!PlayerControl

(* The mouse. *)
LEMMA ScrollbarKeeps ==
  ASSUME ListInv, Redrawn, X!ClickScrollbar
  PROVE  ListInv' /\ Redrawn'
<1>1. UNCHANGED <<playing, screen, Autoplay>> /\ dirty' = X!List(dirty)
  BY ZenonT(40) DEF X!ClickScrollbar, X!settings
<1>2. PICK by \in {-Visible, Visible} :
        X!Clamped([view EXCEPT !.Scroll = @ + by, !.Selected = X!Near(@ + by)])
  BY ZenonT(40) DEF X!ClickScrollbar
<1>3. /\ by \in Int /\ X!ItemCount(view) # 0
      /\ view \in [Volume : 1..Volumes, Dir : Seq(Nat), Order : Seq(X!Entry), Selected : Int, Scroll : Int]
  <2>1. X!ItemCount(view) > Visible /\ X!ItemCount(view) \in Nat /\ Visible \in Nat
    BY CountIs, ListSizes DEF ListInv, X!ClickScrollbar
  <2>2. by \in Int
    BY <1>2, <2>1
  <2>3. X!ItemCount(view) # 0
    BY ONLY <2>1, ListSizes
  <2> QED BY ZenonT(40), <2>2, <2>3 DEF ListInv, ViewOK
<1>4. PICK k \in Nat : k = X!Near(view.Selected + by) /\ k < X!ItemCount(view)
  <2>1. view.Selected + by \in Int
    BY <1>3
  <2> QED BY ZenonT(40), <1>3, <2>1, NearIs DEF ListInv
<1>5. PICK y \in Int : y = view.Scroll + by
  BY <1>3
<1>6. PICK v : v = [view EXCEPT !.Scroll = y, !.Selected = k]
  BY ZenonT(40)
<1>7. X!Clamped(v)
  BY ZenonT(40), <1>2, <1>4, <1>5, <1>6
<1>8. /\ v.Selected = k /\ v.Order = view.Order /\ v.Dir = view.Dir /\ v.Volume = view.Volume
      /\ v \in [Volume : 1..Volumes, Dir : Seq(Nat), Order : Seq(X!Entry), Selected : Int, Scroll : Int]
  <2>1. k \in Int
    BY <1>4
  <2> QED BY ZenonT(40), <1>3, <1>5, <1>6, <2>1
<1>9. ViewOK(v)
  BY ZenonT(40), <1>8 DEF ListInv, ViewOK
<1>10. X!ItemCount(v) = X!ItemCount(view)
  BY ZenonT(40), <1>8 DEF X!ItemCount, X!Shift
<1>11. InRange(v)
  BY <1>4, <1>8, <1>10 DEF InRange
<1> QED BY ZenonT(40), <1>1, <1>7, <1>9, <1>11, ListKeeps

LEMMA RowKeeps ==
  ASSUME ListInv, Redrawn, X!ClickRow
  PROVE  ListInv' /\ Redrawn'
<1>1. UNCHANGED Autoplay
  BY ZenonT(40) DEF X!ClickRow, X!settings
<1>2. PICK row \in 0..(Visible - 1) :
        \/ X!Activate(view.Scroll + row)
        \/ X!Select(view.Scroll + row) /\ UNCHANGED <<playing, screen>>
  BY ZenonT(40) DEF X!ClickRow
<1>3. PICK index \in Int : index = view.Scroll + row
  <2>1. view.Scroll \in Int /\ row \in Int
    BY <1>2, ListSizes DEF ListInv, ViewOK
  <2> QED BY <2>1
<1> QED BY ZenonT(40), <1>1, <1>2, <1>3, ActivateKeeps, SelectKeeps

LEMMA PanelKeeps ==
  ASSUME ListInv, Redrawn, X!ClickPanel
  PROVE  ListInv' /\ Redrawn'
<1>1. UNCHANGED <<playing, screen, Autoplay>>
  BY ZenonT(40) DEF X!ClickPanel, X!settings
<1>2. ASSUME NEW vol \in 1..Volumes, X!SwitchVolume(vol) PROVE ListInv' /\ Redrawn'
  BY ZenonT(40), <1>1, <1>2, SwitchKeeps
<1>3. CASE X!GoUp
  BY ZenonT(40), <1>1, <1>3, GoUpKeeps
<1> QED BY ZenonT(40), <1>2, <1>3 DEF X!ClickPanel

(* The player and the screen. *)
LEMMA PollKeeps ==
  ASSUME ListInv, Redrawn, PlayerOK(playing), X!PlayerPoll
  PROVE  ListInv' /\ (Ended' \/ Redrawn')
<1>1. UNCHANGED <<view, corrected, dirty, screen, Autoplay>>
  BY ZenonT(40) DEF X!PlayerPoll, X!settings
<1>2. CASE UNCHANGED playing
  BY ZenonT(40), <1>1, <1>2 DEF ListInv, Redrawn
<1>3. ASSUME NEW s \in {"ended", "broken"}, playing' = [playing EXCEPT !.state = s]
      PROVE  ListInv' /\ Ended'
  <2>1. playing'.state = s
    BY <1>3 DEF PlayerOK
  <2>2. Ended'
    BY ZenonT(40), <1>3, <2>1 DEF Ended
  <2> QED BY ZenonT(40), <1>1, <2>2 DEF ListInv
<1> QED BY ZenonT(40), <1>2, <1>3 DEF X!PlayerPoll

(* A track that ended: all of it is marked, whatever follows. *)
LEMMA AdvanceKeeps ==
  ASSUME ListInv, X!AdvanceTrack(X!ListAndNow(dirty)), UNCHANGED screen
  PROVE  ListInv' /\ Redrawn'
<1>1. PICK m : m = X!ListAndNow(dirty)
  BY ZenonT(40)
<1>2. m \in Marks /\ m.list /\ m.now
  BY ZenonT(40), <1>1, MarksAre DEF ListInv
<1>3. CASE X!PlayingHere < 0 \/ X!WavsAfter(X!PlayingHere) = {}
  <2>1. view' = view /\ corrected' = corrected /\ dirty' = m
    BY ZenonT(40), <1>1, <1>3 DEF X!AdvanceTrack
  <2>2. Drawn(m, view', playing', Autoplay', screen')
    BY ZenonT(40), <1>2, AllDrawn
  <2> QED BY ZenonT(40), <1>2, <2>1, <2>2 DEF ListInv, Redrawn
<1>4. CASE ~(X!PlayingHere < 0) /\ X!WavsAfter(X!PlayingHere) # {}
  <2>1. PICK place : place = X!PlayingHere
    BY ZenonT(40)
  <2>2. place \in Int /\ place >= -1 /\ ~(place < 0)
    <3>1. PICK k : k = X!FindItemByName(view, playing.track.name)
      BY ZenonT(40)
    <3>2. k \in Int /\ k >= -1
      BY ZenonT(40), <3>1, FindIs DEF ListInv
    <3>3. place = k \/ place = -1
      BY ZenonT(40), <2>1, <3>1 DEF X!PlayingHere
    <3> QED BY <1>4, <2>1, <3>2, <3>3
  <2>3. PICK S : S = X!WavsAfter(place)
    BY ZenonT(40)
  <2>4. S \in SUBSET Nat
    <3>1. X!ItemCount(view) \in Nat
      BY ZenonT(40), CountIs DEF ListInv
    <3>2. S \subseteq (place + 1)..(X!ItemCount(view) - 1)
      BY ZenonT(40), <2>3 DEF X!WavsAfter
    <3>3. (place + 1)..(X!ItemCount(view) - 1) \subseteq Nat
      BY <2>2, <3>1
    <3> QED BY ZenonT(40), <3>2, <3>3
  <2>5. PICK next \in Nat : next = X!Min(S)
    BY ZenonT(40), <1>4, <2>1, <2>3, <2>4, LeastOf
  <2>6. next \in Int
    OBVIOUS
  <2>7. /\ X!Move(next)
        /\ X!StartPlay(X!ItemEntry(view, next), X!MarkSelect(view, view', m), X!Idle)
    BY ZenonT(40), <1>1, <1>4, <2>1, <2>3, <2>5 DEF X!AdvanceTrack
  <2>8. Moved
    BY ZenonT(40), <2>6, <2>7, MoveIs DEF ListInv
  <2>9. PICK n : n = X!MarkSelect(view, view', m)
    BY ZenonT(40)
  <2>10. n \in Marks /\ n.list /\ n.now
    <3>1. CASE view'.Selected = view.Selected
      BY ZenonT(40), <1>2, <2>9, <3>1 DEF X!MarkSelect
    <3>2. CASE view'.Selected # view.Selected /\ view'.Scroll # view.Scroll
      <4>1. n = X!List(m)
        BY ZenonT(40), <2>9, <3>2 DEF X!MarkSelect
      <4> QED BY ZenonT(40), <1>2, <4>1, MarksAre
    <3>3. CASE view'.Selected # view.Selected /\ view'.Scroll = view.Scroll
      <4>1. PICK b \in BOOLEAN : b = (m.rows # X!NoRows)
        BY ZenonT(40)
      <4>2. PICK two : two = [a |-> view.Selected, b |-> view'.Selected]
        BY ZenonT(40)
      <4>3. n = [m EXCEPT !.rows = two, !.lost = m.lost \/ b]
        BY ZenonT(40), <2>9, <3>3, <4>1, <4>2 DEF X!MarkSelect
      <4>4. two \in [a : Nat \cup {-1}, b : Nat \cup {-1}]
        <5>1. view.Selected \in Nat /\ view'.Selected \in Nat
          BY <2>8 DEF ListInv, Moved, OnScreen, InRange
        <5> QED BY <4>2, <5>1
      <4>5. m.lost \in BOOLEAN /\ (m.lost \/ b) \in BOOLEAN
        BY <1>2 DEF Marks
      <4> QED BY ZenonT(40), <1>2, <4>3, <4>4, <4>5 DEF Marks
    <3> QED BY ZenonT(40), <3>1, <3>2, <3>3
  <2>11. X!StartPlay(X!ItemEntry(view, next), n, X!Idle)
    BY ZenonT(40), <2>7, <2>9
  <2>12. PICK b \in BOOLEAN : b = (X!Idle.state = "playing")
    BY ZenonT(40)
  <2>13. dirty' \in {n, [n EXCEPT !.stale = n.stale \/ b], X!ListAndNow(n)}
    BY ZenonT(40), <2>11, <2>12 DEF X!StartPlay
  <2>14. dirty' \in Marks /\ dirty'.list /\ dirty'.now
    <3>1. /\ [n EXCEPT !.stale = n.stale \/ b] \in Marks
          /\ [n EXCEPT !.stale = n.stale \/ b].list /\ [n EXCEPT !.stale = n.stale \/ b].now
      <4>1. n.stale \in BOOLEAN /\ (n.stale \/ b) \in BOOLEAN
        BY <2>10 DEF Marks
      <4> QED BY <2>10, <4>1 DEF Marks
    <3>2. X!ListAndNow(n) \in Marks /\ X!ListAndNow(n).list /\ X!ListAndNow(n).now
      BY ZenonT(40), <2>10, MarksAre
    <3> QED BY ZenonT(40), <2>10, <2>13, <3>1, <3>2
  <2>15. Drawn(dirty', view', playing', Autoplay', screen')
    BY ZenonT(40), <2>14, AllDrawn
  <2> QED BY ZenonT(40), <2>8, <2>14, <2>15 DEF Moved, ListInv, Redrawn
<1> QED BY ZenonT(40), <1>3, <1>4

LEMMA TakeKeeps ==
  ASSUME ListInv, Ended \/ Redrawn, X!TakeFinished
  PROVE  ListInv' /\ Redrawn'
<1>1. UNCHANGED <<screen, Autoplay>>
  BY ZenonT(40) DEF X!TakeFinished, X!settings
<1>2. CASE X!AdvanceTrack(X!ListAndNow(dirty))
  BY ZenonT(40), <1>1, <1>2, AdvanceKeeps
<1>3. CASE dirty' = X!ListAndNow(dirty) /\ UNCHANGED <<view, corrected>>
  <2>1. dirty' \in Marks /\ dirty'.list /\ dirty'.now
    BY ZenonT(40), <1>3, MarksAre DEF ListInv
  <2>2. Drawn(dirty', view', playing', Autoplay', screen')
    BY ZenonT(40), <2>1, AllDrawn
  <2> QED BY ZenonT(40), <1>1, <1>3, <2>1, <2>2 DEF ListInv, Redrawn
<1>4. CASE /\ playing.state = "playing" /\ UNCHANGED <<playing, view, corrected>>
           /\ \E second \in BOOLEAN : dirty' = [dirty EXCEPT !.now = @ \/ second]
  <2>1. Redrawn
    BY <1>4 DEF Ended
  <2>2. PICK b \in BOOLEAN : dirty' = [dirty EXCEPT !.now = @ \/ b]
    BY ZenonT(40), <1>4
  <2>3. dirty' \in Marks /\ Drawn(dirty', view, playing, Autoplay, screen)
    BY ZenonT(40), <2>1, <2>2, NowDrawn DEF ListInv, Redrawn
  <2> QED BY ZenonT(40), <1>1, <1>4, <2>3 DEF ListInv, Redrawn
<1>5. CASE playing.state = "idle" /\ UNCHANGED <<playing, dirty, view, corrected>>
  <2>1. Redrawn
    BY <1>5 DEF Ended
  <2> QED BY ZenonT(40), <1>1, <1>5, <2>1 DEF ListInv, Redrawn
<1> QED BY ZenonT(40), <1>2, <1>3, <1>4, <1>5 DEF X!TakeFinished

(* The end of a round: what is marked is drawn. *)
LEMMA PresentKeeps ==
  ASSUME ListInv, Redrawn, X!Present
  PROVE  /\ ListInv' /\ Redrawn'
         /\ ~dirty'.list /\ ~dirty'.now /\ dirty'.rows = X!NoRows
<1>1. UNCHANGED <<view, playing, corrected, Autoplay>>
  BY ZenonT(40) DEF X!Present, X!settings
<1>2. dirty \in Marks /\ Drawn(dirty, view, playing, Autoplay, screen)
  BY ZenonT(40) DEF ListInv, Redrawn
<1>3. PICK m : m = [list |-> FALSE, now |-> FALSE, rows |-> X!NoRows,
                    lost |-> dirty.lost /\ ~dirty.list,
                    stale |-> dirty.stale /\ ~(dirty.list /\ dirty.now)]
  BY ZenonT(40)
<1>4. /\ m \in Marks /\ ~m.list /\ ~m.now /\ m.rows = X!NoRows
      /\ m.lost <=> dirty.lost /\ ~dirty.list
      /\ m.stale <=> dirty.stale /\ ~(dirty.list /\ dirty.now)
  <2>1. PICK b \in BOOLEAN, c \in BOOLEAN :
          /\ b = (dirty.lost /\ ~dirty.list)
          /\ c = (dirty.stale /\ ~(dirty.list /\ dirty.now))
    BY ZenonT(40)
  <2>2. m = [list |-> FALSE, now |-> FALSE, rows |-> X!NoRows, lost |-> b, stale |-> c]
    BY ZenonT(40), <1>3, <2>1
  <2>3. X!NoRows \in [a : Nat \cup {-1}, b : Nat \cup {-1}]
    BY DEF X!NoRows
  <2>4. m \in Marks /\ ~m.list /\ ~m.now /\ m.rows = X!NoRows /\ m.lost = b /\ m.stale = c
    BY <2>1, <2>2, <2>3 DEF Marks
  <2> QED BY ZenonT(40), <2>1, <2>4
<1>5. PICK rows : rows = IF dirty.list THEN X!ListRows ELSE X!DrawRows
  BY ZenonT(40)
<1>6. PICK line : line = IF dirty.now THEN X!NowLine ELSE screen.now
  BY ZenonT(40)
<1>7. screen' = [rows |-> rows, now |-> line] /\ dirty' = m
  BY ZenonT(40), <1>3, <1>5, <1>6 DEF X!Present
<1>8. screen'.rows = rows /\ screen'.now = line
  BY <1>7
<1>9. /\ DOMAIN rows = 0..(Visible - 1) /\ rows = [r \in 0..(Visible - 1) |-> rows[r]]
      /\ dirty.list => \A r \in 0..(Visible - 1) : rows[r] = RowOf(view, playing, view.Scroll + r)
      /\ ~dirty.list =>
           \A r \in 0..(Visible - 1) :
             rows[r] = IF Marked(dirty, view, r) THEN RowOf(view, playing, view.Scroll + r)
                       ELSE screen.rows[r]
  BY ZenonT(40), <1>5, RowIs DEF X!ListRows, X!DrawRows, Marked
<1>10. Framed(screen')
  BY ZenonT(40), <1>7, <1>8, <1>9 DEF Framed
<1>11. ASSUME ~m.stale PROVE m.lost \/ RowsDrawn(m, view, playing, screen')
  <2>1. CASE dirty.list
    BY ZenonT(40), <1>8, <1>9, <2>1 DEF RowsDrawn
  <2>2. CASE ~dirty.list /\ ~dirty.lost
    <3>1. RowsDrawn(dirty, view, playing, screen)
      BY ZenonT(40), <1>2, <1>4, <1>11, <2>2 DEF Drawn
    <3>2. \A r \in 0..(Visible - 1) : rows[r] = RowOf(view, playing, view.Scroll + r)
      BY ZenonT(40), <1>9, <2>2, <3>1 DEF RowsDrawn
    <3> QED BY ZenonT(40), <1>8, <3>2 DEF RowsDrawn
  <2>3. CASE ~dirty.list /\ dirty.lost
    BY ZenonT(40), <1>4, <2>3
  <2> QED BY <2>1, <2>2, <2>3
<1>12. ASSUME ~m.stale PROVE m.now \/ screen'.now = NowOf(playing, Autoplay)
  <2>1. CASE dirty.now
    BY ZenonT(40), <1>6, <1>8, <2>1, RowIs
  <2>2. CASE ~dirty.now
    BY ZenonT(40), <1>2, <1>4, <1>6, <1>8, <1>12, <2>2 DEF Drawn
  <2> QED BY <2>1, <2>2
<1>13. Drawn(m, view, playing, Autoplay, screen')
  BY ZenonT(40), <1>11, <1>12 DEF Drawn
<1> QED BY ZenonT(40), <1>1, <1>4, <1>7, <1>10, <1>13 DEF ListInv, Redrawn

(* The settings and the player through a round. *)
LEMMA IdleOK == PlayerOK(X!Idle)
<1>1. X!NoTrack \in X!Tracks
  BY ZenonT(40) DEF X!Tracks
<1>2. X!Idle = [state |-> "idle", track |-> X!NoTrack]
  BY ZenonT(40) DEF X!Idle
<1> QED BY <1>1, <1>2 DEF PlayerOK

LEMMA StartOK ==
  ASSUME ViewOK(view), NEW E \in Contents[<<view.Volume, view.Dir>>], E.kind = "wav",
         NEW player, PlayerOK(player), NEW m, X!StartPlay(E, m, player)
  PROVE  PlayerOK(playing')
<1>1. CASE playing' = player
  BY ZenonT(40), <1>1
<1>2. CASE playing' = X!Idle
  BY ZenonT(40), <1>2, IdleOK
<1>3. ASSUME NEW s \in {"playing", "ended", "broken"}, playing' = [state |-> s, track |-> X!Track(view, E)]
      PROVE  PlayerOK(playing')
  <2>1. PICK t : t = [Volume |-> view.Volume, Dir |-> view.Dir, name |-> E.name]
    BY ZenonT(40)
  <2>2. X!Track(view, E) = t
    BY ZenonT(40), <2>1 DEF X!Track
  <2>3. t \in X!Tracks
    <3>1. PICK d \in DOMAIN Contents : d = <<view.Volume, view.Dir>>
      BY DEF ViewOK
    <3>2. d[1] = view.Volume /\ d[2] = view.Dir
      BY <3>1
    <3>3. PICK wavs : wavs = [c \in DOMAIN Contents |->
                                {[Volume |-> c[1], Dir |-> c[2], name |-> e.name] :
                                   e \in {e \in Contents[c] : e.kind = "wav"}}]
      BY ZenonT(40)
    <3>4. X!Tracks = {X!NoTrack} \cup UNION {wavs[c] : c \in DOMAIN Contents}
      <4>1. X!Tracks = {X!NoTrack} \cup
              UNION {{[Volume |-> c[1], Dir |-> c[2], name |-> e.name] :
                        e \in {e \in Contents[c] : e.kind = "wav"}} : c \in DOMAIN Contents}
        BY ZenonT(40) DEF X!Tracks
      <4>2. {wavs[c] : c \in DOMAIN Contents} =
              {{[Volume |-> c[1], Dir |-> c[2], name |-> e.name] :
                  e \in {e \in Contents[c] : e.kind = "wav"}} : c \in DOMAIN Contents}
        BY ZenonT(40), <3>3
      <4> QED BY ZenonT(40), <4>1, <4>2
    <3>5. t \in wavs[d]
      <4>1. wavs[d] = {[Volume |-> d[1], Dir |-> d[2], name |-> e.name] :
                         e \in {e \in Contents[d] : e.kind = "wav"}}
        BY ZenonT(40), <3>3
      <4> QED BY ZenonT(40), <1>3, <2>1, <3>1, <3>2, <4>1
    <3> QED BY ZenonT(40), <3>4, <3>5
  <2>4. t # X!NoTrack
    <3>1. t.Volume >= 1 /\ t.Volume \in Nat
      BY <2>1, ListSizes DEF ViewOK
    <3>2. X!NoTrack.Volume = 0
      BY DEF X!NoTrack
    <3> QED BY <3>1, <3>2
  <2>5. playing' = [state |-> s, track |-> t]
    BY ZenonT(40), <1>3, <2>2
  <2> QED BY <1>3, <2>3, <2>4, <2>5 DEF PlayerOK
<1> QED BY ZenonT(40), <1>1, <1>2, <1>3 DEF X!StartPlay

LEMMA ActivateOK ==
  ASSUME ViewOK(view), PlayerOK(playing), NEW index \in Int, X!Activate(index)
  PROVE  PlayerOK(playing')
<1>1. PICK E : E = X!ItemEntry(view, index)
  BY ZenonT(40)
<1>2. CASE UNCHANGED playing
  BY ZenonT(40), <1>2
<1>3. CASE E.kind = "wav" /\ X!StartPlay(E, dirty, playing)
  <2>1. E \in Contents[<<view.Volume, view.Dir>>] \cup {X!NoItem}
    BY ZenonT(40), <1>1, ItemIs
  <2>2. X!NoItem.kind = "none"
    BY DEF X!NoItem
  <2>3. E \in Contents[<<view.Volume, view.Dir>>]
    BY <1>3, <2>1, <2>2
  <2> QED BY ZenonT(40), <1>3, <2>3, StartOK
<1> QED BY ZenonT(40), <1>1, <1>2, <1>3 DEF X!Activate

LEMMA AdvanceOK ==
  ASSUME ListInv, NEW m, X!AdvanceTrack(m)
  PROVE  PlayerOK(playing')
<1>1. CASE playing' = X!Idle
  BY ZenonT(40), <1>1, IdleOK
<1>2. CASE playing' # X!Idle
  <2>1. PICK place : place = X!PlayingHere
    BY ZenonT(40)
  <2>2. ~(place < 0) /\ X!WavsAfter(place) # {}
    BY ZenonT(40), <1>2, <2>1 DEF X!AdvanceTrack
  <2>3. PICK next, n : next = X!Min(X!WavsAfter(place)) /\ X!StartPlay(X!ItemEntry(view, next), n, X!Idle)
    BY ZenonT(40), <2>1, <2>2 DEF X!AdvanceTrack
  <2>4. place \in Int
    <3>1. PICK k : k = X!FindItemByName(view, playing.track.name)
      BY ZenonT(40)
    <3>2. k \in Int
      BY ZenonT(40), <3>1, FindIs DEF ListInv
    <3>3. place = k \/ place = -1
      BY ZenonT(40), <2>1, <3>1 DEF X!PlayingHere
    <3> QED BY <3>2, <3>3
  <2>5. PICK S : S = X!WavsAfter(place)
    BY ZenonT(40)
  <2>6. S \in SUBSET Nat /\ S # {}
    <3>1. X!ItemCount(view) \in Nat
      BY ZenonT(40), CountIs DEF ListInv
    <3>2. S \subseteq (place + 1)..(X!ItemCount(view) - 1)
      BY ZenonT(40), <2>5 DEF X!WavsAfter
    <3>3. (place + 1)..(X!ItemCount(view) - 1) \subseteq Nat
      BY <2>2, <2>4, <3>1
    <3> QED BY ZenonT(40), <2>2, <2>5, <3>2, <3>3
  <2>7. next \in S /\ next \in Int
    <3>1. next \in S
      BY ZenonT(40), <2>3, <2>5, <2>6, LeastOf
    <3> QED BY <2>6, <3>1
  <2>8. X!ItemEntry(view, next).kind = "wav"
    BY ZenonT(40), <2>5, <2>7 DEF X!WavsAfter
  <2>9. PICK E : E = X!ItemEntry(view, next)
    BY ZenonT(40)
  <2>10. E \in Contents[<<view.Volume, view.Dir>>]
    <3>1. E \in Contents[<<view.Volume, view.Dir>>] \cup {X!NoItem}
      BY ZenonT(40), <2>7, <2>9, ItemIs DEF ListInv
    <3>2. X!NoItem.kind = "none"
      BY DEF X!NoItem
    <3> QED BY <2>8, <2>9, <3>1, <3>2
  <2> QED BY ZenonT(40), <2>3, <2>8, <2>9, <2>10, IdleOK, StartOK DEF ListInv
<1> QED BY <1>1, <1>2

(* What each handler leaves the settings and the player. *)
Settled == SettingsOK /\ PlayerOK(playing)

LEMMA HandlerSettles ==
  ASSUME ListInv, Settled,
         X!SelectKey \/ X!OpenKey \/ X!ListKey \/ X!PlayerControl
  PROVE  /\ SortMode' \in 0..2 /\ ShowHidden' \in BOOLEAN /\ Autoplay' \in BOOLEAN
         /\ PlayerOK(playing')
<1>1. /\ SortMode \in 0..2 /\ ShowHidden \in BOOLEAN /\ Autoplay \in BOOLEAN /\ PlayerOK(playing)
  BY ZenonT(40) DEF Settled, SettingsOK
<1>2. CASE X!SelectKey
  BY ZenonT(40), <1>1, <1>2 DEF X!SelectKey, X!settings
<1>3. CASE X!OpenKey
  <2>1. UNCHANGED <<SortMode, ShowHidden, Autoplay>>
    BY ZenonT(40), <1>3 DEF X!OpenKey, X!settings
  <2>2. CASE X!Activate(view.Selected)
    <3>1. view.Selected \in Int /\ ViewOK(view)
      BY ZenonT(40) DEF ListInv, ViewOK
    <3> QED BY ZenonT(40), <1>1, <2>1, <2>2, <3>1, ActivateOK
  <2>3. CASE UNCHANGED playing
    BY ZenonT(40), <1>1, <2>1, <2>3
  <2> QED BY ZenonT(40), <1>3, <2>2, <2>3 DEF X!OpenKey
<1>4. CASE X!ListKey
  <2>1. playing' = playing /\ Autoplay' = Autoplay
    BY ZenonT(40), <1>4 DEF X!ListKey, X!settings
  <2>2. SortMode' \in 0..2
    <3>1. CASE SortMode' = SortMode
      BY ZenonT(40), <1>1, <3>1
    <3>2. CASE SortMode' = (SortMode + 1) % 3
      BY <1>1, <3>2
    <3> QED BY ZenonT(40), <1>4, <3>1, <3>2 DEF X!ListKey, X!CycleSort, X!settings
  <2>3. ShowHidden' = ShowHidden \/ ShowHidden' = ~ShowHidden
    BY ZenonT(40), <1>4 DEF X!ListKey, X!settings
  <2>4. ShowHidden' \in BOOLEAN
    BY ZenonT(40), <1>1, <2>3
  <2> QED BY ZenonT(40), <1>1, <2>1, <2>2, <2>4
<1>5. CASE X!PlayerControl
  <2>1. SortMode' = SortMode /\ ShowHidden' = ShowHidden
    BY ZenonT(40), <1>5 DEF X!PlayerControl
  <2>2. Autoplay' = Autoplay \/ Autoplay' = ~Autoplay
    BY ZenonT(40), <1>5 DEF X!PlayerControl, X!ToggleAutoplay
  <2>3. Autoplay' \in BOOLEAN
    BY ZenonT(40), <1>1, <2>2
  <2>4. playing' = playing \/ playing' = X!Idle
    BY ZenonT(40), <1>5 DEF X!PlayerControl, X!ToggleAutoplay, X!Stop
  <2> QED BY ZenonT(40), <1>1, <2>1, <2>3, <2>4, IdleOK
<1> QED BY ZenonT(40), <1>2, <1>3, <1>4, <1>5

(* Where a round stands, and all of it. *)
LEMMA InitExplorer == X!Init => ExplorerInv
<1> SUFFICES ASSUME X!Init PROVE ExplorerInv
  OBVIOUS
<1>1. /\ xpc = "shell" /\ view = X!Nowhere /\ SortMode = 0 /\ ShowHidden = FALSE /\ Autoplay = TRUE
      /\ dirty = X!All /\ playing = X!Idle /\ LastClickItem = -1 /\ screen = X!Blank /\ corrected = FALSE
  BY ZenonT(40) DEF X!Init
<1>2. view = [Volume |-> 1, Dir |-> << >>, Order |-> << >>, Selected |-> 0, Scroll |-> 0]
  BY ZenonT(40), <1>1 DEF X!Nowhere
<1>3. view \in [Volume : 1..Volumes, Dir : Seq(Nat), Order : Seq(X!Entry), Selected : Int, Scroll : Int]
  <2>1. 1 \in 1..Volumes /\ << >> \in Seq(Nat) /\ << >> \in Seq(X!Entry)
    BY ListSizes
  <2> QED BY <1>2, <2>1
<1>4. ViewOK(view)
  <2>1. <<view.Volume, view.Dir>> \in DOMAIN Contents /\ Len(view.Order) = 0
    BY <1>2, ListSizes
  <2>2. 1..Len(view.Order) = {}
    BY <2>1
  <2> QED BY ZenonT(40), <1>3, <2>1, <2>2 DEF ViewOK
<1>5. X!ItemCount(view) = 0
  BY <1>2 DEF X!ItemCount, X!Shift
<1>6. OnScreen(view)
  BY <1>2, <1>5, ListSizes DEF OnScreen, InRange
<1>7. SettingsOK
  <2>1. SortMode \in 0..2 /\ LastClickItem \in Nat \cup {-1}
    BY <1>1
  <2> QED BY ZenonT(40), <1>1, <2>1 DEF SettingsOK
<1>8. dirty \in Marks /\ Framed(screen) /\ PlayerOK(playing)
  BY ZenonT(40), <1>1, MarksAre, BlankFramed, IdleOK
<1> QED BY ZenonT(40), <1>1, <1>4, <1>6, <1>7, <1>8 DEF ExplorerInv, ListInv, Fresh

LEMMA RunExplorer == ExplorerInv /\ X!ExplorerRun => ExplorerInv'
<1> SUFFICES ASSUME ExplorerInv, X!ExplorerRun PROVE ExplorerInv'
  OBVIOUS
<1>1. /\ xpc' = "key" /\ SortMode' = 0 /\ ShowHidden' = FALSE /\ Autoplay' = TRUE
      /\ dirty' = X!All /\ playing' = X!Idle /\ LastClickItem' = -1 /\ screen' = X!Blank
  BY ZenonT(40) DEF X!ExplorerRun
<1>0. PICK d \in DOMAIN Contents : \E r \in X!Readings(d[1], d[2], FALSE) :
        X!Load(d[1], d[2], 0, r.entries, X!NoFocus)
  BY ZenonT(40) DEF X!ExplorerRun
<1>2. PICK r \in X!Readings(d[1], d[2], FALSE) : X!Load(d[1], d[2], 0, r.entries, X!NoFocus)
  BY ZenonT(40), <1>0
<1>3. PICK vol, path : vol = d[1] /\ path = d[2]
  BY ZenonT(40)
<1>4. <<vol, path>> \in DOMAIN Contents
  <2>1. d \in (1..Volumes) \X Seq(Nat)
    BY ZenonT(40), ListConstants DEF X!ExplorerConstants
  <2>2. d = <<vol, path>>
    BY <1>3, <2>1
  <2> QED BY ZenonT(40), <2>2
<1>5. PICK S \in SUBSET Contents[<<vol, path>>] : S = r.entries
  BY ZenonT(40), <1>2, <1>3, ReadingsAre
<1>6. Shows(vol, path)
  <2>1. X!Load(vol, path, 0, S, X!NoFocus)
    BY ZenonT(40), <1>2, <1>3, <1>5
  <2> QED BY ZenonT(40), <1>4, <2>1, LoadIs DEF ExplorerInv, ListInv
<1>7. ListInv' /\ Redrawn'
  BY ZenonT(40), <1>1, <1>6, BlankFramed, ShowsRedrawn
<1>8. SettingsOK' /\ PlayerOK(playing')
  <2>1. SettingsOK'
    <3>1. SortMode' \in 0..2 /\ LastClickItem' \in Nat \cup {-1}
      BY <1>1
    <3> QED BY ZenonT(40), <1>1, <3>1 DEF SettingsOK
  <2> QED BY ZenonT(40), <1>1, <2>1, IdleOK
<1> QED BY ZenonT(40), <1>1, <1>7, <1>8 DEF ExplorerInv, Fresh

LEMMA KeyExplorer ==
  ExplorerInv /\ (X!HandleKey \/ X!NoKey \/ X!Quit) => ExplorerInv'
<1> SUFFICES ASSUME ExplorerInv, X!HandleKey \/ X!NoKey \/ X!Quit PROVE ExplorerInv'
  OBVIOUS
<1>1. ListInv /\ Redrawn /\ SettingsOK /\ PlayerOK(playing)
  <2>1. xpc = "key"
    BY ZenonT(40) DEF X!HandleKey, X!NoKey, X!Quit
  <2>2. xpc # "shell" /\ xpc # "take"
    BY <2>1
  <2> QED BY ZenonT(40), <2>2 DEF ExplorerInv
<1>2. CASE X!HandleKey
  <2>1. xpc' = "mouse" /\ LastClickItem' = LastClickItem
    BY ZenonT(40), <1>2 DEF X!HandleKey, X!clicks
  <2>2. ListInv' /\ Redrawn'
    BY ZenonT(40), <1>1, <1>2, SelectKeyKeeps, OpenKeyKeeps, ListKeyKeeps, ControlKeeps DEF X!HandleKey
  <2>3. /\ SortMode' \in 0..2 /\ ShowHidden' \in BOOLEAN /\ Autoplay' \in BOOLEAN
        /\ PlayerOK(playing')
    BY ZenonT(40), <1>1, <1>2, HandlerSettles DEF X!HandleKey, Settled
  <2>4. SettingsOK'
    BY ZenonT(40), <1>1, <2>1, <2>3 DEF SettingsOK
  <2>5. xpc' # "key"
    BY <2>1
  <2> QED BY ZenonT(40), <2>1, <2>2, <2>3, <2>4, <2>5 DEF ExplorerInv, Fresh
<1>3. CASE X!NoKey
  <2>1. xpc' = "mouse" /\ UNCHANGED <<view, dirty, playing, screen, corrected, SortMode, ShowHidden,
                                      Autoplay, LastClickItem>>
    BY ZenonT(40), <1>3 DEF X!NoKey, X!clicks, X!settings
  <2>2. ListInv' /\ Redrawn' /\ SettingsOK'
    BY ZenonT(40), <1>1, <2>1 DEF ListInv, Redrawn, SettingsOK
  <2>3. xpc' # "key"
    BY <2>1
  <2> QED BY ZenonT(40), <1>1, <2>1, <2>2, <2>3 DEF ExplorerInv, Fresh
<1>4. CASE X!Quit
  <2>1. /\ xpc' = "shell" /\ playing' = X!Idle
        /\ UNCHANGED <<view, dirty, screen, corrected, SortMode, ShowHidden, Autoplay, LastClickItem>>
    BY ZenonT(40), <1>4 DEF X!Quit, X!clicks, X!settings
  <2>2. ListInv' /\ SettingsOK' /\ PlayerOK(playing')
    BY ZenonT(40), <1>1, <2>1, IdleOK DEF ListInv, SettingsOK
  <2>3. xpc' # "key"
    BY <2>1
  <2> QED BY ZenonT(40), <2>1, <2>2, <2>3 DEF ExplorerInv, Fresh
<1> QED BY ZenonT(40), <1>2, <1>3, <1>4

LEMMA ClickExplorer ==
  ExplorerInv /\ (X!HandleClick \/ X!NoClick) => ExplorerInv'
<1> SUFFICES ASSUME ExplorerInv, X!HandleClick \/ X!NoClick PROVE ExplorerInv'
  OBVIOUS
<1>1. ListInv /\ Redrawn /\ SettingsOK /\ PlayerOK(playing)
  <2>1. xpc = "mouse"
    BY ZenonT(40) DEF X!HandleClick, X!NoClick
  <2>2. xpc # "shell" /\ xpc # "take"
    BY <2>1
  <2> QED BY ZenonT(40), <2>2 DEF ExplorerInv
<1>2. SUFFICES ASSUME xpc' = "poll", ListInv', Redrawn', SettingsOK', PlayerOK(playing') PROVE ExplorerInv'
  <2>1. xpc' = "poll"
    BY ZenonT(40) DEF X!HandleClick, X!NoClick
  <2>2. CASE X!ClickRow
    <3>1. ListInv' /\ Redrawn'
      BY ZenonT(40), <1>1, <2>2, RowKeeps
    <3>2. PICK row \in 0..(Visible - 1) :
            \/ LastClickItem' = -1 /\ X!Activate(view.Scroll + row)
            \/ LastClickItem' = view.Scroll + row /\ UNCHANGED playing
      BY ZenonT(40), <2>2 DEF X!ClickRow
    <3>3. PICK index \in Nat : index = view.Scroll + row
      <4>1. view.Scroll \in Nat /\ row \in Nat
        BY <1>1, <3>2, ListSizes DEF ListInv, OnScreen
      <4> QED BY <4>1
    <3>4. LastClickItem' \in Nat \cup {-1}
      BY ZenonT(40), <3>2, <3>3
    <3>5. PlayerOK(playing')
      <4>1. index \in Int
        BY <3>3
      <4> QED BY ZenonT(40), <1>1, <3>2, <3>3, <4>1, ActivateOK DEF ListInv
    <3>6. UNCHANGED <<SortMode, ShowHidden, Autoplay>>
      BY ZenonT(40), <2>2 DEF X!ClickRow, X!settings
    <3>7. SettingsOK'
      BY ZenonT(40), <1>1, <3>4, <3>6 DEF SettingsOK
    <3> QED BY ZenonT(40), <1>2, <2>1, <3>1, <3>5, <3>7
  <2>3. CASE X!ClickScrollbar \/ X!ClickPanel
    <3>1. ListInv' /\ Redrawn'
      BY ZenonT(40), <1>1, <2>3, ScrollbarKeeps, PanelKeeps
    <3>2. UNCHANGED <<SortMode, ShowHidden, Autoplay, playing, LastClickItem>>
      BY ZenonT(40), <2>3 DEF X!ClickScrollbar, X!ClickPanel, X!settings, X!clicks
    <3>3. SettingsOK' /\ PlayerOK(playing')
      BY ZenonT(40), <1>1, <3>2 DEF SettingsOK
    <3> QED BY ZenonT(40), <1>2, <2>1, <3>1, <3>3
  <2>4. CASE X!PlayerControl /\ UNCHANGED X!clicks
    <3>1. ListInv' /\ Redrawn'
      BY ZenonT(40), <1>1, <2>4, ControlKeeps
    <3>2. /\ SortMode' \in 0..2 /\ ShowHidden' \in BOOLEAN /\ Autoplay' \in BOOLEAN
          /\ PlayerOK(playing') /\ LastClickItem' = LastClickItem
      BY ZenonT(40), <1>1, <2>4, HandlerSettles DEF Settled, X!clicks
    <3>3. SettingsOK'
      BY ZenonT(40), <1>1, <3>2 DEF SettingsOK
    <3> QED BY ZenonT(40), <1>2, <2>1, <3>1, <3>2, <3>3
  <2>5. CASE X!NoClick
    <3>1. UNCHANGED <<view, dirty, playing, screen, corrected, SortMode, ShowHidden, Autoplay,
            LastClickItem>>
      BY ZenonT(40), <2>5 DEF X!NoClick, X!clicks, X!settings
    <3>2. ListInv' /\ Redrawn' /\ SettingsOK' /\ PlayerOK(playing')
      BY ZenonT(40), <1>1, <3>1 DEF ListInv, Redrawn, SettingsOK
    <3> QED BY ZenonT(40), <1>2, <2>1, <3>2
  <2> QED BY ZenonT(40), <2>2, <2>3, <2>4, <2>5 DEF X!HandleClick
<1>3. xpc' # "key"
  BY <1>2
<1> QED BY ZenonT(40), <1>2, <1>3 DEF ExplorerInv, Fresh

LEMMA RoundExplorer ==
  ExplorerInv /\ (X!PlayerPoll \/ X!TakeFinished \/ X!Present) => ExplorerInv'
<1> SUFFICES ASSUME ExplorerInv, X!PlayerPoll \/ X!TakeFinished \/ X!Present PROVE ExplorerInv'
  OBVIOUS
<1>1. ListInv /\ SettingsOK /\ PlayerOK(playing)
  BY ZenonT(40) DEF ExplorerInv
<1>2. UNCHANGED <<SortMode, ShowHidden, Autoplay>>
  BY ZenonT(40) DEF X!PlayerPoll, X!TakeFinished, X!Present, X!settings
<1>3. LastClickItem' \in {LastClickItem, -1}
  BY ZenonT(40) DEF X!PlayerPoll, X!TakeFinished, X!Present, X!clicks
<1>4. SettingsOK'
  <2>1. LastClickItem' \in Nat \cup {-1}
    BY <1>1, <1>3 DEF SettingsOK
  <2> QED BY ZenonT(40), <1>1, <1>2, <2>1 DEF SettingsOK
<1>5. CASE X!PlayerPoll
  <2>1. xpc = "poll" /\ xpc' = "take"
    BY ZenonT(40), <1>5 DEF X!PlayerPoll
  <2>2. xpc # "shell" /\ xpc # "take" /\ xpc' # "key"
    BY <2>1
  <2>3. ListInv' /\ (Ended' \/ Redrawn')
    BY ZenonT(40), <1>1, <1>5, <2>2, PollKeeps DEF ExplorerInv
  <2>4. PlayerOK(playing')
    <3>1. CASE UNCHANGED playing
      BY ZenonT(40), <1>1, <3>1
    <3>2. ASSUME playing.state = "playing", NEW s \in {"ended", "broken"}, playing' = [playing
            EXCEPT !.state = s]
          PROVE  PlayerOK(playing')
      BY <1>1, <3>2 DEF PlayerOK
    <3> QED BY ZenonT(40), <1>5, <3>1, <3>2 DEF X!PlayerPoll
  <2> QED BY ZenonT(40), <1>4, <2>1, <2>2, <2>3, <2>4 DEF ExplorerInv, Fresh
<1>6. CASE X!TakeFinished
  <2>1. xpc = "take" /\ xpc' = "present"
    BY ZenonT(40), <1>6 DEF X!TakeFinished
  <2>2. xpc # "shell" /\ xpc' # "key"
    BY <2>1
  <2>3. ListInv' /\ Redrawn'
    BY ZenonT(40), <1>1, <1>6, <2>2, TakeKeeps DEF ExplorerInv
  <2>4. PlayerOK(playing')
    BY ZenonT(40), <1>1, <1>6, AdvanceOK, IdleOK DEF X!TakeFinished
  <2> QED BY ZenonT(40), <1>4, <2>1, <2>2, <2>3, <2>4 DEF ExplorerInv, Fresh
<1>7. CASE X!Present
  <2>1. xpc = "present" /\ xpc' = "key" /\ playing' = playing
    BY ZenonT(40), <1>7 DEF X!Present
  <2>2. xpc # "shell" /\ xpc # "take"
    BY <2>1
  <2>3. /\ ListInv' /\ Redrawn'
        /\ ~dirty'.list /\ ~dirty'.now /\ dirty'.rows = X!NoRows
    BY ZenonT(40), <1>1, <1>7, <2>2, PresentKeeps DEF ExplorerInv
  <2> QED BY ZenonT(40), <1>1, <1>4, <2>1, <2>3 DEF ExplorerInv, Fresh
<1> QED BY ZenonT(40), <1>5, <1>6, <1>7

LEMMA StepExplorer == ExplorerInv /\ (X!Next \/ UNCHANGED explorer) => ExplorerInv'
<1>1. ExplorerInv /\ UNCHANGED explorer => ExplorerInv'
  BY ZenonT(40) DEF explorer, ExplorerInv, ListInv, Fresh, SettingsOK, Redrawn, Ended
<1> QED BY ZenonT(40), <1>1, RunExplorer, KeyExplorer, ClickExplorer, RoundExplorer DEF X!Next

(* What the invariant says. *)
LEMMA ExplorerCurrent == ExplorerInv => X!ScreenCurrent
<1> SUFFICES ASSUME ExplorerInv, xpc = "key", dirty # X!All, ~dirty.lost, ~dirty.stale
             PROVE  screen = [rows |-> X!ListRows, now |-> X!NowLine]
  BY ZenonT(40) DEF X!ScreenCurrent
<1>1. ListInv /\ Drawn(dirty, view, playing, Autoplay, screen)
  <2>1. xpc # "shell" /\ xpc # "take"
    OBVIOUS
  <2> QED BY ZenonT(40), <2>1 DEF ExplorerInv, Redrawn
<1>2. ~dirty.list /\ ~dirty.now /\ dirty.rows = X!NoRows
  BY ZenonT(40) DEF ExplorerInv, Fresh
<1>3. RowsDrawn(dirty, view, playing, screen) /\ screen.now = X!NowLine
  BY ZenonT(40), <1>1, <1>2, RowIs DEF Drawn
<1>4. ASSUME NEW r \in 0..(Visible - 1) PROVE screen.rows[r] = X!Row(view.Scroll + r)
  <2>1. view.Scroll + r # -1
    <3>1. view.Scroll \in Nat /\ r \in Nat
      BY <1>1, ListSizes DEF ListInv, OnScreen
    <3> QED BY <3>1
  <2>2. X!NoRows.a = -1 /\ X!NoRows.b = -1
    BY DEF X!NoRows
  <2>3. ~Marked(dirty, view, r)
    BY ZenonT(40), <1>2, <2>1, <2>2 DEF Marked
  <2> QED BY ZenonT(40), <1>2, <1>3, <2>3, RowIs DEF RowsDrawn
<1>5. screen.rows = X!ListRows
  BY ZenonT(40), <1>1, <1>4 DEF ListInv, Framed, X!ListRows
<1> QED BY ZenonT(40), <1>1, <1>3, <1>5 DEF ListInv, Framed

LEMMA ExplorerTyped == ExplorerInv => X!TypeOK /\ X!SelectionOnScreen
<1> SUFFICES ASSUME ExplorerInv PROVE X!TypeOK /\ X!SelectionOnScreen
  OBVIOUS
<1>1. /\ ListInv /\ SettingsOK /\ PlayerOK(playing)
      /\ xpc \in {"shell", "key", "mouse", "poll", "take", "present"}
  BY ZenonT(40) DEF ExplorerInv
<1>2. <<view.Volume, view.Dir>> \in DOMAIN Contents /\ OnScreen(view) /\ corrected = FALSE
  BY ZenonT(40), <1>1 DEF ListInv, ViewOK
<1>3. X!ToSet(view.Order) \subseteq Contents[<<view.Volume, view.Dir>>]
  <2>1. view.Order \in Seq(X!Entry)
          /\ \A k \in 1..Len(view.Order) : view.Order[k] \in Contents[<<view.Volume, view.Dir>>]
    BY ZenonT(40), <1>1 DEF ListInv, ViewOK
  <2>2. X!ToSet(view.Order) = {view.Order[k] : k \in 1..Len(view.Order)}
    BY <2>1 DEF X!ToSet
  <2> QED BY <2>1, <2>2
<1>4. /\ dirty.list \in BOOLEAN /\ dirty.now \in BOOLEAN /\ dirty.lost \in BOOLEAN
          /\ dirty.stale \in BOOLEAN
      /\ dirty.rows.a \in Nat \cup {-1} /\ dirty.rows.b \in Nat \cup {-1}
  BY <1>1 DEF ListInv, Marks
<1>5. /\ playing.state \in {"idle", "playing", "ended", "broken"}
      /\ playing.track \in X!Tracks /\ (playing.state = "idle" <=> playing.track = X!NoTrack)
  BY <1>1 DEF PlayerOK
<1>6. X!TypeOK
  <2>1. view.Selected \in Nat /\ view.Scroll \in Nat /\ corrected \in BOOLEAN
    BY ZenonT(40), <1>2 DEF OnScreen, InRange
  <2> QED BY ZenonT(40), <1>1, <1>2, <1>3, <1>4, <1>5, <2>1 DEF SettingsOK, X!TypeOK
<1>7. X!SelectionOnScreen
  BY ZenonT(40), <1>2 DEF OnScreen, InRange, X!SelectionOnScreen
<1> QED BY <1>6, <1>7

------------------------------------------------------------------------------
(* The selection stays on its entry.  The name an item has, or NoFocus. *)
NameOf(v, index) == LET E == X!ItemEntry(v, index) IN IF E = X!NoItem THEN X!NoFocus ELSE E.name

LEMMA SelectedIs == X!SelectedName = NameOf(view, view.Selected) /\ X!SelectedName' = NameOf(view',
  view'.Selected)
<1>1. X!SelectedName = NameOf(view, view.Selected)
  BY ZenonT(40) DEF X!SelectedName, NameOf
<1>2. X!SelectedName' = NameOf(view', view'.Selected)
  BY ZenonT(40) DEF X!SelectedName, NameOf
<1> QED BY <1>1, <1>2

Listed(v, name) == \E k \in 1..Len(v.Order) : v.Order[k].name = name

LEMMA OrderIs ==
  ASSUME NEW v, ViewOK(v)
  PROVE  /\ DOMAIN v.Order = 1..Len(v.Order) /\ Len(v.Order) \in Nat
         /\ \A k \in 1..Len(v.Order) : v.Order[k] \in X!Entry /\ v.Order[k] # X!NoItem
         /\ X!ToSet(v.Order) = {v.Order[k] : k \in 1..Len(v.Order)}
<1>1. v.Order \in Seq(X!Entry)
  BY DEF ViewOK
<1>2. DOMAIN v.Order = 1..Len(v.Order) /\ Len(v.Order) \in Nat
  BY <1>1
<1>3. \A k \in 1..Len(v.Order) : v.Order[k] \in X!Entry
  BY <1>1
<1>4. \A e \in X!Entry : e # X!NoItem
  BY DEF X!Entry, X!NoItem
<1>5. X!ToSet(v.Order) = {v.Order[k] : k \in 1..Len(v.Order)}
  BY ZenonT(40), <1>2 DEF X!ToSet
<1> QED BY ZenonT(40), <1>2, <1>3, <1>4, <1>5

(* A row that is an entry: its place in the order. *)
LEMMA ItemAt ==
  ASSUME NEW v, ViewOK(v), NEW k \in 1..Len(v.Order)
  PROVE  X!ItemEntry(v, k - 1 + X!Shift(v)) = v.Order[k]
<1>1. (k - 1 + X!Shift(v)) - X!Shift(v) + 1 = k
  BY CountIs
<1> QED BY ZenonT(40), <1>1, OrderIs DEF X!ItemEntry

(* Each name is found where it is, and only there. *)
LEMMA FindHas ==
  ASSUME NEW v, ViewOK(v), NEW k \in 1..Len(v.Order)
  PROVE  X!FindItemByName(v, v.Order[k].name) = k - 1 + X!Shift(v)
<1> DEFINE found == {j \in DOMAIN v.Order : v.Order[j].name = v.Order[k].name}
<1>1. X!FindItemByName(v, v.Order[k].name) =
        IF found = {} THEN -1 ELSE (CHOOSE j \in found : TRUE) - 1 + X!Shift(v)
  BY DEF X!FindItemByName
<1>2. found = {k}
  BY ZenonT(40), OrderIs DEF ViewOK
<1> HIDE DEF found
<1>3. (CHOOSE j \in found : TRUE) = k
  BY ZenonT(40), <1>2
<1>4. found # {}
  BY <1>2
<1> QED BY ZenonT(40), <1>1, <1>3, <1>4

LEMMA FoundIsNamed ==
  ASSUME NEW v, ViewOK(v), NEW name, Listed(v, name)
  PROVE  /\ X!FindItemByName(v, name) >= 0 /\ NameOf(v, X!FindItemByName(v, name)) = name
<1>1. PICK k \in 1..Len(v.Order) : v.Order[k].name = name
  BY DEF Listed
<1>2. PICK p : p = X!FindItemByName(v, name)
  BY ZenonT(40)
<1>3. p = k - 1 + X!Shift(v)
  BY ZenonT(40), <1>1, <1>2, FindHas
<1>4. p >= 0
  BY <1>3, CountIs
<1>5. NameOf(v, p) = name
  BY ZenonT(40), <1>1, <1>3, ItemAt, OrderIs DEF NameOf
<1> QED BY ZenonT(40), <1>2, <1>4, <1>5

(* Names are numbers, and NoFocus is none. *)
LEMMA ListedNumber ==
  ASSUME NEW v, ViewOK(v), NEW name, Listed(v, name)
  PROVE  name \in Nat /\ name # X!NoFocus
<1>1. PICK k \in 1..Len(v.Order) : v.Order[k].name = name
  BY DEF Listed
<1>2. v.Order[k] \in X!Entry
  BY OrderIs
<1>3. name \in Nat
  BY <1>1, <1>2 DEF X!Entry
<1> QED BY <1>3 DEF X!NoFocus

(* A list that is read again: the selection goes where Focused says. *)
LEMMA LoadFocuses ==
  ASSUME NEW vol, NEW path, <<vol, path>> \in DOMAIN Contents, corrected = FALSE,
         NEW hidden, NEW focus, X!LoadDir(vol, path, hidden, focus), Listed(view', focus)
  PROVE  X!SelectedName' = focus
<1>1. ViewOK(view') /\ view'.Selected = X!Focused(view', focus)
  BY ZenonT(40), LoadDirIs DEF Shows
<1>2. PICK v : v = view'
  BY ZenonT(40)
<1>3. focus # X!NoFocus
  BY ZenonT(40), <1>1, <1>2, ListedNumber
<1>4. X!FindItemByName(v, focus) >= 0 /\ NameOf(v, X!FindItemByName(v, focus)) = focus
  BY ZenonT(40), <1>1, <1>2, FoundIsNamed
<1>5. X!Focused(v, focus) = X!FindItemByName(v, focus)
  BY ZenonT(40), <1>3, <1>4 DEF X!Focused
<1> QED BY ZenonT(40), <1>1, <1>2, <1>4, <1>5, SelectedIs

LEMMA SortFocuses ==
  ASSUME ListInv, X!CycleSort, X!SelectedName # X!NoFocus, Listed(view', X!SelectedName)
  PROVE  X!SelectedName' = X!SelectedName
<1>1. PICK v : v = X!Resorted((SortMode + 1) % 3)
  BY ZenonT(40)
<1>2. /\ ViewOK(v) /\ InRange(v) /\ corrected = FALSE
      /\ X!SelectedName # X!NoFocus /\ X!FindItemByName(v, X!SelectedName) >= 0
           => v.Selected = X!FindItemByName(v, X!SelectedName)
  BY ZenonT(40), <1>1, ResortedIs DEF ListInv
<1>3. X!Clamped(v)
  BY ZenonT(40), <1>1 DEF X!CycleSort
<1>4. NewView(v)
  BY ZenonT(40), <1>2, <1>3, ClampedIs
<1>5. PICK w, name : w = view' /\ name = X!SelectedName
  BY ZenonT(40)
<1>6. ViewOK(w) /\ w.Order = v.Order /\ w.Dir = v.Dir /\ w.Selected = v.Selected
  BY ZenonT(40), <1>4, <1>5 DEF NewView
<1>7. X!FindItemByName(w, name) >= 0 /\ NameOf(w, X!FindItemByName(w, name)) = name
  BY ZenonT(40), <1>5, <1>6, FoundIsNamed
<1>8. X!FindItemByName(w, name) = X!FindItemByName(v, name)
  BY ZenonT(40), <1>6, FindSame
<1> QED BY ZenonT(40), <1>2, <1>5, <1>6, <1>7, <1>8, SelectedIs

(* Only a key is handled where a key is waited for. *)
LEMMA AtKey ==
  ASSUME X!Next \/ UNCHANGED explorer, xpc = "key"
  PROVE  X!HandleKey \/ UNCHANGED <<view, SortMode, ShowHidden>>
<1>1. xpc # "shell" /\ xpc # "mouse" /\ xpc # "poll" /\ xpc # "take" /\ xpc # "present"
  OBVIOUS
<1> QED BY ZenonT(40), <1>1 DEF X!Next, X!ExplorerRun, X!NoKey, X!Quit, X!HandleClick, X!NoClick,
      X!PlayerPoll, X!TakeFinished, X!Present, X!settings, explorer

LEMMA FollowsStep ==
  ASSUME ExplorerInv, X!Next \/ UNCHANGED explorer, xpc = "key",
         SortMode' # SortMode \/ ShowHidden' # ShowHidden,
         X!SelectedName # X!NoFocus, Listed(view', X!SelectedName)
  PROVE  X!SelectedName' = X!SelectedName
<1>1. X!HandleKey
  BY ZenonT(40), AtKey
<1>2. X!ListKey
  BY ZenonT(40), <1>1 DEF X!HandleKey, X!SelectKey, X!OpenKey, X!PlayerControl, X!settings
<1>3. CASE X!CycleSort
  BY ZenonT(40), <1>3, SortFocuses DEF ExplorerInv
<1>4. ASSUME NEW hidden, X!Refresh(hidden) PROVE X!SelectedName' = X!SelectedName
  <2>1. <<view.Volume, view.Dir>> \in DOMAIN Contents /\ corrected = FALSE
    BY ZenonT(40) DEF ExplorerInv, ListInv, ViewOK
  <2>2. X!LoadDir(view.Volume, view.Dir, hidden, X!SelectedName)
    BY ZenonT(40), <1>4 DEF X!Refresh
  <2>3. PICK name : name = X!SelectedName
    BY ZenonT(40)
  <2> QED BY ZenonT(40), <2>1, <2>2, <2>3, LoadFocuses
<1> QED BY ZenonT(40), <1>2, <1>3, <1>4 DEF X!ListKey, X!settings

(* Where a key leads. *)
LEMMA SelectStays ==
  ASSUME ListInv, X!SelectKey
  PROVE  view'.Dir = view.Dir
<1>1. ASSUME NEW index \in Int, X!Select(index) PROVE view'.Dir = view.Dir
  BY ZenonT(40), <1>1, MoveIs DEF X!Select, ListInv, Moved
<1>2. ASSUME NEW index \in {view.Selected - 1, view.Selected + 1, view.Selected - Visible,
                            view.Selected + Visible, 0, X!ItemCount(view) - 1},
             X!Select(index)
      PROVE  view'.Dir = view.Dir
  <2>1. view.Selected \in Int /\ Visible \in Int /\ X!ItemCount(view) \in Nat
    <3>1. ViewOK(view) /\ view.Selected \in Nat
      BY ZenonT(40) DEF ListInv, OnScreen, InRange
    <3>2. X!ItemCount(view) \in Nat
      BY <3>1, CountIs
    <3> QED BY <3>1, <3>2, ListSizes
  <2>2. index \in Int
    BY <1>2, <2>1
  <2> QED BY ZenonT(40), <1>1, <1>2, <2>2
<1>3. ASSUME NEW letter \in X!Letters, X!JumpToLetter(letter) PROVE view'.Dir = view.Dir
  <2>1. CASE X!StepsTo(letter) = {}
    BY ZenonT(40), <1>3, <2>1 DEF X!JumpToLetter
  <2>2. CASE X!StepsTo(letter) # {}
    <3>1. PICK index : index = (view.Selected + X!Min(X!StepsTo(letter))) % X!ItemCount(view)
      BY ZenonT(40)
    <3>2. index \in Int
      BY ZenonT(40), <2>2, <3>1, JumpIs DEF ListInv
    <3> QED BY ZenonT(40), <1>1, <1>3, <2>2, <3>1, <3>2 DEF X!JumpToLetter
  <2> QED BY <2>1, <2>2
<1> QED BY ZenonT(40), <1>2, <1>3 DEF X!SelectKey

LEMMA ActivateGoes ==
  ASSUME ListInv, NEW index \in Int, X!Activate(index)
  PROVE  X!GoUp \/ view'.Dir = view.Dir \/ \E name : view'.Dir = Append(view.Dir, name)
<1>1. PICK E : E = X!ItemEntry(view, index)
  BY ZenonT(40)
<1>2. E \in Contents[<<view.Volume, view.Dir>>] \cup {X!NoItem}
  BY ZenonT(40), <1>1, ItemIs DEF ListInv
<1>3. CASE X!GoUp
  BY <1>3
<1>4. CASE E.kind = "dir" /\ X!OpenDir(E)
  <2>1. E \in Contents[<<view.Volume, view.Dir>>]
    <3>1. X!NoItem.kind = "none"
      BY DEF X!NoItem
    <3> QED BY <1>2, <1>4, <3>1
  <2> QED BY ZenonT(40), <1>4, <2>1, OpenDirShows DEF Shows
<1>5. CASE UNCHANGED view
  BY ZenonT(40), <1>5
<1> QED BY ZenonT(40), <1>1, <1>3, <1>4, <1>5 DEF X!Activate

LEMMA SwitchGoes ==
  ASSUME ListInv, Volumes > 1, X!SwitchVolume((view.Volume % Volumes) + 1)
  PROVE  view'.Volume # view.Volume
<1>1. view.Volume \in 1..Volumes /\ corrected = FALSE
  BY DEF ListInv, ViewOK
<1>2. PICK vol \in Nat : vol = (view.Volume % Volumes) + 1
  BY <1>1, ListSizes
<1>3. vol \in 1..Volumes /\ vol # view.Volume
  BY <1>1, <1>2, ListSizes
<1>4. <<vol, << >>>> \in DOMAIN Contents
  BY ZenonT(40), <1>3, ListSizes
<1>5. X!LoadDir(vol, << >>, ShowHidden, X!NoFocus)
  BY ZenonT(40), <1>2 DEF X!SwitchVolume
<1>6. Shows(vol, << >>)
  BY ZenonT(40), <1>1, <1>4, <1>5, LoadDirIs
<1> QED BY ZenonT(40), <1>3, <1>6 DEF Shows

LEMMA KeyGoes ==
  ASSUME ListInv, X!HandleKey
  PROVE  \/ X!GoUp \/ view'.Dir = view.Dir \/ view'.Volume # view.Volume
         \/ \E name : view'.Dir = Append(view.Dir, name)
<1>1. CASE X!SelectKey
  BY ZenonT(40), <1>1, SelectStays
<1>2. CASE X!OpenKey
  <2>1. view.Selected \in Int
    BY DEF ListInv, OnScreen, InRange
  <2>2. CASE X!Activate(view.Selected)
    BY ZenonT(40), <2>1, <2>2, ActivateGoes
  <2> QED BY ZenonT(40), <1>2, <2>2, SwitchGoes DEF X!OpenKey
<1>3. CASE X!ListKey
  <2>1. CASE X!CycleSort
    <3>1. PICK v : v = X!Resorted((SortMode + 1) % 3)
      BY ZenonT(40)
    <3>2. ViewOK(v) /\ InRange(v) /\ corrected = FALSE /\ v.Dir = view.Dir
      BY ZenonT(40), <3>1, ResortedIs DEF ListInv
    <3>3. NewView(v)
      BY ZenonT(40), <2>1, <3>1, <3>2, ClampedIs DEF X!CycleSort
    <3> QED BY ZenonT(40), <3>2, <3>3 DEF NewView
  <2>2. ASSUME NEW hidden, X!Refresh(hidden) PROVE view'.Dir = view.Dir
    <3>1. <<view.Volume, view.Dir>> \in DOMAIN Contents /\ corrected = FALSE
      BY ZenonT(40) DEF ListInv, ViewOK
    <3> QED BY ZenonT(40), <2>2, <3>1, LoadDirIs DEF X!Refresh, Shows
  <2> QED BY ZenonT(40), <1>3, <2>1, <2>2 DEF X!ListKey
<1>4. CASE X!PlayerControl
  BY ZenonT(40), <1>4 DEF X!PlayerControl
<1> QED BY ZenonT(40), <1>1, <1>2, <1>3, <1>4 DEF X!HandleKey

LEMMA UpIsShorter ==
  ASSUME NEW path \in Seq(Nat), path # << >>
  PROVE  X!Front(path) # path /\ \A name : X!Front(path) # Append(path, name)
<1>1. PICK n \in Nat : n = Len(path) - 1 /\ n <= Len(path) /\ Len(path) = n + 1
  <2>1. Len(path) \in Nat /\ Len(path) # 0
    OBVIOUS
  <2>2. Len(path) - 1 \in Nat /\ Len(path) - 1 <= Len(path) /\ Len(path) = (Len(path) - 1) + 1
    BY <2>1
  <2> QED BY ZenonT(40), <2>2
<1>2. X!Front(path) = SubSeq(path, 1, n)
  BY ZenonT(40), <1>1 DEF X!Front
<1>3. Len(X!Front(path)) = n
  BY <1>1, <1>2, SubSeqProperties
<1>4. ASSUME NEW name PROVE X!Front(path) # Append(path, name)
  <2>1. Len(Append(path, name)) = Len(path) + 1
    OBVIOUS
  <2> QED BY <1>1, <1>3, <2>1
<1>5. X!Front(path) # path
  BY <1>1, <1>3
<1> QED BY <1>4, <1>5

LEMMA GoUpStep ==
  ASSUME ExplorerInv, X!Next \/ UNCHANGED explorer, xpc = "key",
         view.Dir # << >>, view'.Volume = view.Volume, view'.Dir = X!Front(view.Dir),
         Listed(view', X!Last(view.Dir))
  PROVE  X!SelectedName' = X!Last(view.Dir)
<1>1. /\ ListInv /\ view.Dir \in Seq(Nat) /\ corrected = FALSE
      /\ <<view.Volume, view.Dir>> \in DOMAIN Contents
  BY ZenonT(40) DEF ExplorerInv, ListInv, ViewOK
<1>2. view'.Dir # view.Dir /\ \A name : view'.Dir # Append(view.Dir, name)
  BY ZenonT(40), <1>1, UpIsShorter
<1>3. X!GoUp
  BY ZenonT(40), <1>1, <1>2, AtKey, KeyGoes
<1>4. X!LoadDir(view.Volume, X!Front(view.Dir), ShowHidden, X!Last(view.Dir))
  BY ZenonT(40), <1>3 DEF X!GoUp
<1>5. <<view.Volume, X!Front(view.Dir)>> \in DOMAIN Contents
  BY ZenonT(40), <1>1, FolderFacts
<1> QED BY ZenonT(40), <1>1, <1>4, <1>5, LoadFocuses

(* The track that follows. *)
LEMMA AdvanceFollows ==
  ASSUME ListInv, NEW m, X!AdvanceTrack(m), playing' # X!Idle
  PROVE  /\ playing'.track.Volume = playing.track.Volume /\ playing'.track.Dir = playing.track.Dir
         /\ 0 <= X!FindItemByName(view, playing.track.name)
         /\ X!FindItemByName(view, playing.track.name) < X!FindItemByName(view, playing'.track.name)
         /\ \A k \in (X!FindItemByName(view, playing.track.name) + 1)
                      ..(X!FindItemByName(view, playing'.track.name) - 1) :
              X!ItemEntry(view, k).kind # "wav"
         /\ view'.Selected = X!FindItemByName(view, playing'.track.name)
<1>1. PICK place : place = X!PlayingHere
  BY ZenonT(40)
<1>2. PICK S : S = X!WavsAfter(place)
  BY ZenonT(40)
<1>3. ~(place < 0) /\ S # {}
  BY ZenonT(40), <1>1, <1>2 DEF X!AdvanceTrack
<1>4. PICK at : at = X!FindItemByName(view, playing.track.name)
  BY ZenonT(40)
<1>5. /\ at \in Int /\ place = at
      /\ playing.track.Volume = view.Volume /\ playing.track.Dir = view.Dir
  <2>1. at \in Int
    BY ZenonT(40), <1>4, FindIs DEF ListInv
  <2>2. CASE playing.track.Volume = view.Volume /\ playing.track.Dir = view.Dir
    BY ZenonT(40), <1>1, <1>4, <2>1, <2>2 DEF X!PlayingHere
  <2>3. CASE ~(playing.track.Volume = view.Volume /\ playing.track.Dir = view.Dir)
    <3>1. place = -1
      BY ZenonT(40), <1>1, <2>3 DEF X!PlayingHere
    <3> QED BY <1>3, <3>1
  <2> QED BY ZenonT(40), <2>2, <2>3
<1>6. at \in Nat
  BY <1>3, <1>5
<1>7. PICK count \in Nat : count = X!ItemCount(view)
  BY CountIs DEF ListInv
<1>8. S = {k \in (at + 1)..(count - 1) : X!ItemEntry(view, k).kind = "wav"}
  BY ZenonT(40), <1>2, <1>5, <1>7 DEF X!WavsAfter
<1>9. S \in SUBSET Nat
  <2>1. (at + 1)..(count - 1) \subseteq Nat
    BY <1>6, <1>7
  <2> QED BY ZenonT(40), <1>8, <2>1
<1>10. PICK next \in Nat : next = X!Min(S) /\ next \in S /\ \A y \in S : next <= y
  BY ZenonT(40), <1>3, <1>9, LeastOf
<1>11. /\ next \in (at + 1)..(count - 1) /\ X!ItemEntry(view, next).kind = "wav"
       /\ at < next /\ count # 0 /\ next \in Int
  <2>1. next \in (at + 1)..(count - 1) /\ X!ItemEntry(view, next).kind = "wav"
    BY ZenonT(40), <1>8, <1>10
  <2> QED BY <1>6, <1>7, <2>1
<1>12. ASSUME NEW k \in (at + 1)..(next - 1) PROVE X!ItemEntry(view, k).kind # "wav"
  <2>1. k \in (at + 1)..(count - 1) /\ ~(next <= k)
    BY <1>6, <1>7, <1>11, <1>12
  <2> QED BY ZenonT(40), <1>8, <1>10, <2>1
<1>13. X!Move(next) /\ X!StartPlay(X!ItemEntry(view, next), X!MarkSelect(view, view', m), X!Idle)
  BY ZenonT(40), <1>1, <1>2, <1>3, <1>10 DEF X!AdvanceTrack
<1>14. view'.Selected = next
  <2>1. view'.Selected = X!Near(next)
    BY ZenonT(40), <1>7, <1>11, <1>13, MoveIs DEF ListInv
  <2>2. X!Near(next) = IF next < 0 THEN 0 ELSE IF next >= count THEN count - 1 ELSE next
    BY ZenonT(40), <1>7 DEF X!Near
  <2>3. ~(next < 0) /\ ~(next >= count)
    BY <1>7, <1>11
  <2> QED BY ZenonT(40), <2>1, <2>2, <2>3
<1>15. PICK E : E = X!ItemEntry(view, next)
  BY ZenonT(40)
<1>16. PICK s : playing' = [state |-> s, track |-> X!Track(view, E)]
  BY ZenonT(40), <1>13, <1>15 DEF X!StartPlay
<1>17. /\ playing'.track.Volume = view.Volume /\ playing'.track.Dir = view.Dir
       /\ playing'.track.name = E.name
  BY <1>16 DEF X!Track
<1>18. X!FindItemByName(view, E.name) = next
  <2>1. PICK j : j = next - X!Shift(view) + 1
    BY ZenonT(40)
  <2>2. E # X!NoItem
    <3>1. X!NoItem.kind = "none"
      BY DEF X!NoItem
    <3>2. E.kind = "wav"
      BY ZenonT(40), <1>11, <1>15
    <3> QED BY <3>1, <3>2
  <2>3. j \in DOMAIN view.Order /\ E = view.Order[j]
    BY ZenonT(40), <1>15, <2>1, <2>2 DEF X!ItemEntry
  <2>4. j \in 1..Len(view.Order)
    BY ZenonT(40), <2>3, OrderIs DEF ListInv
  <2>5. X!FindItemByName(view, E.name) = j - 1 + X!Shift(view)
    BY ZenonT(40), <2>3, <2>4, FindHas DEF ListInv
  <2>6. X!Shift(view) \in {0, 1}
    BY ZenonT(40), CountIs DEF ListInv
  <2> QED BY <2>1, <2>5, <2>6
<1>19. 0 <= at
  BY <1>6
<1> QED BY ZenonT(40), <1>4, <1>5, <1>11, <1>12, <1>14, <1>17, <1>18, <1>19

LEMMA AutoplayStep ==
  ASSUME ExplorerInv, X!Next \/ UNCHANGED explorer, xpc = "take", playing' # playing, playing' # X!Idle
  PROVE  playing.state = "ended" /\ \E m : X!AdvanceTrack(m)
<1>1. xpc # "shell" /\ xpc # "mouse" /\ xpc # "poll" /\ xpc # "key" /\ xpc # "present"
  OBVIOUS
<1>2. X!TakeFinished
  BY ZenonT(40), <1>1 DEF X!Next, X!ExplorerRun, X!HandleKey, X!NoKey, X!Quit, X!HandleClick, X!NoClick,
      X!PlayerPoll, X!Present, explorer
<1> QED BY ZenonT(40), <1>2 DEF X!TakeFinished

------------------------------------------------------------------------------
(* The viewer: its window, its bytes and what it has drawn. *)
LEMMA ViewSizes ==
  /\ Rows \in Nat /\ Rows >= 3 /\ VIEW_MAX_BYTES \in Nat \ {0} /\ VIEW_MAX_LINES \in Nat \ {0}
  /\ SEARCH_MAX \in Nat \ {0, 1} /\ CHUNK \in Nat \ {0} /\ HEX \in Nat \ {0}
  /\ Typed \subseteq DOMAIN Lower /\ \A bytes \in Texts : bytes \in Seq(DOMAIN Lower)
BY TextConstants DEF V!ViewerConstants

LEMMA SmallerIs ==
  ASSUME NEW a \in Nat, NEW b \in Nat
  PROVE  V!Min({a, b}) = IF a <= b THEN a ELSE b
<1>1. \A x \in {a, b} : (\A y \in {a, b} : x <= y) => x = IF a <= b THEN a ELSE b
  OBVIOUS
<1>2. \E x \in {a, b} : \A y \in {a, b} : x <= y
  <2>1. CASE a <= b
    BY <2>1
  <2>2. CASE ~(a <= b)
    BY <2>2
  <2> QED BY <2>1, <2>2
<1>3. PICK x : x = V!Min({a, b})
  BY ZenonT(40)
<1>4. x \in {a, b} /\ \A y \in {a, b} : x <= y
  BY ZenonT(40), <1>2, <1>3 DEF V!Min
<1> QED BY ZenonT(40), <1>1, <1>3, <1>4

(* What has been read of the file, and how many rows it has. *)
Held ==
  /\ vfile \in Texts /\ Buf \in Seq(DOMAIN Lower) /\ Len(Buf) <= V!Want
  /\ Buf = SubSeq(vfile, 1, Len(Buf))

Counted == \E n \in Nat : DOMAIN LineNum = 0..(n - 1)

Asked ==
  /\ SearchText \in Seq(Typed) /\ Len(SearchText) < SEARCH_MAX
  /\ HexMode \in BOOLEAN /\ Searching \in BOOLEAN /\ HaveMatch \in BOOLEAN /\ edited \in BOOLEAN
  /\ Flags \subseteq V!VD_ALL

ViewerInv ==
  /\ Held /\ Counted /\ Asked
  /\ V!Open => Top = V!ClampTop(HexMode, Top)
  /\ V!ViewDrawn

LEMMA WantIs ==
  ASSUME vfile \in Texts
  PROVE  V!Want \in Nat /\ V!Want <= Len(vfile) /\ Len(vfile) \in Nat
<1>1. PICK n \in Nat : n = Len(vfile)
  <2>1. vfile \in Seq(DOMAIN Lower)
    BY ZenonT(40), ViewSizes
  <2>2. Len(vfile) \in Nat
    BY <2>1
  <2> QED BY ZenonT(40), <2>2
<1>2. V!Want = IF n <= VIEW_MAX_BYTES THEN n ELSE VIEW_MAX_BYTES
  BY ZenonT(40), <1>1, ViewSizes, SmallerIs DEF V!Want
<1> QED BY <1>1, <1>2, ViewSizes

(* A window that was clamped stays where it is. *)
Clamp(total, top) ==
  LET most == IF total > Rows THEN total - Rows ELSE 0
      least == IF top > most THEN most ELSE top
  IN  IF least < 0 THEN 0 ELSE least

LEMMA ClampOnce ==
  ASSUME NEW total \in Int, NEW top
  PROVE  Clamp(total, Clamp(total, top)) = Clamp(total, top)
<1>1. PICK most \in Nat : most = IF total > Rows THEN total - Rows ELSE 0
  <2>1. Rows \in Nat
    BY ZenonT(40), ViewSizes
  <2>2. PICK m : m = IF total > Rows THEN total - Rows ELSE 0
    BY ZenonT(40)
  <2>3. m \in Nat
    BY <2>1, <2>2
  <2> QED BY ZenonT(40), <2>2, <2>3
<1>2. \A t : Clamp(total, t) = LET least == IF t > most THEN most ELSE t IN IF least < 0 THEN 0 ELSE least
  BY ZenonT(40), <1>1 DEF Clamp
<1>3. ~(most < 0) /\ ~(0 > most) /\ ~(most > most) /\ ~(0 < 0)
  BY <1>1
<1>4. Clamp(total, most) = most /\ Clamp(total, 0) = 0
  BY ZenonT(40), <1>2, <1>3
<1>5. CASE top > most
  BY ZenonT(40), <1>2, <1>3, <1>4, <1>5
<1>6. CASE ~(top > most) /\ top < 0
  BY ZenonT(40), <1>2, <1>4, <1>6
<1>7. CASE ~(top > most) /\ ~(top < 0)
  BY ZenonT(40), <1>2, <1>7
<1> QED BY <1>5, <1>6, <1>7

LEMMA TopZero ==
  ASSUME NEW total \in Int
  PROVE  Clamp(total, 0) = 0
<1>1. PICK most \in Nat : most = IF total > Rows THEN total - Rows ELSE 0
  <2>1. Rows \in Nat
    BY ZenonT(40), ViewSizes
  <2>2. PICK m : m = IF total > Rows THEN total - Rows ELSE 0
    BY ZenonT(40)
  <2>3. m \in Nat
    BY <2>1, <2>2
  <2> QED BY ZenonT(40), <2>2, <2>3
<1>2. ~(0 > most) /\ ~(0 < 0)
  BY <1>1
<1> QED BY ZenonT(40), <1>1, <1>2 DEF Clamp

(* The rows of one view: a number, whatever is on the screen. *)
RowCount(hex, bytes, numbers) ==
  IF hex THEN ((Len(bytes) + HEX) - 1) \div HEX ELSE V!Cardinality(DOMAIN numbers)

LEMMA ClampIs ==
  /\ \A hex, top : V!ClampTop(hex, top) = Clamp(RowCount(hex, Buf, LineNum), top)
  /\ \A hex, top : V!ClampTop(hex, top)' = Clamp(RowCount(hex, Buf', LineNum'), top)
<1>1. \A hex, top : V!ClampTop(hex, top) = Clamp(RowCount(hex, Buf, LineNum), top)
  BY ZenonT(40) DEF V!ClampTop, V!TotalRows, V!LineCount, V!Len0, Clamp, RowCount
<1>2. \A hex, top : V!ClampTop(hex, top)' = Clamp(RowCount(hex, Buf', LineNum'), top)
  BY ZenonT(40) DEF V!ClampTop, V!TotalRows, V!LineCount, V!Len0, Clamp, RowCount
<1> QED BY <1>1, <1>2

LEMMA RowCountIs ==
  ASSUME NEW bytes, Len(bytes) \in Nat, NEW numbers, NEW n \in Nat, DOMAIN numbers = 0..(n - 1), NEW hex
  PROVE  RowCount(hex, bytes, numbers) \in Int
<1>1. V!Cardinality(0..(n - 1)) = Cardinality(0..(n - 1))
  BY ZenonT(40) DEF V!Cardinality, Cardinality, V!IsFiniteSet, IsFiniteSet
<1>2. Cardinality(0..(n - 1)) \in Nat
  <2>1. n - 1 \in Int
    OBVIOUS
  <2> QED BY <2>1, FS_Interval, FS_CardinalityType
<1>3. ((Len(bytes) + HEX) - 1) \div HEX \in Int
  BY ViewSizes
<1>4. V!Cardinality(DOMAIN numbers) \in Int
  <2>1. V!Cardinality(DOMAIN numbers) = Cardinality(0..(n - 1))
    BY ZenonT(40), <1>1
  <2> QED BY <1>2, <2>1
<1> QED BY ZenonT(40), <1>3, <1>4 DEF RowCount

(* Reading. *)
LEMMA LoadHeld ==
  ASSUME Held, V!LoadChunk
  PROVE  Held'
<1>1. /\ UNCHANGED vfile
      /\ \E n \in 1..V!Min({V!Want - Len(Buf), CHUNK}) : Buf' = SubSeq(vfile, 1, Len(Buf) + n)
  BY ZenonT(40) DEF V!LoadChunk, V!Len0
<1>2. PICK w \in Nat : w = V!Want /\ w <= Len(vfile) /\ Len(Buf) <= w
  BY WantIs DEF Held
<1>3. Len(Buf) \in Nat /\ vfile \in Seq(DOMAIN Lower) /\ Len(vfile) \in Nat
  BY ViewSizes DEF Held
<1>4. PICK room \in Nat : room = w - Len(Buf)
  <2>1. w - Len(Buf) \in Nat
    BY <1>2, <1>3
  <2> QED BY ZenonT(40), <2>1
<1>5. PICK most : most = V!Min({room, CHUNK})
  BY ZenonT(40)
<1>6. most \in Nat /\ most <= room
  <2>1. most = IF room <= CHUNK THEN room ELSE CHUNK
    BY ZenonT(40), <1>4, <1>5, ViewSizes, SmallerIs
  <2> QED BY <1>4, <2>1, ViewSizes
<1>7. PICK n \in 1..most : Buf' = SubSeq(vfile, 1, Len(Buf) + n)
  BY ZenonT(40), <1>1, <1>2, <1>4, <1>5
<1>8. PICK m \in Nat : m = Len(Buf) + n /\ m <= w
  BY <1>2, <1>3, <1>4, <1>6, <1>7
<1>9. Buf' \in Seq(DOMAIN Lower) /\ Len(Buf') = m
  <2>1. Buf' = SubSeq(vfile, 1, m) /\ m <= Len(vfile)
    BY <1>2, <1>3, <1>7, <1>8
  <2> QED BY <1>3, <1>8, <2>1, SubSeqProperties
<1>10. V!Want' = V!Want
  BY ZenonT(40), <1>1 DEF V!Want
<1>11. Len(Buf') <= V!Want' /\ Buf' = SubSeq(vfile', 1, Len(Buf'))
  BY <1>1, <1>2, <1>7, <1>8, <1>9, <1>10
<1> QED BY ZenonT(40), <1>1, <1>9, <1>11 DEF Held

(* BuildLines comes to an end: at VIEW_MAX_LINES, if not before. *)
LEMMA OpensCounted ==
  ASSUME V!Opens
  PROVE  Counted'
<1>1. PICK count : count = V!RowsOfText
  BY ZenonT(40)
<1>2. count \in 1..VIEW_MAX_LINES
  <2> DEFINE S == {n \in 1..VIEW_MAX_LINES : V!LastRow(n)}
  <2>1. VIEW_MAX_LINES \in S
    <3>1. VIEW_MAX_LINES \in 1..VIEW_MAX_LINES
      BY ViewSizes
    <3> QED BY ZenonT(40), <3>1 DEF V!LastRow
  <2>2. S \in SUBSET Nat /\ S # {}
    <3>1. 1..VIEW_MAX_LINES \subseteq Nat
      BY ViewSizes
    <3> QED BY ZenonT(40), <2>1, <3>1
  <2> HIDE DEF S
  <2>3. PICK x \in S : \A y \in S : x <= y
    <3> QED BY ZenonT(40), <2>2, LeastOf
  <2>4. x \in 1..VIEW_MAX_LINES /\ V!LastRow(x) /\ \A m \in 1..(x - 1) : ~V!LastRow(m)
    <3>1. x \in 1..VIEW_MAX_LINES /\ V!LastRow(x)
      BY ZenonT(40), <2>3 DEF S
    <3>2. ASSUME NEW m \in 1..(x - 1) PROVE ~V!LastRow(m)
      <4>1. m \in 1..VIEW_MAX_LINES /\ ~(x <= m)
        BY <3>1, <3>2, ViewSizes
      <4>2. m \notin S
        BY ZenonT(40), <2>3, <4>1
      <4> QED BY ZenonT(40), <4>1, <4>2 DEF S
    <3> QED BY ZenonT(40), <3>1, <3>2
  <2> QED BY ZenonT(40), <1>1, <2>4 DEF V!RowsOfText
<1>3. LineNum' = [n \in 0..(count - 1) |-> V!RowAt[n + 1].num]
  BY ZenonT(40), <1>1 DEF V!Opens, V!BuildLines
<1>4. DOMAIN LineNum' = 0..(count - 1)
  BY ZenonT(40), <1>3
<1>5. count \in Nat
  BY <1>2, ViewSizes
<1> QED BY ZenonT(40), <1>4, <1>5 DEF Counted

(* The window. *)
LEMMA TopKept ==
  ASSUME Held, Counted, NEW top, Top' = V!ClampTop(HexMode', top), UNCHANGED <<Buf, LineNum>>
  PROVE  Top' = V!ClampTop(HexMode, Top)'
<1>1. PICK total \in Int : total = RowCount(HexMode', Buf, LineNum)
  <2>1. PICK n \in Nat : DOMAIN LineNum = 0..(n - 1)
    BY ZenonT(40) DEF Counted
  <2>2. Len(Buf) \in Nat
    BY DEF Held
  <2> QED BY ZenonT(40), <2>1, <2>2, RowCountIs
<1>2. Top' = Clamp(total, top)
  BY ZenonT(40), <1>1, ClampIs
<1>3. V!ClampTop(HexMode, Top)' = Clamp(total, Top')
  BY ZenonT(40), <1>1 DEF V!ClampTop, V!TotalRows, V!LineCount, V!Len0, Clamp, RowCount
<1> QED BY ZenonT(40), <1>2, <1>3, ClampOnce

WindowOK == V!Open => Top = V!ClampTop(HexMode, Top)

(* What a search does, seen from outside. *)
LEMMA FindIsOne ==
  ASSUME NEW from, V!FindText(from)
  PROVE  (\E p : V!Found(p)) \/ V!NotFound
BY ZenonT(40) DEF V!FindText

LEMMA KeyWindow ==
  ASSUME Held, Counted, Asked, WindowOK, V!Open, V!HandleKey \/ V!HandleClick
  PROVE  WindowOK'
<1>1. UNCHANGED <<Buf, LineNum, vfile>>
  BY ZenonT(40) DEF V!HandleKey, V!HandleClick, V!text
<1>2. SUFFICES (\E top : Top' = V!ClampTop(HexMode', top)) \/ UNCHANGED <<Top, HexMode>>
  <2>1. ASSUME NEW top, Top' = V!ClampTop(HexMode', top) PROVE WindowOK'
    BY ZenonT(40), <1>1, <2>1, TopKept DEF WindowOK
  <2>2. ASSUME UNCHANGED <<Top, HexMode>> PROVE WindowOK'
    <3>1. V!ClampTop(HexMode, Top)' = V!ClampTop(HexMode, Top)
      BY ZenonT(40), <1>1, <2>2 DEF V!ClampTop, V!TotalRows, V!LineCount, V!Len0
    <3> QED BY ZenonT(40), <2>2, <3>1 DEF WindowOK
  <2> QED BY ZenonT(40), <1>2, <2>1, <2>2
<1>3. ASSUME NEW top, V!ScrollTo(top) PROVE \E t : Top' = V!ClampTop(HexMode', t)
  BY ZenonT(40), <1>3 DEF V!ScrollTo
<1>4. ASSUME V!ToggleHex PROVE \E t : Top' = V!ClampTop(HexMode', t)
  BY ZenonT(40), <1>4 DEF V!ToggleHex
<1>5. ASSUME NEW from, V!FindText(from), UNCHANGED HexMode
      PROVE  (\E t : Top' = V!ClampTop(HexMode', t)) \/ UNCHANGED <<Top, HexMode>>
  BY ZenonT(40), <1>5, FindIsOne DEF V!Found, V!NotFound, V!TopShowing
<1>6. ASSUME V!SearchKey, UNCHANGED HexMode
      PROVE  (\E t : Top' = V!ClampTop(HexMode', t)) \/ UNCHANGED <<Top, HexMode>>
  BY ZenonT(40), <1>5, <1>6 DEF V!SearchKey
<1>7. ASSUME V!Slash \/ V!FindNext
      PROVE  (\E t : Top' = V!ClampTop(HexMode', t)) \/ UNCHANGED <<Top, HexMode>>
  BY ZenonT(40), <1>5, <1>7 DEF V!Slash, V!FindNext
<1> QED BY ZenonT(40), <1>3, <1>4, <1>6, <1>7 DEF V!HandleKey, V!HandleClick

(* The text that is looked for, and the flags. *)
LEMMA ShorterIs ==
  ASSUME SearchText \in Seq(Typed), SearchText # << >>, Len(SearchText) < SEARCH_MAX
  PROVE  /\ SubSeq(SearchText, 1, Len(SearchText) - 1) \in Seq(Typed)
         /\ Len(SubSeq(SearchText, 1, Len(SearchText) - 1)) < SEARCH_MAX
<1>1. PICK n \in Nat : n = Len(SearchText) - 1 /\ n <= Len(SearchText)
  <2>1. Len(SearchText) \in Nat /\ Len(SearchText) # 0
    OBVIOUS
  <2>2. Len(SearchText) - 1 \in Nat /\ Len(SearchText) - 1 <= Len(SearchText)
    BY <2>1
  <2> QED BY ZenonT(40), <2>2
<1>2. /\ SubSeq(SearchText, 1, n) \in Seq(Typed) /\ Len(SubSeq(SearchText, 1, n)) = n
  BY <1>1, SubSeqProperties
<1>3. n < SEARCH_MAX
  BY <1>1, ViewSizes
<1> QED BY ZenonT(40), <1>1, <1>2, <1>3

LEMMA LongerIs ==
  ASSUME SearchText \in Seq(Typed), NEW c \in Typed, Len(SearchText) < SEARCH_MAX - 1
  PROVE  Append(SearchText, c) \in Seq(Typed) /\ Len(Append(SearchText, c)) < SEARCH_MAX
<1>1. Append(SearchText, c) \in Seq(Typed) /\ Len(Append(SearchText, c)) = Len(SearchText) + 1
  BY AppendProperties
<1>2. Len(SearchText) \in Nat /\ SEARCH_MAX \in Nat
  BY ViewSizes
<1> QED BY <1>1, <1>2

PartsAre == V!VD_ALL = {"title", "content", "hint"}
LEMMA AllParts == PartsAre
BY DEF V!VD_ALL, PartsAre

LEMMA SearchAsked ==
  ASSUME Asked, V!SearchKey, UNCHANGED HexMode
  PROVE  Asked'
<1>1. /\ SearchText \in Seq(Typed) /\ Len(SearchText) < SEARCH_MAX
      /\ HexMode \in BOOLEAN /\ Searching \in BOOLEAN /\ HaveMatch \in BOOLEAN /\ edited \in BOOLEAN
      /\ Flags \subseteq V!VD_ALL
  BY ZenonT(40) DEF Asked
<1>2. Flags \cup {"hint"} \subseteq V!VD_ALL
  BY <1>1, AllParts DEF PartsAre
<1>3. CASE /\ Searching' = FALSE /\ Flags' = Flags \cup {"hint"}
           /\ UNCHANGED <<SearchText, HaveMatch, edited>>
  BY ZenonT(40), <1>1, <1>2, <1>3 DEF Asked
<1>4. CASE /\ Searching' = FALSE /\ edited' = (SearchText = << >>) /\ UNCHANGED SearchText
           /\ IF SearchText = << >>
                THEN Flags' = Flags \cup {"hint"} /\ UNCHANGED HaveMatch
                ELSE V!FindText(IF HaveMatch THEN MatchStart ELSE V!TopOffset)
  <2>1. edited' \in BOOLEAN
    BY ZenonT(40), <1>4
  <2>2. CASE SearchText = << >>
    BY ZenonT(40), <1>1, <1>2, <1>4, <2>1, <2>2 DEF Asked
  <2>3. CASE SearchText # << >>
    <3>1. (\E p : V!Found(p)) \/ V!NotFound
      BY ZenonT(40), <1>4, <2>3, FindIsOne
    <3>2. HaveMatch' \in BOOLEAN
      BY ZenonT(40), <3>1 DEF V!Found, V!NotFound
    <3>3. Flags' \subseteq Flags \cup {"title", "content", "hint"}
      BY ZenonT(40), <3>1 DEF V!Found, V!NotFound
    <3>4. Flags' \subseteq V!VD_ALL
      BY <1>1, <3>3, AllParts DEF PartsAre
    <3> QED BY ZenonT(40), <1>1, <1>4, <2>1, <3>2, <3>4 DEF Asked
  <2> QED BY <2>2, <2>3
<1>5. CASE /\ \/ SearchText # << >> /\ SearchText' = SubSeq(SearchText, 1, Len(SearchText) - 1)
              \/ \E c \in Typed : Len(SearchText) < SEARCH_MAX - 1 /\ SearchText' = Append(SearchText, c)
           /\ Flags' = Flags \cup {"hint"} /\ edited' = TRUE
           /\ UNCHANGED <<Searching, HaveMatch>>
  <2>1. SearchText' \in Seq(Typed) /\ Len(SearchText') < SEARCH_MAX
    BY ZenonT(40), <1>1, <1>5, ShorterIs, LongerIs
  <2> QED BY ZenonT(40), <1>1, <1>2, <1>5, <2>1 DEF Asked
<1> QED BY ZenonT(40), <1>3, <1>4, <1>5 DEF V!SearchKey

LEMMA HandleAsked ==
  ASSUME Asked, V!HandleKey \/ V!HandleClick
  PROVE  Asked'
<1>1. /\ SearchText \in Seq(Typed) /\ Len(SearchText) < SEARCH_MAX
      /\ HexMode \in BOOLEAN /\ Searching \in BOOLEAN /\ HaveMatch \in BOOLEAN /\ edited \in BOOLEAN
      /\ Flags \subseteq V!VD_ALL
  BY ZenonT(40) DEF Asked
<1>2. Flags \cup {"hint"} \subseteq V!VD_ALL /\ Flags \cup {"content", "title"} \subseteq V!VD_ALL
  BY <1>1, AllParts DEF PartsAre
<1>3. ASSUME NEW top, V!ScrollTo(top) PROVE Asked'
  BY ZenonT(40), <1>1, <1>2, <1>3 DEF Asked, V!ScrollTo, V!search
<1>4. ASSUME V!ToggleHex PROVE Asked'
  <2>1. HexMode' \in BOOLEAN /\ Flags' = V!VD_ALL /\ UNCHANGED <<SearchText, Searching, HaveMatch, edited>>
    BY ZenonT(40), <1>4 DEF V!ToggleHex, V!search
  <2> QED BY ZenonT(40), <1>1, <2>1 DEF Asked
<1>5. ASSUME V!Slash PROVE Asked'
  <2>1. /\ SearchText' = << >> /\ Searching' = TRUE /\ edited' = TRUE /\ Flags' = Flags \cup {"hint"}
        /\ UNCHANGED <<HexMode, HaveMatch>>
    BY ZenonT(40), <1>5 DEF V!Slash
  <2>2. SearchText' \in Seq(Typed) /\ Len(SearchText') < SEARCH_MAX
    BY <2>1, ViewSizes
  <2> QED BY ZenonT(40), <1>1, <1>2, <2>1, <2>2 DEF Asked
<1>6. ASSUME V!FindNext PROVE Asked'
  <2>1. UNCHANGED <<HexMode, SearchText>>
    BY ZenonT(40), <1>6 DEF V!FindNext
  <2>2. CASE SearchText = << >>
    <3>1. Searching' = TRUE /\ Flags' = Flags \cup {"hint"} /\ UNCHANGED <<HaveMatch, edited>>
      BY ZenonT(40), <1>6, <2>2 DEF V!FindNext
    <3> QED BY ZenonT(40), <1>1, <1>2, <2>1, <3>1 DEF Asked
  <2>3. CASE SearchText # << >>
    <3>1. edited' = FALSE /\ UNCHANGED Searching /\ ((\E p : V!Found(p)) \/ V!NotFound)
      BY ZenonT(40), <1>6, <2>3, FindIsOne DEF V!FindNext
    <3>2. HaveMatch' \in BOOLEAN
      BY ZenonT(40), <3>1 DEF V!Found, V!NotFound
    <3>3. Flags' \subseteq Flags \cup {"title", "content", "hint"}
      BY ZenonT(40), <3>1 DEF V!Found, V!NotFound
    <3>4. Flags' \subseteq V!VD_ALL
      BY <1>1, <3>3, AllParts DEF PartsAre
    <3> QED BY ZenonT(40), <1>1, <2>1, <3>1, <3>2, <3>4 DEF Asked
  <2> QED BY <2>2, <2>3
<1> QED BY ZenonT(40), <1>3, <1>4, <1>5, <1>6, SearchAsked DEF V!HandleKey, V!HandleClick

(* What has been drawn, part by part. *)
TitleOf == [hex |-> HexMode, top |-> Top]
TextOf == [hex |-> HexMode, top |-> Top, lit |-> V!Lit]
HintOf ==
  IF Searching THEN [shows |-> "find", find |-> SearchText] ELSE [shows |-> Message, find |-> << >>]

TitleDrawn == "title" \in Flags \/ drawn["title"] = TitleOf
TextDrawn ==
  \/ "content" \in Flags
  \/ IF edited \/ V!TooLong THEN drawn["content"].hex = HexMode /\ drawn["content"].top = Top
     ELSE drawn["content"] = TextOf
HintDrawn == "hint" \in Flags \/ drawn["hint"] = HintOf

LEMMA PartsOfView ==
  /\ V!View["title"] = TitleOf /\ V!View["content"] = TextOf /\ V!View["hint"] = HintOf
  /\ TextOf.hex = HexMode /\ TextOf.top = Top
<1>1. V!View = [title |-> TitleOf, content |-> TextOf, hint |-> HintOf]
  BY ZenonT(40) DEF V!View, TitleOf, TextOf, HintOf
<1>2. TextOf.hex = HexMode /\ TextOf.top = Top
  BY DEF TextOf
<1> QED BY <1>1, <1>2

LEMMA DrawnIs == V!ViewDrawn <=> (V!Open => TitleDrawn /\ TextDrawn /\ HintDrawn)
<1>1. "title" # "content" /\ "hint" # "content"
  OBVIOUS
<1>2. ASSUME V!Open, V!ViewDrawn PROVE TitleDrawn /\ TextDrawn /\ HintDrawn
  BY ZenonT(40), <1>1, <1>2, AllParts, PartsOfView DEF PartsAre, V!ViewDrawn, TitleDrawn, TextDrawn, HintDrawn
<1>3. ASSUME V!Open, TitleDrawn, TextDrawn, HintDrawn PROVE V!ViewDrawn
  BY ZenonT(40), <1>1, <1>3, AllParts, PartsOfView DEF PartsAre, V!ViewDrawn, TitleDrawn, TextDrawn, HintDrawn
<1>4. ~V!Open => V!ViewDrawn
  BY ZenonT(40) DEF V!ViewDrawn
<1> QED BY ZenonT(40), <1>2, <1>3, <1>4

LEMMA DrawnNext == (V!Open' => TitleDrawn' /\ TextDrawn' /\ HintDrawn') => V!ViewDrawn'
<1> SUFFICES ASSUME V!Open', TitleDrawn', TextDrawn', HintDrawn' PROVE V!ViewDrawn'
  BY ZenonT(40) DEF V!ViewDrawn
<1>1. "title" # "content" /\ "hint" # "content"
  OBVIOUS
<1>2. V!View' = [title |-> TitleOf', content |-> TextOf', hint |-> HintOf']
  BY ZenonT(40) DEF V!View, TitleOf, TextOf, HintOf
<1>3. /\ V!View'["title"] = TitleOf' /\ V!View'["content"] = TextOf' /\ V!View'["hint"] = HintOf'
  BY <1>2
<1> QED BY ZenonT(40), <1>1, <1>3, AllParts DEF PartsAre, V!ViewDrawn, TitleDrawn, TextDrawn, HintDrawn

(* The lines of the window, whatever is highlighted. *)
LEMMA WindowDrawn ==
  ASSUME TextDrawn, "content" \notin Flags
  PROVE  drawn["content"].hex = HexMode /\ drawn["content"].top = Top
BY ZenonT(40), PartsOfView DEF TextDrawn

LEMMA ScrollDrawn ==
  ASSUME TitleDrawn, TextDrawn, HintDrawn, NEW top, V!ScrollTo(top), UNCHANGED <<Buf, drawn>>
  PROVE  TitleDrawn' /\ TextDrawn' /\ HintDrawn'
<1>1. UNCHANGED <<HexMode, SearchText, Searching, HaveMatch, MatchStart, Message, edited>>
  BY ZenonT(40) DEF V!ScrollTo, V!search
<1>2. CASE Top' = Top
  <2>1. Flags' = Flags
    BY ZenonT(40), <1>2 DEF V!ScrollTo
  <2>2. V!Lit' = V!Lit /\ V!TooLong' = V!TooLong
    BY ZenonT(40), <1>1 DEF V!Lit, V!TooLong, V!Len0
  <2> QED BY ZenonT(40), <1>1, <1>2, <2>1, <2>2
        DEF TitleDrawn, TextDrawn, HintDrawn, TitleOf, TextOf, HintOf
<1>3. CASE Top' # Top
  <2>1. Flags' = Flags \cup {"content", "title"}
    BY ZenonT(40), <1>3 DEF V!ScrollTo
  <2> QED BY ZenonT(40), <1>1, <2>1 DEF TitleDrawn, TextDrawn, HintDrawn, HintOf
<1> QED BY <1>2, <1>3

LEMMA AllFlagged ==
  ASSUME Flags' = V!VD_ALL
  PROVE  TitleDrawn' /\ TextDrawn' /\ HintDrawn'
BY ZenonT(40), AllParts DEF PartsAre, TitleDrawn, TextDrawn, HintDrawn

(* A search is drawn, whichever way it ends. *)
LEMMA FindDrawn ==
  ASSUME TitleDrawn, TextDrawn, HintDrawn, NEW from, V!FindText(from),
         UNCHANGED <<Buf, drawn, HexMode, SearchText>>, edited' = FALSE,
         Searching \/ Searching' = Searching
  PROVE  TitleDrawn' /\ TextDrawn' /\ HintDrawn'
<1>1. CASE \E p : V!Found(p)
  <2>1. /\ UNCHANGED Message
        /\ Flags' = Flags \cup {"content", "title"} \cup (IF Searching THEN {"hint"} ELSE {})
    BY ZenonT(40), <1>1 DEF V!Found
  <2>2. HintDrawn'
    <3>1. CASE Searching
      BY ZenonT(40), <2>1, <3>1 DEF HintDrawn
    <3>2. CASE ~Searching
      <4>1. Searching' = Searching /\ UNCHANGED <<Message, SearchText, drawn>>
        BY ZenonT(40), <2>1, <3>2
      <4>2. HintOf' = HintOf
        BY ZenonT(40), <4>1 DEF HintOf
      <4>3. "hint" \in Flags => "hint" \in Flags'
        BY ZenonT(40), <2>1
      <4> QED BY ZenonT(40), <4>1, <4>2, <4>3 DEF HintDrawn
    <3> QED BY <3>1, <3>2
  <2> QED BY ZenonT(40), <2>1, <2>2 DEF TitleDrawn, TextDrawn
<1>2. CASE V!NotFound
  <2>1. /\ UNCHANGED Top /\ Flags' = Flags \cup {"hint"} \cup (IF V!TooLong THEN {} ELSE {"content"})
    BY ZenonT(40), <1>2 DEF V!NotFound
  <2>2. V!TooLong' = V!TooLong
    BY ZenonT(40) DEF V!TooLong, V!Len0
  <2>3. TextDrawn'
    <3>1. CASE V!TooLong /\ "content" \notin Flags
      <4>1. drawn["content"].hex = HexMode /\ drawn["content"].top = Top
        BY ZenonT(40), <3>1, WindowDrawn
      <4> QED BY ZenonT(40), <2>1, <2>2, <3>1, <4>1 DEF TextDrawn
    <3>2. CASE ~V!TooLong \/ "content" \in Flags
      BY ZenonT(40), <2>1, <3>2 DEF TextDrawn
    <3> QED BY <3>1, <3>2
  <2> QED BY ZenonT(40), <2>1, <2>3 DEF TitleDrawn, HintDrawn, TitleOf
<1> QED BY ZenonT(40), <1>1, <1>2, FindIsOne

(* A step that only the hint tells of: the highlight may stay behind the   *)
(* search text.                                                            *)
LEMMA HintMarked ==
  ASSUME TitleDrawn, TextDrawn, UNCHANGED <<Buf, drawn, HexMode, Top>>, Flags' = Flags \cup {"hint"},
         edited' = TRUE \/ UNCHANGED <<SearchText, HaveMatch, MatchStart, edited>>
  PROVE  TitleDrawn' /\ TextDrawn' /\ HintDrawn'
<1>1. TextDrawn'
  <2>1. CASE "content" \in Flags
    BY ZenonT(40), <2>1 DEF TextDrawn
  <2>2. CASE "content" \notin Flags /\ edited' = TRUE
    BY ZenonT(40), <2>2, WindowDrawn DEF TextDrawn
  <2>3. CASE "content" \notin Flags /\ UNCHANGED <<SearchText, HaveMatch, MatchStart, edited>>
    <3>1. V!Lit' = V!Lit /\ V!TooLong' = V!TooLong
      BY ZenonT(40), <2>3 DEF V!Lit, V!TooLong, V!Len0
    <3>2. "content" \in Flags' <=> "content" \in Flags
      BY <2>3
    <3> QED BY ZenonT(40), <2>3, <3>1, <3>2 DEF TextDrawn, TextOf
  <2> QED BY ZenonT(40), <2>1, <2>2, <2>3
<1> QED BY ZenonT(40), <1>1 DEF TitleDrawn, HintDrawn, TitleOf

LEMMA HandleDrawn ==
  ASSUME TitleDrawn, TextDrawn, HintDrawn, V!HandleKey \/ V!HandleClick
  PROVE  TitleDrawn' /\ TextDrawn' /\ HintDrawn'
<1>1. UNCHANGED <<Buf, drawn>>
  BY ZenonT(40) DEF V!HandleKey, V!HandleClick, V!text
<1>2. ASSUME NEW top, V!ScrollTo(top) PROVE TitleDrawn' /\ TextDrawn' /\ HintDrawn'
  BY ZenonT(40), <1>1, <1>2, ScrollDrawn
<1>3. ASSUME V!ToggleHex PROVE TitleDrawn' /\ TextDrawn' /\ HintDrawn'
  BY ZenonT(40), <1>3, AllFlagged DEF V!ToggleHex
<1>4. ASSUME V!Slash PROVE TitleDrawn' /\ TextDrawn' /\ HintDrawn'
  BY ZenonT(40), <1>1, <1>4, HintMarked DEF V!Slash
<1>5. ASSUME V!FindNext PROVE TitleDrawn' /\ TextDrawn' /\ HintDrawn'
  <2>1. CASE SearchText = << >>
    BY ZenonT(40), <1>1, <1>5, <2>1, HintMarked DEF V!FindNext
  <2>2. CASE SearchText # << >>
    BY ZenonT(40), <1>1, <1>5, <2>2, FindDrawn DEF V!FindNext
  <2> QED BY <2>1, <2>2
<1>6. ASSUME Searching, V!SearchKey, UNCHANGED HexMode PROVE TitleDrawn' /\ TextDrawn' /\ HintDrawn'
  <2>1. CASE /\ Flags' = Flags \cup {"hint"}
             /\ UNCHANGED <<SearchText, HaveMatch, MatchStart, Top, Message, edited>>
    BY ZenonT(40), <1>1, <1>6, <2>1, HintMarked
  <2>2. CASE /\ edited' = (SearchText = << >>) /\ UNCHANGED SearchText
             /\ IF SearchText = << >>
                  THEN Flags' = Flags \cup {"hint"} /\ UNCHANGED <<HaveMatch, MatchStart, Top, Message>>
                  ELSE V!FindText(IF HaveMatch THEN MatchStart ELSE V!TopOffset)
    <3>1. CASE SearchText = << >>
      <4>1. edited' = TRUE
        BY ZenonT(40), <2>2, <3>1
      <4> QED BY ZenonT(40), <1>1, <1>6, <2>2, <3>1, <4>1, HintMarked
    <3>2. CASE SearchText # << >>
      <4>1. edited' = FALSE
        BY ZenonT(40), <2>2, <3>2
      <4> QED BY ZenonT(40), <1>1, <1>6, <2>2, <3>2, <4>1, FindDrawn
    <3> QED BY <3>1, <3>2
  <2>3. CASE Flags' = Flags \cup {"hint"} /\ edited' = TRUE /\ UNCHANGED Top
    BY ZenonT(40), <1>1, <1>6, <2>3, HintMarked
  <2> QED BY ZenonT(40), <1>6, <2>1, <2>2, <2>3 DEF V!SearchKey
<1> QED BY ZenonT(40), <1>2, <1>3, <1>4, <1>5, <1>6 DEF V!HandleKey, V!HandleClick

(* Present draws what is marked. *)
LEMMA PresentDrawn ==
  ASSUME TitleDrawn, TextDrawn, HintDrawn, V!Present
  PROVE  TitleDrawn' /\ TextDrawn' /\ HintDrawn'
<1>1. /\ drawn' = [p \in V!VD_ALL |-> IF p \in Flags THEN V!View[p] ELSE drawn[p]]
      /\ UNCHANGED <<Buf, HexMode, Top, SearchText, Searching, HaveMatch, MatchStart, Message, edited>>
  BY ZenonT(40) DEF V!Present, V!text, V!search
<1>2. \A p \in {"title", "content", "hint"} : drawn'[p] = IF p \in Flags THEN V!View[p] ELSE drawn[p]
  BY ZenonT(40), <1>1, AllParts DEF PartsAre
<1>3. V!Lit' = V!Lit /\ V!TooLong' = V!TooLong
  BY ZenonT(40), <1>1 DEF V!Lit, V!TooLong, V!Len0
<1>4. drawn'["title"] = TitleOf
  BY ZenonT(40), <1>2, PartsOfView DEF TitleDrawn
<1>5. drawn'["hint"] = HintOf
  BY ZenonT(40), <1>2, PartsOfView DEF HintDrawn
<1>6. IF edited \/ V!TooLong THEN drawn'["content"].hex = HexMode /\ drawn'["content"].top = Top
      ELSE drawn'["content"] = TextOf
  <2>1. drawn'["content"] = IF "content" \in Flags THEN TextOf ELSE drawn["content"]
    BY ZenonT(40), <1>2, PartsOfView
  <2>2. CASE "content" \in Flags
    BY ZenonT(40), <2>1, <2>2, PartsOfView
  <2>3. CASE "content" \notin Flags
    BY ZenonT(40), <2>1, <2>3 DEF TextDrawn
  <2> QED BY <2>2, <2>3
<1> QED BY ZenonT(40), <1>1, <1>3, <1>4, <1>5, <1>6
      DEF TitleDrawn, TextDrawn, HintDrawn, TitleOf, TextOf, HintOf

(* The steps of the viewer. *)
LEMMA InitViewer == V!Init => ViewerInv
<1> SUFFICES ASSUME V!Init PROVE ViewerInv
  OBVIOUS
<1>1. /\ vfile \in Texts /\ Buf = << >> /\ LineNum = << >> /\ HexMode = FALSE
      /\ SearchText = << >> /\ Searching = FALSE /\ HaveMatch = FALSE /\ Flags = {}
      /\ vpc = "load" /\ edited = FALSE
  BY ZenonT(40) DEF V!Init
<1>2. Held
  <2>1. PICK w \in Nat : w = V!Want
    BY ZenonT(40), <1>1, WantIs
  <2>2. Buf \in Seq(DOMAIN Lower) /\ Len(Buf) = 0 /\ 0 <= w
    BY <1>1
  <2>3. Len(vfile) \in Nat
    BY ZenonT(40), <1>1, WantIs
  <2>4. SubSeq(vfile, 1, 0) = << >>
    <3>1. vfile \in Seq(DOMAIN Lower) /\ 0 <= Len(vfile)
      BY <1>1, <2>3, ViewSizes
    <3>2. SubSeq(vfile, 1, 0) \in Seq(DOMAIN Lower) /\ Len(SubSeq(vfile, 1, 0)) = 0
      BY <3>1, SubSeqProperties
    <3> QED BY <3>2
  <2> QED BY ZenonT(40), <1>1, <2>1, <2>2, <2>4 DEF Held
<1>3. Counted
  <2>1. DOMAIN LineNum = 0..(0 - 1) /\ 0 \in Nat
    BY <1>1
  <2> QED BY ZenonT(40), <2>1 DEF Counted
<1>4. Asked
  <2>1. SearchText \in Seq(Typed) /\ Len(SearchText) < SEARCH_MAX
    BY <1>1, ViewSizes
  <2> QED BY ZenonT(40), <1>1, <2>1 DEF Asked
<1>5. ~V!Open
  BY <1>1 DEF V!Open
<1> QED BY ZenonT(40), <1>2, <1>3, <1>4, <1>5 DEF ViewerInv, V!ViewDrawn

(* Before the viewer is open, nothing has been drawn of the file. *)
LEMMA LoadViewer == ViewerInv /\ (V!LoadChunk \/ V!ReadFails) => ViewerInv'
<1>1. ASSUME ViewerInv, V!LoadChunk PROVE ViewerInv'
  <2>1. /\ vpc' = "load"
        /\ UNCHANGED <<LineNum, HexMode, SearchText, Searching, HaveMatch, Flags, edited>>
    BY ZenonT(40), <1>1 DEF V!LoadChunk, V!search
  <2>2. ~V!Open'
    BY <2>1 DEF V!Open
  <2>3. Held'
    BY ZenonT(40), <1>1, LoadHeld DEF ViewerInv
  <2> QED BY ZenonT(40), <1>1, <2>1, <2>2, <2>3 DEF ViewerInv, Counted, Asked, V!ViewDrawn
<1>2. ASSUME ViewerInv, V!ReadFails PROVE ViewerInv'
  <2>1. /\ vpc' = "closed"
        /\ UNCHANGED <<vfile, Buf, LineNum, HexMode, SearchText, Searching, HaveMatch, Flags, edited>>
    BY ZenonT(40), <1>2 DEF V!ReadFails, V!text, V!search
  <2>2. ~V!Open'
    BY <2>1 DEF V!Open
  <2>3. V!Want' = V!Want
    BY ZenonT(40), <2>1 DEF V!Want
  <2> QED BY ZenonT(40), <1>2, <2>1, <2>2, <2>3 DEF ViewerInv, Held, Counted, Asked, V!ViewDrawn
<1> QED BY <1>1, <1>2

LEMMA OpensViewer == ViewerInv /\ V!Opens => ViewerInv'
<1> SUFFICES ASSUME ViewerInv, V!Opens PROVE ViewerInv'
  OBVIOUS
<1>1. /\ HexMode' = V!LooksBinary /\ Top' = 0 /\ SearchText' = << >> /\ Searching' = FALSE
      /\ HaveMatch' = FALSE /\ Flags' = V!VD_ALL /\ UNCHANGED <<vfile, Buf, edited>>
  BY ZenonT(40) DEF V!Opens
<1>2. Held'
  <2>1. V!Want' = V!Want
    BY ZenonT(40), <1>1 DEF V!Want
  <2> QED BY ZenonT(40), <1>1, <2>1 DEF ViewerInv, Held
<1>3. Counted'
  BY ZenonT(40), OpensCounted
<1>4. Asked'
  <2>1. SearchText' \in Seq(Typed) /\ Len(SearchText') < SEARCH_MAX
    BY <1>1, ViewSizes
  <2>2. HexMode' \in BOOLEAN
    BY ZenonT(40), <1>1 DEF V!LooksBinary
  <2> QED BY ZenonT(40), <1>1, <2>1, <2>2 DEF ViewerInv, Asked
<1>5. Top' = V!ClampTop(HexMode, Top)'
  <2>1. PICK total \in Int : total = RowCount(HexMode', Buf', LineNum')
    <3>1. PICK n \in Nat : DOMAIN LineNum' = 0..(n - 1)
      BY ZenonT(40), <1>3 DEF Counted
    <3>2. Len(Buf') \in Nat
      BY <1>2 DEF Held
    <3> QED BY ZenonT(40), <3>1, <3>2, RowCountIs
  <2>2. V!ClampTop(HexMode, Top)' = Clamp(total, Top')
    BY ZenonT(40), <2>1 DEF V!ClampTop, V!TotalRows, V!LineCount, V!Len0, Clamp, RowCount
  <2> QED BY ZenonT(40), <1>1, <2>2, TopZero
<1>6. V!ViewDrawn'
  <2>1. V!VD_ALL \ Flags' = {}
    BY <1>1
  <2> QED BY ZenonT(40), <2>1 DEF V!ViewDrawn
<1> QED BY ZenonT(40), <1>2, <1>3, <1>4, <1>5, <1>6 DEF ViewerInv

LEMMA HandleViewer == ViewerInv /\ (V!HandleKey \/ V!HandleClick) => ViewerInv'
<1> SUFFICES ASSUME ViewerInv, V!HandleKey \/ V!HandleClick PROVE ViewerInv'
  OBVIOUS
<1>1. UNCHANGED <<vfile, Buf, LineNum>>
  BY ZenonT(40) DEF V!HandleKey, V!HandleClick, V!text
<1>2. V!Open
  <2>1. vpc = "key" \/ vpc = "mouse"
    BY ZenonT(40) DEF V!HandleKey, V!HandleClick
  <2> QED BY <2>1 DEF V!Open
<1>3. TitleDrawn /\ TextDrawn /\ HintDrawn
  BY ZenonT(40), <1>2, DrawnIs DEF ViewerInv
<1>4. TitleDrawn' /\ TextDrawn' /\ HintDrawn'
  BY ZenonT(40), <1>3, HandleDrawn
<1>5. V!ViewDrawn'
  BY ZenonT(40), <1>4, DrawnNext
<1>6. WindowOK'
  BY ZenonT(40), <1>2, KeyWindow DEF ViewerInv, WindowOK
<1>7. Asked'
  BY ZenonT(40), HandleAsked DEF ViewerInv
<1>8. Held' /\ Counted'
  <2>1. V!Want' = V!Want
    BY ZenonT(40), <1>1 DEF V!Want
  <2> QED BY ZenonT(40), <1>1, <2>1 DEF ViewerInv, Held, Counted
<1> QED BY ZenonT(40), <1>5, <1>6, <1>7, <1>8 DEF ViewerInv, WindowOK

(* A step that moves neither the window nor what has been found. *)
LEMMA StillWindow ==
  ASSUME Held, Counted, WindowOK, V!Open, UNCHANGED <<vfile, Buf, LineNum, HexMode, Top>>
  PROVE  Held' /\ Counted' /\ WindowOK'
<1>1. V!Want' = V!Want
  BY ZenonT(40) DEF V!Want
<1>2. V!ClampTop(HexMode, Top)' = V!ClampTop(HexMode, Top)
  BY ZenonT(40) DEF V!ClampTop, V!TotalRows, V!LineCount, V!Len0
<1> QED BY ZenonT(40), <1>1, <1>2 DEF Held, Counted, WindowOK

LEMMA QuietViewer == ViewerInv /\ (V!NoKey \/ V!NoClick \/ V!Leaves \/ UNCHANGED viewer) => ViewerInv'
<1> SUFFICES ASSUME ViewerInv, V!NoKey \/ V!NoClick \/ V!Leaves \/ UNCHANGED viewer PROVE ViewerInv'
  OBVIOUS
<1>1. UNCHANGED <<vfile, Buf, LineNum, HexMode, Top, SearchText, Searching, HaveMatch, MatchStart,
                  Message, Flags, drawn, edited>>
  BY ZenonT(40) DEF V!NoKey, V!NoClick, V!Leaves, V!text, V!search, viewer
<1>2. V!Open' => V!Open
  <2>1. vpc' = vpc \/ vpc = "key" \/ vpc = "mouse"
    BY ZenonT(40) DEF V!NoKey, V!NoClick, V!Leaves, viewer
  <2> QED BY <2>1 DEF V!Open
<1>3. V!Want' = V!Want
  BY ZenonT(40), <1>1 DEF V!Want
<1>4. V!Open => WindowOK'
  BY ZenonT(40), <1>1, StillWindow DEF ViewerInv, WindowOK
<1>5. Held' /\ Counted' /\ Asked'
  BY ZenonT(40), <1>1, <1>3 DEF ViewerInv, Held, Counted, Asked
<1>6. V!Open => TitleDrawn' /\ TextDrawn' /\ HintDrawn'
  <2>1. ASSUME V!Open PROVE TitleDrawn /\ TextDrawn /\ HintDrawn
    BY ZenonT(40), <2>1, DrawnIs DEF ViewerInv
  <2>2. V!Lit' = V!Lit /\ V!TooLong' = V!TooLong
    BY ZenonT(40), <1>1 DEF V!Lit, V!TooLong, V!Len0
  <2>3. TitleOf' = TitleOf /\ TextOf' = TextOf /\ HintOf' = HintOf
    BY ZenonT(40), <1>1, <2>2 DEF TitleOf, TextOf, HintOf
  <2> QED BY ZenonT(40), <1>1, <2>1, <2>2, <2>3 DEF TitleDrawn, TextDrawn, HintDrawn
<1>7. V!ViewDrawn'
  BY ZenonT(40), <1>2, <1>6, DrawnNext
<1> QED BY ZenonT(40), <1>2, <1>4, <1>5, <1>7 DEF ViewerInv, WindowOK

LEMMA RoundViewer == ViewerInv /\ (V!Expires \/ V!Present) => ViewerInv'
<1> SUFFICES ASSUME ViewerInv, V!Expires \/ V!Present PROVE ViewerInv'
  OBVIOUS
<1>1. UNCHANGED <<vfile, Buf, LineNum, HexMode, Top, SearchText, Searching, HaveMatch, MatchStart, edited>>
  BY ZenonT(40) DEF V!Expires, V!Present, V!text, V!search
<1>2. V!Open
  <2>1. vpc = "present"
    BY ZenonT(40) DEF V!Expires, V!Present
  <2> QED BY <2>1 DEF V!Open
<1>3. Held' /\ Counted' /\ WindowOK'
  BY ZenonT(40), <1>1, <1>2, StillWindow DEF ViewerInv, WindowOK
<1>4. Asked'
  <2>1. Flags' = Flags \cup {"hint"} \/ Flags' = {}
    BY ZenonT(40) DEF V!Expires, V!Present
  <2>2. Flags' \subseteq V!VD_ALL
    BY ZenonT(40), <2>1, AllParts DEF PartsAre, ViewerInv, Asked
  <2> QED BY ZenonT(40), <1>1, <2>2 DEF ViewerInv, Asked
<1>5. TitleDrawn /\ TextDrawn /\ HintDrawn
  BY ZenonT(40), <1>2, DrawnIs DEF ViewerInv
<1>6. TitleDrawn' /\ TextDrawn' /\ HintDrawn'
  <2>1. CASE V!Present
    BY ZenonT(40), <1>5, <2>1, PresentDrawn
  <2>2. CASE V!Expires
    <3>1. Flags' = Flags \cup {"hint"} /\ UNCHANGED drawn
      BY ZenonT(40), <2>2 DEF V!Expires
    <3> QED BY ZenonT(40), <1>1, <1>5, <3>1, HintMarked
  <2> QED BY <2>1, <2>2
<1>7. V!ViewDrawn'
  BY ZenonT(40), <1>6, DrawnNext
<1> QED BY ZenonT(40), <1>3, <1>4, <1>7 DEF ViewerInv, WindowOK

LEMMA StepViewer == ViewerInv /\ (V!Next \/ UNCHANGED viewer) => ViewerInv'
BY ZenonT(40), LoadViewer, OpensViewer, HandleViewer, QuietViewer, RoundViewer DEF V!Next

LEMMA ViewerTyped == ViewerInv => V!TypeOK
BY ZenonT(40) DEF ViewerInv, Held, Asked, V!TypeOK, V!Len0

------------------------------------------------------------------------------
(* The whole: one part takes the steps, and the others stand still. *)
FilesInv == Inv /\ FsInv /\ ExplorerInv /\ ViewerInv

LEMMA InitFiles == FilesInit => FilesInv
BY ZenonT(40), InitInv, InitFs, InitExplorer, InitViewer DEF FilesInit, FilesInv

LEMMA StepFiles == FilesInv /\ [FilesNext]_all => FilesInv'
<1> SUFFICES ASSUME FilesInv, [FilesNext]_all PROVE FilesInv'
  OBVIOUS
<1>1. CASE FatOnly /\ Next
  <2>1. UNCHANGED <<fs, explorer, viewer>>
    BY ZenonT(40), <1>1 DEF FatOnly
  <2> QED BY ZenonT(40), <1>1, <2>1, StepInv, StepFs, StepExplorer, StepViewer DEF FilesInv
<1>2. CASE FsOnly /\ F!Next
  <2>1. UNCHANGED <<vars, explorer, viewer>>
    BY ZenonT(40), <1>2 DEF FsOnly
  <2> QED BY ZenonT(40), <1>2, <2>1, StepInv, StepFs, StepExplorer, StepViewer DEF FilesInv
<1>3. CASE ExplorerOnly /\ X!Next
  <2>1. UNCHANGED <<vars, fs, viewer>>
    BY ZenonT(40), <1>3 DEF ExplorerOnly
  <2> QED BY ZenonT(40), <1>3, <2>1, StepInv, StepFs, StepExplorer, StepViewer DEF FilesInv
<1>4. CASE ViewerOnly /\ V!Next
  <2>1. UNCHANGED <<vars, fs, explorer>>
    BY ZenonT(40), <1>4 DEF ViewerOnly
  <2> QED BY ZenonT(40), <1>4, <2>1, StepInv, StepFs, StepExplorer, StepViewer DEF FilesInv
<1>5. CASE ViewerClosed \/ UNCHANGED all
  <2>1. UNCHANGED <<vars, fs, explorer, viewer>>
    BY ZenonT(40), <1>5 DEF ViewerClosed, all
  <2> QED BY ZenonT(40), <2>1, StepInv, StepFs, StepExplorer, StepViewer DEF FilesInv
<1> QED BY ZenonT(40), <1>1, <1>2, <1>3, <1>4, <1>5 DEF FilesNext

LEMMA FilesSafe == FilesSpec => []FilesInv
BY PTL, InitFiles, StepFiles DEF FilesSpec

(* Whichever part runs, its variables keep their types; no partition is    *)
(* mounted twice, the explorer's selection is on its list and on the       *)
(* screen, and the viewer's window is where clamping would put it.         *)
THEOREM FilesSound == FilesSpec => []StateSound
<1>1. FilesInv => StateSound
  BY ZenonT(40), FsTyped, ExplorerTyped, ViewerTyped DEF FilesInv, Inv, StateSound
<1> QED BY PTL, <1>1, FilesSafe

(* What the explorer and the viewer have not marked for drawing is on the  *)
(* screen as it would be drawn now: after every key, click, poll of the    *)
(* player and round of the loop, whatever the folder or the file.          *)
THEOREM ScreensCurrent == FilesSpec => []ScreenCurrent
<1>1. FilesInv => ScreenCurrent
  BY ZenonT(40), ExplorerCurrent DEF FilesInv, ViewerInv, ScreenCurrent
<1> QED BY PTL, <1>1, FilesSafe

LEMMA SameIsPrefix ==
  ASSUME NEW s \in Seq(Nat)
  PROVE  F!IsPrefix(s, s) /\ \A k \in Nat : F!IsPrefix(s, Append(s, k))
<1>1. Len(s) \in Nat /\ Len(s) <= Len(s)
  OBVIOUS
<1>2. F!IsPrefix(s, s)
  BY ZenonT(40), <1>1 DEF F!IsPrefix
<1>3. ASSUME NEW k \in Nat PROVE F!IsPrefix(s, Append(s, k))
  <2>1. PICK t : t = Append(s, k)
    BY ZenonT(40)
  <2>2. t \in Seq(Nat) /\ Len(t) = Len(s) + 1 /\ \A i \in 1..Len(s) : t[i] = s[i]
    BY <2>1, AppendProperties
  <2>3. Len(s) <= Len(t)
    BY <1>1, <2>2
  <2>4. PICK a, b : a = SubSeq(s, 1, Len(s)) /\ b = SubSeq(t, 1, Len(s))
    BY ZenonT(40)
  <2>5. /\ a \in Seq(Nat) /\ Len(a) = Len(s) /\ \A i \in 1..Len(s) : a[i] = s[i]
        /\ b \in Seq(Nat) /\ Len(b) = Len(s) /\ \A i \in 1..Len(s) : b[i] = t[i]
    BY <1>1, <2>2, <2>3, <2>4, SubSeqProperties
  <2>6. a = b
    BY ZenonT(40), <2>2, <2>5, SeqEqual
  <2> QED BY ZenonT(40), <2>1, <2>3, <2>4, <2>6 DEF F!IsPrefix
<1> QED BY <1>2, <1>3

LEMMA IndexesStep ==
  ASSUME FsInv, F!Next \/ UNCHANGED fs
  PROVE  /\ F!IsPrefix(fsVolumes, fsVolumes')
         /\ CwdVolume > 0 /\ mounting => UNCHANGED <<CwdVolume, CwdPathText>>
<1>1. fsVolumes \in Seq(Nat) /\ PartCursor + 1 \in Nat /\ (CwdVolume > 0 => ~(CwdVolume < 0))
  BY DEF FsInv
<1>2. fsVolumes' = fsVolumes \/ \E k \in Nat : fsVolumes' = Append(fsVolumes, k)
  BY ZenonT(40), <1>1 DEF F!Next, F!FsMountDevice, F!MountNewPartitions, F!MountDone, F!Mount, F!FsChdir, fs
<1>3. F!IsPrefix(fsVolumes, fsVolumes')
  BY ZenonT(40), <1>1, <1>2, SameIsPrefix
<1>4. CwdVolume > 0 /\ mounting => UNCHANGED <<CwdVolume, CwdPathText>>
  BY ZenonT(40), <1>1 DEF F!Next, F!FsMountDevice, F!MountNewPartitions, F!MountDone, F!FsChdir, F!cwd, fs
<1> QED BY <1>3, <1>4

(* Each part takes steps of its own, or stands still. *)
LEMMA PartSteps ==
  ASSUME [FilesNext]_all
  PROVE  (F!Next \/ UNCHANGED fs) /\ (X!Next \/ UNCHANGED explorer)
BY ZenonT(40) DEF FilesNext, FatOnly, FsOnly, ExplorerOnly, ViewerOnly, ViewerClosed, all

(* The index that the shell and the explorer keep of a volume means the    *)
(* same partition for good, whichever drives come, and a mount leaves the  *)
(* current directory as it is.                                             *)
THEOREM IndexesKept == FilesSpec => F!IndexesStay
<1>1. FilesInv /\ [FilesNext]_all =>
        [/\ F!IsPrefix(fsVolumes, fsVolumes')
         /\ CwdVolume > 0 /\ mounting => UNCHANGED <<CwdVolume, CwdPathText>>]_(F!vars)
  BY ZenonT(40), PartSteps, IndexesStep DEF FilesInv
<1> QED BY PTL, <1>1, FilesSafe DEF FilesSpec, F!IndexesStay

Follows ==
  xpc = "key" /\ (SortMode' # SortMode \/ ShowHidden' # ShowHidden)
    /\ X!SelectedName # X!NoFocus /\ (\E E \in X!ToSet(view'.Order) : E.name = X!SelectedName)
  => X!SelectedName' = X!SelectedName

Returns ==
  xpc = "key" /\ view.Dir # << >> /\ view'.Volume = view.Volume /\ view'.Dir = X!Front(view.Dir)
    /\ (\E E \in X!ToSet(view'.Order) : E.name = X!Last(view.Dir))
  => X!SelectedName' = X!Last(view.Dir)

PlaysNext ==
  xpc = "take" /\ playing' # playing /\ playing' # X!Idle =>
    /\ playing.state = "ended"
    /\ playing'.track.Volume = playing.track.Volume /\ playing'.track.Dir = playing.track.Dir
    /\ LET place(t) == X!FindItemByName(view, t.name)
       IN  /\ 0 <= place(playing.track) /\ place(playing.track) < place(playing'.track)
           /\ \A k \in (place(playing.track) + 1)..(place(playing'.track) - 1) :
                X!ItemEntry(view, k).kind # "wav"
           /\ view'.Selected = place(playing'.track)

LEMMA IsListed ==
  ASSUME NEW v, ViewOK(v), NEW name
  PROVE  (\E E \in X!ToSet(v.Order) : E.name = name) => Listed(v, name)
<1>1. X!ToSet(v.Order) = {v.Order[k] : k \in 1..Len(v.Order)}
  BY ZenonT(40), OrderIs
<1>2. ASSUME NEW E \in X!ToSet(v.Order), E.name = name PROVE Listed(v, name)
  <2>1. PICK k \in 1..Len(v.Order) : E = v.Order[k]
    BY <1>1, <1>2
  <2> QED BY ZenonT(40), <1>2, <2>1 DEF Listed
<1> QED BY <1>2

LEMMA KeptStep == ExplorerInv /\ ExplorerInv' /\ (X!Next \/ UNCHANGED explorer) => Follows /\ Returns
  /\ PlaysNext
<1> SUFFICES ASSUME ExplorerInv, ExplorerInv', X!Next \/ UNCHANGED explorer
             PROVE  Follows /\ Returns /\ PlaysNext
  OBVIOUS
<1>1. ViewOK(view')
  BY ZenonT(40) DEF ExplorerInv, ListInv
<1>2. PICK v : v = view'
  BY ZenonT(40)
<1>3. \A name : (\E E \in X!ToSet(view'.Order) : E.name = name) => Listed(view', name)
  BY ZenonT(40), <1>1, <1>2, IsListed
<1>4. Follows
  BY ZenonT(40), <1>3, FollowsStep DEF Follows
<1>5. Returns
  BY ZenonT(40), <1>3, GoUpStep DEF Returns
<1>6. PlaysNext
  <2>1. ListInv
    BY ZenonT(40) DEF ExplorerInv
  <2> QED BY ZenonT(40), <2>1, AutoplayStep, AdvanceFollows DEF PlaysNext
<1> QED BY <1>4, <1>5, <1>6

(* Sorting the list, hiding files and going up keep the selection on its   *)
(* entry, and a track that starts by itself is the next of the folder of   *)
(* the one that ended, in the list's order, and becomes the selection.     *)
THEOREM SelectionStays == FilesSpec => SelectionKept
<1>1. FilesInv /\ FilesInv' /\ [FilesNext]_all =>
        [Follows]_(X!vars) /\ [Returns]_(X!vars) /\ [PlaysNext]_(X!vars)
  BY ZenonT(40), PartSteps, KeptStep DEF FilesInv
<1> QED BY PTL, <1>1, FilesSafe
      DEF FilesSpec, SelectionKept, X!SelectionKept, X!SelectionFollows, X!GoUpReturns, X!AutoplayFollows,
          Follows, Returns, PlaysNext
=============================================================================
