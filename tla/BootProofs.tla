------------------------------ MODULE BootProofs ------------------------------
(***************************************************************************)
(* Proofs about MCBoot, for every value of its constants: the page         *)
(* allocator, the boot loader, the verbs of the sound codec and the search *)
(* of configuration space, each with the inductive invariant it needs.     *)
(* The xHCI controllers, and so what is true of the allocator whoever      *)
(* calls it, follow in XhciStartProofs; the setting up of the codec is     *)
(* only model-checked.                                                     *)
(*                                                                         *)
(* A behaviour of BootSpec is one of one part, so every part has its own   *)
(* invariant, which the steps of the others do not touch.                  *)
(***************************************************************************)
EXTENDS MCBoot, FiniteSetTheorems, TLAPS

(* The part of the usable memory the third loop of InitPmm has cleared. *)
Cleared == UNION {PagesOf(map[k]) : k \in {j \in Conventional(map) : j < entry}}

Scanned(k) == map[k].type \in BackedRam => map[k].start + map[k].pages <= TotalPages

(* What each loop of InitPmm has established so far. *)
ScanInv ==
  \A k \in 1..Len(map) : (stage = "scan" => k < entry) => Scanned(k)

PlaceInv ==
  /\ stage = "place" => \A k \in Conventional(map) : k < entry => map[k].pages < BitmapPages
  /\ stage \notin {"scan", "place"} /\ BitmapFits =>
       \E k \in Conventional(map) : map[k].start = BitmapPage /\ map[k].pages >= BitmapPages

ClearInv ==
  /\ stage \in {"scan", "place"} => clear = {}
  /\ stage = "clear" => clear = Cleared
  /\ stage = "mark" => clear = Usable(map)
  /\ stage = "reserve" => clear = Usable(map) \ BitmapRange
  /\ stage = "run" => clear \cup held = (Usable(map) \ BitmapRange) \ ReservedRange
  /\ stage # "run" => held = {}
  /\ held \cap clear = {}

CountInv ==
  /\ IsFiniteSet(clear)
  /\ stage \notin {"reserve", "run"} => FreePages = Cardinality(clear)
  /\ stage \in {"reserve", "run"} /\ BitmapFits => FreePages = Cardinality(clear)

IInv == TypeOK /\ ScanInv /\ PlaceInv /\ ClearInv /\ CountInv

------------------------------------------------------------------------------

(* A memory map is a sequence of descriptors whose usable parts do not     *)
(* overlap.                                                                *)
LEMMA MapFacts ==
  ASSUME TypeOK
  PROVE  /\ map \in Seq(Descriptor)
         /\ DisjointMap(map)
         /\ Len(map) \in Nat
         /\ \A k \in 1..Len(map) : /\ map[k] \in Descriptor
                                   /\ map[k].type \in Nat
                                   /\ map[k].start \in Nat
                                   /\ map[k].pages \in Nat
<1>1. map \in Seq(Descriptor) /\ DisjointMap(map)
  BY PmmConstants DEF TypeOK
<1>2. \A k \in 1..Len(map) : map[k] \in Descriptor
  BY <1>1
<1>3. \A d \in Descriptor : d.type \in Nat /\ d.start \in Nat /\ d.pages \in Nat
  BY DEF Descriptor
<1>4. Len(map) \in Nat
  BY <1>1
<1> QED BY <1>1, <1>2, <1>3, <1>4

(* The size of the bitmap is a number of pages. *)
LEMMA BitmapPagesNat ==
  ASSUME TypeOK
  PROVE  BitmapPages \in Nat
<1>1. TotalPages \in Nat /\ BitsPerPage \in Nat /\ BitsPerPage > 0
  BY PmmConstants DEF TypeOK
<1>2. TotalPages + BitsPerPage - 1 \in Nat
  BY <1>1
<1>3. \A n, d \in Nat : d > 0 => n \div d \in Nat
  BY SMT
<1> QED BY <1>1, <1>2, <1>3 DEF BitmapPages

(* An interval a .. a + n - 1 is finite and has n elements. *)
LEMMA IntervalSize ==
  ASSUME NEW a \in Nat, NEW n \in Nat
  PROVE  /\ IsFiniteSet(a .. (a + n - 1))
         /\ Cardinality(a .. (a + n - 1)) = n
         /\ (a .. (a + n - 1)) \subseteq Nat
<1>1. a \in Int /\ a + n - 1 \in Int
  OBVIOUS
<1>2. Cardinality(a .. (a + n - 1)) = IF a > a + n - 1 THEN 0 ELSE (a + n - 1) - a + 1
  BY <1>1, FS_Interval
<1>3. IsFiniteSet(a .. (a + n - 1))
  BY <1>1, FS_Interval
<1> QED BY <1>2, <1>3

(* Every entry of a memory map is still to be looked at. *)
THEOREM InitInv == Init => IInv
<1> SUFFICES ASSUME Init PROVE IInv
  OBVIOUS
<1>1. TypeOK
  BY DEF Init, TypeOK
<1>2. ScanInv /\ PlaceInv /\ ClearInv
  BY MapFacts, <1>1 DEF Init, ScanInv, PlaceInv, ClearInv, Scanned
<1>3. CountInv
  BY FS_EmptySet DEF Init, CountInv
<1> QED BY <1>1, <1>2, <1>3 DEF IInv

(* The pages of two different conventional descriptors have no page in     *)
(* common, so the loop that clears them counts each page once.             *)
LEMMA ClearedStep ==
  ASSUME TypeOK, entry \in Conventional(map)
  PROVE  PagesOf(map[entry]) \cap Cleared = {}
<1>1. DisjointMap(map) /\ entry \in Nat
  BY MapFacts DEF TypeOK
<1>2. \A k \in Conventional(map) : k # entry => PagesOf(map[k]) \cap PagesOf(map[entry]) = {}
  BY <1>1 DEF DisjointMap
<1>3. \A k \in Conventional(map) : k < entry => k # entry
  BY <1>1
<1> QED BY <1>2, <1>3 DEF Cleared

(* A step of the first loop bounds one more backed region. *)
LEMMA ScanStep ==
  ASSUME IInv, ScanEntry
  PROVE  IInv'
<1>0. TypeOK /\ ScanInv /\ PlaceInv /\ ClearInv /\ CountInv
  BY DEF IInv
<1>m. /\ Len(map) \in Nat /\ entry \in Nat \ {0} /\ TotalPages \in Nat /\ FreePages \in Int
      /\ \A k \in 1..Len(map) : map[k].start \in Nat /\ map[k].pages \in Nat
  BY <1>0, MapFacts DEF TypeOK
<1>1. CASE entry <= Len(map)
  <2>1. /\ TotalPages' \in Nat /\ TotalPages' >= TotalPages
        /\ entry' = entry + 1 /\ stage = "scan" /\ stage' = "scan"
        /\ UNCHANGED <<map, BitmapPage, clear, FreePages, held>>
        /\ map[entry].type \in BackedRam => map[entry].start + map[entry].pages <= TotalPages'
    BY <1>0, <1>m, <1>1 DEF ScanEntry, Enter
  <2>2. TypeOK'
    BY <1>0, <1>m, <2>1 DEF TypeOK
  <2>3. ScanInv'
    BY <1>0, <1>m, <2>1 DEF ScanInv, Scanned
  <2>4. PlaceInv' /\ ClearInv' /\ CountInv'
    BY <1>0, <1>m, <2>1 DEF PlaceInv, ClearInv, CountInv
  <2> QED BY <2>2, <2>3, <2>4 DEF IInv
<1>2. CASE entry > Len(map)
  <2>1. /\ UNCHANGED <<map, TotalPages, BitmapPage, clear, FreePages, held>>
        /\ entry' = 1 /\ stage = "scan" /\ stage' = "place"
    BY <1>0, <1>m, <1>2 DEF ScanEntry, Enter
  <2>2. TypeOK'
    BY <1>0, <1>m, <2>1 DEF TypeOK
  <2>3. ScanInv'
    BY <1>0, <1>m, <1>2, <2>1 DEF ScanInv, Scanned
  <2>4. PlaceInv' /\ ClearInv' /\ CountInv'
    BY <1>0, <1>m, <2>1 DEF PlaceInv, ClearInv, CountInv, Conventional
  <2> QED BY <2>2, <2>3, <2>4 DEF IInv
<1> QED BY <1>m, <1>1, <1>2

(* A step of the second loop settles where the bitmap goes. *)
LEMMA PlaceStep ==
  ASSUME IInv, PlaceBitmap
  PROVE  IInv'
<1>0. TypeOK /\ ScanInv /\ PlaceInv /\ ClearInv /\ CountInv
  BY DEF IInv
<1>m. /\ Len(map) \in Nat /\ entry \in Nat \ {0} /\ TotalPages \in Nat /\ FreePages \in Int
      /\ \A k \in 1..Len(map) : map[k].start \in Nat /\ map[k].pages \in Nat
  BY <1>0, MapFacts DEF TypeOK
<1>1. /\ UNCHANGED <<map, TotalPages, clear, FreePages, held>>
      /\ stage = "place" /\ stage' \in {"place", "clear"}
      /\ BitmapPages' = BitmapPages /\ BitmapFits' = BitmapFits
  BY <1>0, <1>m DEF PlaceBitmap, Enter, BitmapPages, BitmapFits, Conventional
<1>2. ScanInv'
  BY <1>0, <1>m, <1>1 DEF ScanInv, Scanned
<1>3. CountInv'
  BY <1>0, <1>m, <1>1 DEF CountInv
<1>4. CASE entry <= Len(map) /\ map[entry].type = EfiConventionalMemory /\ map[entry].pages >= BitmapPages
  <2>1. BitmapPage' = map[entry].start /\ entry' = 1 /\ stage' = "clear"
    BY <1>0, <1>m, <1>4 DEF PlaceBitmap, Enter
  <2>2. entry \in Conventional(map) /\ Conventional(map)' = Conventional(map)
    BY <1>0, <1>m, <1>1, <1>4 DEF Conventional
  <2>3. TypeOK' /\ PlaceInv'
    BY <1>0, <1>m, <1>1, <1>4, <2>1, <2>2 DEF PlaceInv, TypeOK
  <2>4. ClearInv'
    BY <1>0, <1>m, <1>1, <2>1 DEF ClearInv, Cleared, Conventional
  <2> QED BY <1>2, <1>3, <2>3, <2>4 DEF IInv
<1>5. CASE entry <= Len(map) /\ ~(map[entry].type = EfiConventionalMemory /\ map[entry].pages >= BitmapPages)
  <2>1. BitmapPage' = BitmapPage /\ entry' = entry + 1 /\ stage' = "place"
    BY <1>0, <1>m, <1>1, <1>5 DEF PlaceBitmap, Enter
  <2>2. TypeOK' /\ ClearInv'
    BY <1>0, <1>m, <1>1, <2>1 DEF ClearInv, TypeOK
  <2>3. PlaceInv'
    BY <1>0, <1>m, <1>1, <1>5, <2>1, BitmapPagesNat DEF PlaceInv, Conventional
  <2> QED BY <1>2, <1>3, <2>2, <2>3 DEF IInv
<1>6. CASE entry > Len(map)
  <2>1. BitmapPage' = BitmapPage /\ entry' = 1 /\ stage' = "clear"
    BY <1>0, <1>m, <1>1, <1>6 DEF PlaceBitmap, Enter
  <2>2. \A k \in Conventional(map) : map[k].pages < BitmapPages
    BY <1>0, <1>m, <1>1, <1>6 DEF PlaceInv, Conventional
  <2>3. ~BitmapFits
    BY <1>0, <1>m, <2>2, BitmapPagesNat DEF BitmapFits, Conventional
  <2>4. TypeOK' /\ PlaceInv'
    BY <1>0, <1>m, <1>1, <2>1, <2>3 DEF PlaceInv, TypeOK
  <2>5. ClearInv'
    BY <1>0, <1>m, <1>1, <2>1 DEF ClearInv, Cleared, Conventional
  <2> QED BY <1>2, <1>3, <2>4, <2>5 DEF IInv
<1> QED BY <1>m, <1>4, <1>5, <1>6

(* A step of the third loop clears one more region and counts its pages. *)
LEMMA ClearStep ==
  ASSUME IInv, ClearEntry
  PROVE  IInv'
<1>0. TypeOK /\ ScanInv /\ PlaceInv /\ ClearInv /\ CountInv
  BY DEF IInv
<1>m. /\ Len(map) \in Nat /\ entry \in Nat \ {0} /\ TotalPages \in Nat /\ FreePages \in Int
      /\ \A k \in 1..Len(map) : map[k].start \in Nat /\ map[k].pages \in Nat
  BY <1>0, MapFacts DEF TypeOK
<1>1. /\ UNCHANGED <<map, TotalPages, BitmapPage, held>>
      /\ stage = "clear" /\ stage' \in {"clear", "mark"}
      /\ BitmapFits' = BitmapFits /\ BitmapPages' = BitmapPages
  BY <1>0, <1>m DEF ClearEntry, Enter, BitmapFits, BitmapPages, Conventional
<1>2. ScanInv' /\ PlaceInv'
  BY <1>0, <1>m, <1>1 DEF ScanInv, Scanned, PlaceInv, Conventional
<1>3. CASE entry <= Len(map) /\ map[entry].type = EfiConventionalMemory
  <2>1. /\ clear' = clear \cup PagesOf(map[entry])
        /\ FreePages' = FreePages + map[entry].pages
        /\ entry' = entry + 1 /\ stage' = "clear"
    BY <1>0, <1>m, <1>1, <1>3 DEF ClearEntry
  <2>2. entry \in Conventional(map)
    BY <1>0, <1>m, <1>3 DEF Conventional
  <2>3. /\ IsFiniteSet(PagesOf(map[entry]))
        /\ Cardinality(PagesOf(map[entry])) = map[entry].pages
        /\ PagesOf(map[entry]) \subseteq Nat
    BY ZenonT(40), <1>0, <1>m, <2>2, IntervalSize DEF PagesOf, Conventional
  <2>4. clear \cap PagesOf(map[entry]) = {}
    BY <1>0, <1>m, <1>1, <2>2, ClearedStep DEF ClearInv
  <2>5. Cardinality(clear \cup PagesOf(map[entry])) = Cardinality(clear) + map[entry].pages
    <3>1. Cardinality(clear \cap PagesOf(map[entry])) = 0
      BY ZenonT(40), <1>0, <1>m, <2>4, FS_EmptySet
    <3>2. IsFiniteSet(clear) /\ Cardinality(clear) \in Nat
      BY <1>0, <1>m, FS_CardinalityType DEF CountInv
    <3>3. Cardinality(clear \cup PagesOf(map[entry])) =
            Cardinality(clear) + Cardinality(PagesOf(map[entry])) - Cardinality(clear \cap PagesOf(map[entry]))
      BY <2>3, <3>2, FS_Union
    <3>4. map[entry].pages \in Nat
      BY <1>m, <2>2 DEF Conventional
    <3> QED BY <2>3, <3>1, <3>2, <3>3, <3>4
  <2>6. TypeOK'
    <3>1. clear' \subseteq Nat
      BY ZenonT(40), <1>0, <2>1, <2>3 DEF TypeOK
    <3>2. FreePages' \in Int /\ entry' \in Nat \ {0}
      BY <1>m, <2>1, <2>2 DEF Conventional
    <3> QED BY <1>0, <1>1, <2>1, <3>1, <3>2 DEF TypeOK
  <2>7. ClearInv'
    <3>1. Cleared' = Cleared \cup PagesOf(map[entry])
      BY <1>0, <1>m, <1>1, <2>1, <2>2 DEF Cleared, Conventional
    <3> QED BY <1>0, <1>m, <1>1, <2>1, <3>1 DEF ClearInv
  <2>8. CountInv'
    <3>1. IsFiniteSet(clear')
      BY ZenonT(40), <1>0, <1>m, <2>1, <2>3, FS_Union DEF CountInv
    <3> QED BY <1>0, <1>m, <1>1, <2>1, <2>5, <3>1 DEF CountInv
  <2> QED BY <1>2, <2>6, <2>7, <2>8 DEF IInv
<1>4. CASE entry <= Len(map) /\ map[entry].type # EfiConventionalMemory
  <2>1. UNCHANGED <<clear, FreePages>> /\ entry' = entry + 1 /\ stage' = "clear"
    BY <1>0, <1>m, <1>1, <1>4 DEF ClearEntry
  <2>2. Cleared' = Cleared
    BY <1>0, <1>m, <1>1, <1>4, <2>1 DEF Cleared, Conventional
  <2>3. TypeOK' /\ ClearInv' /\ CountInv'
    BY <1>0, <1>m, <1>1, <2>1, <2>2 DEF ClearInv, CountInv, TypeOK
  <2> QED BY <1>2, <2>3 DEF IInv
<1>5. CASE entry > Len(map)
  <2>1. UNCHANGED <<clear, FreePages>> /\ entry' = 1 /\ stage' = "mark"
    BY <1>0, <1>m, <1>1, <1>5 DEF ClearEntry, Enter
  <2>2. Cleared = Usable(map)
    BY <1>0, <1>m, <1>5 DEF Cleared, Usable, Conventional
  <2>3. TypeOK' /\ ClearInv' /\ CountInv'
    BY <1>0, <1>m, <1>1, <2>1, <2>2 DEF ClearInv, CountInv, Usable, Conventional, TypeOK
  <2> QED BY <1>2, <2>3 DEF IInv
<1> QED BY <1>m, <1>3, <1>4, <1>5

(* The pages of the bitmap lie in the region it was placed in, all of them *)
(* still clear when the code takes them without testing their bits.        *)
LEMMA MarkStep ==
  ASSUME IInv, MarkBitmap
  PROVE  IInv'
<1>0. TypeOK /\ ScanInv /\ PlaceInv /\ ClearInv /\ CountInv
  BY DEF IInv
<1>m. BitmapPages \in Nat /\ \A k \in Conventional(map) : map[k].start \in Nat /\ map[k].pages \in Nat
  BY <1>0, MapFacts, BitmapPagesNat DEF Conventional
<1>1. /\ UNCHANGED <<map, TotalPages, BitmapPage, held>>
      /\ stage = "mark" /\ stage' = "reserve" /\ entry' = 1
      /\ clear' = clear \ BitmapRange /\ FreePages' = FreePages - BitmapPages
      /\ BitmapFits' = BitmapFits /\ BitmapPages' = BitmapPages /\ BitmapRange' = BitmapRange
  BY DEF MarkBitmap, Enter, BitmapFits, BitmapPages, BitmapRange, Conventional
<1>2. TypeOK'
  <2>1. FreePages' \in Int
    BY <1>0, <1>m, <1>1 DEF TypeOK
  <2>2. clear' \subseteq Nat
    BY ZenonT(40), <1>0, <1>1 DEF TypeOK
  <2> QED BY <1>0, <1>1, <2>1, <2>2 DEF TypeOK
<1>3. ScanInv' /\ PlaceInv'
  BY <1>0, <1>m, <1>1 DEF ScanInv, Scanned, PlaceInv, Conventional
<1>4. ClearInv'
  BY <1>0, <1>m, <1>1 DEF ClearInv, Usable, Conventional
<1>5. IsFiniteSet(clear) /\ FreePages = Cardinality(clear) /\ clear = Usable(map)
  BY <1>0, <1>m, <1>1 DEF CountInv, ClearInv
<1>6. IsFiniteSet(clear')
  BY <1>0, <1>m, <1>1, <1>5, FS_Subset
<1>7. ASSUME BitmapFits
      PROVE  FreePages' = Cardinality(clear')
  <2>1. PICK k \in Conventional(map) : map[k].start = BitmapPage /\ map[k].pages >= BitmapPages
    BY <1>0, <1>m, <1>1, <1>7 DEF PlaceInv
  <2>2. BitmapRange \subseteq PagesOf(map[k])
    BY <1>0, <1>m, <2>1 DEF BitmapRange, PagesOf, Conventional
  <2>3. BitmapRange \subseteq clear
    BY <1>0, <1>m, <1>5, <2>1, <2>2 DEF Usable
  <2>4. IsFiniteSet(BitmapRange) /\ Cardinality(BitmapRange) = BitmapPages
    BY <1>0, <1>m, IntervalSize DEF BitmapRange, TypeOK
  <2>5. clear \cap BitmapRange = BitmapRange
    BY <1>0, <1>m, <2>3
  <2>6. Cardinality(clear \ BitmapRange) = Cardinality(clear) - Cardinality(BitmapRange)
    <3>1. Cardinality(clear \ BitmapRange) = Cardinality(clear) - Cardinality(clear \cap BitmapRange)
      BY ZenonT(40), <1>5, FS_Difference
    <3> QED BY <2>5, <3>1
  <2> QED BY <1>1, <1>5, <2>4, <2>6
<1>8. CountInv'
  BY <1>0, <1>m, <1>1, <1>6, <1>7 DEF CountInv
<1> QED BY <1>2, <1>3, <1>4, <1>8 DEF IInv

(* The reserved pages are counted out only where they were still clear. *)
LEMMA ReserveStep ==
  ASSUME IInv, ReserveLow
  PROVE  IInv'
<1>0. TypeOK /\ ScanInv /\ PlaceInv /\ ClearInv /\ CountInv
  BY DEF IInv
<1>1. /\ UNCHANGED <<map, TotalPages, BitmapPage, held>>
      /\ stage = "reserve" /\ stage' = "run" /\ entry' = 1
      /\ clear' = clear \ ReservedRange
      /\ FreePages' = FreePages - Cardinality(clear \cap ReservedRange)
      /\ BitmapFits' = BitmapFits /\ BitmapPages' = BitmapPages
      /\ BitmapRange' = BitmapRange /\ ReservedRange' = ReservedRange
  BY DEF ReserveLow, Enter, BitmapFits, BitmapPages, BitmapRange, ReservedRange, Conventional
<1>2. IsFiniteSet(clear) /\ Cardinality(clear) \in Nat
  BY <1>0, FS_CardinalityType DEF CountInv
<1>3. /\ IsFiniteSet(clear \cap ReservedRange)
      /\ Cardinality(clear \cap ReservedRange) \in Nat
  <2>1. clear \cap ReservedRange \subseteq clear
    OBVIOUS
  <2>2. IsFiniteSet(clear \cap ReservedRange)
    BY <1>2, <2>1, FS_Subset
  <2> QED BY <2>2, FS_CardinalityType
<1>4. IsFiniteSet(clear') /\ Cardinality(clear') = Cardinality(clear) - Cardinality(clear \cap ReservedRange)
  BY ZenonT(40), <1>1, <1>2, FS_Difference
<1>5. TypeOK'
  <2>1. FreePages' \in Int
    BY <1>0, <1>1, <1>3 DEF TypeOK
  <2>2. clear' \subseteq Nat
    BY ZenonT(40), <1>0, <1>1 DEF TypeOK
  <2> QED BY <1>0, <1>1, <2>1, <2>2 DEF TypeOK
<1>6. ScanInv' /\ PlaceInv'
  BY <1>0, <1>1 DEF ScanInv, Scanned, PlaceInv, Conventional
<1>7. ClearInv'
  <2>1. clear = Usable(map) \ BitmapRange /\ held = {}
    BY <1>0, <1>1 DEF ClearInv
  <2>2. Usable(map)' = Usable(map)
    BY <1>1 DEF Usable, Conventional
  <2>3. clear' \cup held' = (Usable(map)' \ BitmapRange') \ ReservedRange'
    BY <1>1, <2>1, <2>2
  <2> QED BY <1>1, <2>1, <2>3 DEF ClearInv
<1>8. CountInv'
  BY <1>0, <1>1, <1>4 DEF CountInv
<1> QED BY <1>5, <1>6, <1>7, <1>8 DEF IInv

(* Once InitPmm is done only the sets of free and owned pages change. *)
LEMMA RunFrame ==
  ASSUME IInv, stage = "run",
         UNCHANGED <<map, stage, entry, TotalPages, BitmapPage>>,
         clear' \subseteq Nat, held' \subseteq Nat, FreePages' \in Int,
         IsFiniteSet(clear'),
         clear' \cup held' = clear \cup held,
         held' \cap clear' = {},
         BitmapFits => FreePages' = Cardinality(clear')
  PROVE  IInv'
<1>0. TypeOK /\ ScanInv /\ PlaceInv /\ ClearInv /\ CountInv
  BY DEF IInv
<1>1. /\ BitmapFits' = BitmapFits /\ BitmapPages' = BitmapPages
      /\ BitmapRange' = BitmapRange /\ ReservedRange' = ReservedRange
      /\ Usable(map)' = Usable(map)
  BY DEF BitmapFits, BitmapPages, BitmapRange, ReservedRange, Usable, Conventional
<1>2. TypeOK'
  BY <1>0 DEF TypeOK
<1>3. ScanInv' /\ PlaceInv'
  BY <1>0, <1>1 DEF ScanInv, Scanned, PlaceInv, Conventional
<1>4. ClearInv'
  BY <1>0, <1>1 DEF ClearInv
<1>5. CountInv'
  BY <1>1 DEF CountInv
<1> QED BY <1>2, <1>3, <1>4, <1>5 DEF IInv

(* Taking a clear page moves it from the free pages to the owned ones. *)
LEMMA TakeStep ==
  ASSUME IInv, NEW p \in clear, stage = "run", Take(p)
  PROVE  IInv'
<1>0. TypeOK /\ ClearInv /\ CountInv
  BY DEF IInv
<1>1. IsFiniteSet(clear') /\ Cardinality(clear') = Cardinality(clear) - 1
  BY <1>0, FS_RemoveElement DEF Take, CountInv
<1>2. clear' \subseteq Nat /\ held' \subseteq Nat /\ FreePages' \in Int
  BY <1>0 DEF Take, TypeOK
<1>3. clear' \cup held' = clear \cup held /\ held' \cap clear' = {}
  BY <1>0 DEF Take, ClearInv
<1>4. BitmapFits => FreePages' = Cardinality(clear')
  BY <1>0, <1>1 DEF Take, CountInv
<1> QED BY <1>1, <1>2, <1>3, <1>4, RunFrame DEF Take

(* An owned page has its bit set, so freeing it always counts. *)
LEMMA FreeStep ==
  ASSUME IInv, NEW p \in held, FreePage(p)
  PROVE  IInv'
<1>0. TypeOK /\ ClearInv /\ CountInv
  BY DEF IInv
<1>1. p \notin clear /\ stage = "run"
  BY <1>0 DEF FreePage, ClearInv
<1>2. /\ clear' = clear \cup {p} /\ FreePages' = FreePages + 1 /\ held' = held \ {p}
      /\ UNCHANGED <<map, stage, entry, TotalPages, BitmapPage>>
  BY <1>1 DEF FreePage
<1>3. IsFiniteSet(clear') /\ Cardinality(clear') = Cardinality(clear) + 1
  BY <1>0, <1>1, <1>2, FS_AddElement DEF CountInv
<1>4. clear' \subseteq Nat /\ held' \subseteq Nat /\ FreePages' \in Int
  BY <1>0, <1>2 DEF TypeOK
<1>5. clear' \cup held' = clear \cup held /\ held' \cap clear' = {}
  BY <1>0, <1>2 DEF ClearInv
<1>6. BitmapFits => FreePages' = Cardinality(clear')
  BY <1>0, <1>1, <1>2, <1>3 DEF CountInv
<1> QED BY <1>1, <1>2, <1>3, <1>4, <1>5, <1>6, RunFrame

(* Each loop of InitPmm and each call of the allocator keeps the bitmap    *)
(* and the counter in step with the map.                                   *)
THEOREM StepInv == IInv /\ [Next]_vars => IInv'
<1> SUFFICES ASSUME IInv, [Next]_vars PROVE IInv'
  OBVIOUS
<1>1. CASE InitPmm
  BY <1>1, ScanStep, PlaceStep, ClearStep, MarkStep, ReserveStep DEF InitPmm
<1>2. ASSUME NEW p \in clear, AllocPage(p) \/ AllocPageBelow4G(p) PROVE IInv'
  BY <1>2, TakeStep DEF AllocPage, AllocPageBelow4G
<1>3. ASSUME NEW p \in held, FreePage(p) PROVE IInv'
  BY <1>3, FreeStep
<1>4. CASE UNCHANGED vars
  <2>0. TypeOK /\ ScanInv /\ PlaceInv /\ ClearInv /\ CountInv
    BY DEF IInv
  <2>1. TypeOK' /\ CountInv'
    BY <1>4, <2>0 DEF vars, TypeOK, CountInv, BitmapFits, BitmapPages, Conventional
  <2>2. ScanInv' /\ PlaceInv'
    BY <1>4, <2>0 DEF vars, ScanInv, Scanned, PlaceInv, BitmapFits, BitmapPages, Conventional
  <2>3. ClearInv'
    BY <1>4, <2>0 DEF vars, ClearInv, Cleared, Usable, Conventional, BitmapRange, ReservedRange, BitmapPages
  <2> QED BY <2>1, <2>2, <2>3 DEF IInv
<1> QED BY <1>1, <1>2, <1>3, <1>4 DEF Next

(* No allocation ever returns memory that is not usable, the bitmap's own  *)
(* pages, or a reserved low page.                                          *)
LEMMA PoolIsSafe == ASSUME IInv PROVE HandedOutIsSafe
<1>0. TypeOK /\ ScanInv /\ ClearInv
  BY DEF IInv
<1>1. CASE stage # "run"
  BY <1>0, <1>1 DEF ClearInv, HandedOutIsSafe
<1>2. CASE stage = "run"
  <2>1. held \subseteq (Usable(map) \ BitmapRange) \ ReservedRange
    BY <1>0, <1>2 DEF ClearInv
  <2>2. ASSUME NEW p \in held PROVE p < TotalPages
    <3>1. PICK k \in Conventional(map) : p \in PagesOf(map[k])
      BY <2>1 DEF Usable
    <3>2. k \in 1..Len(map) /\ map[k].type \in BackedRam
      BY <3>1 DEF Conventional, BackedRam, EfiConventionalMemory
    <3>3. map[k].start + map[k].pages <= TotalPages
      BY <1>0, <1>2, <3>2 DEF ScanInv, Scanned
    <3>4. map[k].start \in Nat /\ map[k].pages \in Nat /\ TotalPages \in Nat
      BY <1>0, <3>2, MapFacts DEF TypeOK
    <3> QED BY <3>1, <3>3, <3>4 DEF PagesOf
  <2>3. held \cap clear = {}
    BY <1>0 DEF ClearInv
  <2> QED BY <2>1, <2>2, <2>3 DEF HandedOutIsSafe
<1> QED BY <1>1, <1>2

(* The free page counter is exact, and no usable page is lost.             *)
LEMMA PoolIsCounted == ASSUME IInv PROVE PagesAccounted
BY DEF IInv, CountInv, ClearInv, TypeOK, PagesAccounted, FreeCountExact, NoPageLost

------------------------------------------------------------------------------
(* The boot loader.                                                         *)

(* The loader has the kernel once the stages are over; a map it is about   *)
(* to leave with is whole, and current if its key is; and the attempts     *)
(* have ended well just when the firmware is gone.                         *)
LoaderInv ==
  /\ L!TypeOK
  /\ current \in Nat /\ descriptors \in Nat
  /\ KernelLoaded \in BOOLEAN /\ services \in BOOLEAN
  /\ pc \in {"stages", "size", "allocate", "map", "exit"} => Attempt < MaxExitAttempts
  /\ pc = "stages" /\ Stage = RING_SEGMENTS => KernelLoaded
  /\ pc \notin {"stages", "hang"} => KernelLoaded
  /\ pc \notin {"exited", "kernel"} => services
  /\ pc = "exit" => MemMap = MapKey /\ (MapKey = current => MemMapSize = descriptors)
  /\ pc = "exited" /\ Status = "success" => ~services
  /\ pc = "exited" /\ Status # "success" => services
  /\ pc = "kernel" => ~services
  /\ ~services => MemMap = current /\ MemMapSize = descriptors

LEMMA LoaderBounds ==
  /\ MaxExitAttempts \in Nat /\ MaxExitAttempts > 0 /\ RING_SEGMENTS \in Nat /\ RING_SEGMENTS > 0
  /\ Slack \in Nat /\ MaxChanges \in Nat
BY BootConstants DEF L!LoaderConstants

LEMMA LoaderStart ==
  ASSUME L!Init PROVE LoaderInv
<1>1. services /\ services \in BOOLEAN /\ KernelLoaded \in BOOLEAN
  BY ZenonT(40) DEF L!Init
<1> QED BY <1>1, LoaderBounds DEF L!Init, LoaderInv, L!TypeOK

LEMMA LoaderStep ==
  ASSUME LoaderInv, L!Next PROVE LoaderInv'
<1> USE LoaderBounds DEF LoaderInv, L!TypeOK
<1>1. CASE L!RunStage
  <2>1. (pc = "stages" /\ Stage = RING_SEGMENTS => KernelLoaded)' /\ (KernelLoaded \in BOOLEAN)'
    BY ZenonT(40), <1>1 DEF L!RunStage, L!Halted
  <2> QED BY <1>1, <2>1 DEF L!RunStage, L!Halted, L!Changed
<1>2. CASE L!StagesComplete
  BY <1>2 DEF L!StagesComplete, L!loader, L!firmware
<1>3. CASE L!GetMapSize
  BY <1>3 DEF L!GetMapSize, L!firmware
<1>4. CASE L!AllocatePool
  BY <1>4 DEF L!AllocatePool, L!Halted, L!Changed
<1>5. CASE L!GetMemoryMap
  BY <1>5 DEF L!GetMemoryMap, L!NextAttempt, L!firmware
<1>6. CASE L!ExitBootServices
  <2>1. CASE MapKey = current
    <3>1. ~services' /\ services' \in BOOLEAN
      BY ZenonT(40), <1>6, <2>1 DEF L!ExitBootServices
    <3> QED BY <1>6, <2>1, <3>1 DEF L!ExitBootServices, L!firmware
  <2>2. CASE MapKey # current
    <3>1. services' /\ services' \in BOOLEAN /\ KernelLoaded'
      BY ZenonT(40), <1>6, <2>2 DEF L!ExitBootServices
    <3> QED BY <1>6, <2>2, <3>1 DEF L!ExitBootServices, L!NextAttempt, L!firmware
  <2> QED BY <2>1, <2>2
<1>7. CASE L!KernelMain
  BY <1>7 DEF L!KernelMain, L!loader, L!firmware
<1>8. CASE L!MapChanges
  BY <1>8 DEF L!MapChanges, L!Changed, L!loader
<1> QED BY <1>1, <1>2, <1>3, <1>4, <1>5, <1>6, <1>7, <1>8 DEF L!Next, L!Steps

LEMMA LoaderStill ==
  ASSUME LoaderInv, UNCHANGED loader PROVE LoaderInv'
BY DEF LoaderInv, L!TypeOK, loader

------------------------------------------------------------------------------
(* The verbs of the sound codec.                                           *)

(* A ring of n places of which those after `from` up to `to` are filled:   *)
(* how far a place is from `from`, and which are filled.                   *)
Dist(from, s, n) == IF s > from THEN s - from ELSE (s + n) - from

Filled(from, to, n) ==
  {s \in 0..(n - 1) : from # to /\ Dist(from, s, n) <= Dist(from, to, n)}

Succ(s, n) == IF s + 1 = n THEN 0 ELSE s + 1

LEMMA SuccIsNext ==
  ASSUME NEW n \in Nat, n > 1, NEW s \in 0..(n - 1)
  PROVE  (s + 1) % n = Succ(s, n) /\ Succ(s, n) \in 0..(n - 1)
<1>1. CASE s + 1 < n
  <2>1. (s + 1) % n = s + 1
    BY <1>1
  <2> QED BY <1>1, <2>1 DEF Succ
<1>2. CASE s + 1 = n
  <2>1. (s + 1) % n = 0
    BY <1>2
  <2> QED BY <1>2, <2>1 DEF Succ
<1> QED BY <1>1, <1>2

(* One place more at the end: the others stay, and it is the last.         *)
LEMMA Push ==
  ASSUME NEW n \in Nat, n > 1, NEW from \in 0..(n - 1), NEW to \in 0..(n - 1)
  PROVE  LET new == Succ(to, n)
         IN  /\ new = from => Filled(from, new, n) = {}
             /\ new # from =>
                  /\ Filled(from, new, n) = Filled(from, to, n) \cup {new}
                  /\ new \notin Filled(from, to, n)
                  /\ \A s \in Filled(from, to, n) : Dist(from, s, n) < Dist(from, new, n)
BY DEF Filled, Dist, Succ

(* One place less at the front: the order of the others stays.             *)
LEMMA Pop ==
  ASSUME NEW n \in Nat, n > 1, NEW from \in 0..(n - 1), NEW to \in 0..(n - 1), from # to
  PROVE  LET first == Succ(from, n)
         IN  /\ first \in Filled(from, to, n)
             /\ Filled(first, to, n) = Filled(from, to, n) \ {first}
             /\ \A s \in Filled(first, to, n) :
                  /\ Dist(from, first, n) < Dist(from, s, n)
                  /\ Dist(first, s, n) = Dist(from, s, n) - 1
BY DEF Filled, Dist, Succ

------------------------------------------------------------------------------

VerbsUnderWay == Filled(corbRp, CorbWritePos, CorbEntries)
Responses == Filled(RirbReadPos, rirbWp, RirbEntries)

VerbTypes ==
  /\ V!TypeOK
  /\ corbPc \in {"idle", "wait"}
  /\ Corb \in [0..(CorbEntries - 1) -> 0..MaxVerbs]
  /\ Rirb \in [0..(RirbEntries - 1) -> 0..MaxVerbs]
  /\ used \in Seq(0..MaxVerbs)

(* With a prompt codec there is one answer under way at the most: the last *)
(* verb's, as a verb that was not taken yet or as a response.              *)
OneUnderWay ==
  /\ corbPc = "idle" => answer = verb /\ VerbsUnderWay = {} /\ \A s \in Responses : Rirb[s] = 0
  /\ \A c \in VerbsUnderWay : Corb[c] = verb /\ \A s \in Responses : Rirb[s] = 0
  /\ \A c, d \in VerbsUnderWay : c = d
  /\ \A s \in Responses : Rirb[s] \in {0, verb}
  /\ \A s, t \in Responses : Rirb[s] # 0 /\ Rirb[t] # 0 => s = t

PromptInv == codecKind = "prompt" => OneUnderWay

(* What was returned, what waits to be read and what waits to be answered  *)
(* are in the order of the verbs.                                          *)
VerbsInOrder ==
  /\ V!AnswersInOrder
  /\ \A j \in DOMAIN used, s \in Responses : Rirb[s] # 0 => used[j] < Rirb[s]
  /\ \A s, t \in Responses :
       Rirb[t] # 0 /\ Dist(RirbReadPos, s, RirbEntries) < Dist(RirbReadPos, t, RirbEntries)
         => Rirb[s] < Rirb[t]
  /\ \A j \in DOMAIN used, c \in VerbsUnderWay : used[j] < Corb[c]
  /\ \A s \in Responses, c \in VerbsUnderWay : Rirb[s] < Corb[c]
  /\ \A c, d \in VerbsUnderWay :
       Dist(corbRp, c, CorbEntries) < Dist(corbRp, d, CorbEntries) => Corb[c] < Corb[d]
  /\ \A j \in DOMAIN used : used[j] <= verb
  /\ \A s \in Responses : Rirb[s] <= verb
  /\ \A c \in VerbsUnderWay : Corb[c] > 0 /\ Corb[c] <= verb

VerbsInv == VerbTypes /\ PromptInv /\ VerbsInOrder

LEMMA RingFacts ==
  ASSUME V!CorbConstants, VerbTypes
  PROVE  /\ CorbEntries \in Nat /\ CorbEntries > 1 /\ RirbEntries \in Nat /\ RirbEntries > 1
         /\ corbRp \in 0..(CorbEntries - 1) /\ CorbWritePos \in 0..(CorbEntries - 1)
         /\ RirbReadPos \in 0..(RirbEntries - 1) /\ rirbWp \in 0..(RirbEntries - 1)
         /\ (CorbWritePos + 1) % CorbEntries = Succ(CorbWritePos, CorbEntries)
         /\ (corbRp + 1) % CorbEntries = Succ(corbRp, CorbEntries)
         /\ V!AfterRead = Succ(RirbReadPos, RirbEntries)
         /\ V!AfterWrite = Succ(rirbWp, RirbEntries)
         /\ Succ(CorbWritePos, CorbEntries) \in 0..(CorbEntries - 1)
         /\ Succ(corbRp, CorbEntries) \in 0..(CorbEntries - 1)
         /\ Succ(RirbReadPos, RirbEntries) \in 0..(RirbEntries - 1)
         /\ Succ(rirbWp, RirbEntries) \in 0..(RirbEntries - 1)
BY ZenonT(40), SuccIsNext DEF V!CorbConstants, VerbTypes, V!TypeOK, V!AfterRead, V!AfterWrite

LEMMA FilledIsPlaces ==
  ASSUME NEW from, NEW to, NEW n
  PROVE  Filled(from, to, n) \subseteq 0..(n - 1)
BY DEF Filled

LEMMA VerbsStart ==
  ASSUME V!CorbConstants, V!Init
  PROVE  VerbsInv
<1>1. VerbTypes
  BY DEF V!CorbConstants, V!Init, VerbTypes, V!TypeOK
<1>2. VerbsUnderWay = {} /\ Responses = {}
  BY DEF V!Init, VerbsUnderWay, Responses, Filled
<1>3. PromptInv
  BY <1>2 DEF V!Init, PromptInv, OneUnderWay
<1>4. VerbsInOrder
  BY <1>2 DEF V!Init, VerbsInOrder, V!AnswersInOrder
<1> QED BY <1>1, <1>3, <1>4 DEF VerbsInv

LEMMA StepVerbTypes ==
  ASSUME V!CorbConstants, VerbTypes, [V!Next]_(V!vars)
  PROVE  VerbTypes'
<1>a. /\ CorbEntries \in Nat /\ RirbEntries \in Nat /\ MaxVerbs \in Nat
      /\ (CorbWritePos + 1) % CorbEntries \in 0..(CorbEntries - 1)
      /\ (corbRp + 1) % CorbEntries \in 0..(CorbEntries - 1)
      /\ V!AfterRead \in 0..(RirbEntries - 1) /\ V!AfterWrite \in 0..(RirbEntries - 1)
  BY RingFacts DEF V!CorbConstants
<1>b. V!Response \in 0..MaxVerbs
  BY <1>a DEF VerbTypes, V!Response
<1>1. CASE V!SendVerb
  <2>1. verb + 1 \in 0..MaxVerbs
    BY <1>1, <1>a DEF V!SendVerb, VerbTypes, V!TypeOK
  <2>2. Corb' \in [0..(CorbEntries - 1) -> 0..MaxVerbs]
    BY ZenonT(40), <1>1, <2>1 DEF V!SendVerb, VerbTypes
  <2> QED BY ZenonT(40), <1>1, <1>a, <2>1, <2>2 DEF V!SendVerb, VerbTypes, V!TypeOK
<1>2. CASE V!TakeResponse
  <2>1. used' \in Seq(0..MaxVerbs) /\ answer' \in 0..MaxVerbs
    <3>1. used \in Seq(0..MaxVerbs) /\ answer \in 0..MaxVerbs
      BY DEF VerbTypes, V!TypeOK
    <3>2. Append(used, V!Response) \in Seq(0..MaxVerbs)
      BY <1>b, <3>1
    <3> QED BY ZenonT(40), <1>2, <1>b, <3>1, <3>2 DEF V!TakeResponse
  <2> QED BY ZenonT(40), <1>2, <1>a, <2>1 DEF V!TakeResponse, VerbTypes, V!TypeOK
<1>3. CASE V!TimeOut
  BY <1>3, <1>a DEF V!TimeOut, VerbTypes, V!TypeOK
<1>4. CASE V!Answer
  <2>1. Corb[corbRp'] \in 0..MaxVerbs /\ Corb' = Corb
    BY <1>4, <1>a DEF V!Answer, VerbTypes, V!sender
  <2>2. Rirb' \in [0..(RirbEntries - 1) -> 0..MaxVerbs]
    BY ZenonT(40), <1>4, <2>1 DEF V!Answer, V!Respond, VerbTypes
  <2> QED BY ZenonT(40), <1>4, <1>a, <2>2 DEF V!Answer, V!Respond, V!sender, VerbTypes, V!TypeOK
<1>5. CASE V!Unsolicited
  <2>1. Rirb' \in [0..(RirbEntries - 1) -> 0..MaxVerbs]
    BY <1>5, <1>a DEF V!Unsolicited, V!Respond, VerbTypes
  <2> QED BY ZenonT(40), <1>5, <1>a, <2>1 DEF V!Unsolicited, V!Respond, V!sender, VerbTypes, V!TypeOK
<1>6. CASE UNCHANGED V!vars
  BY <1>6 DEF V!vars, V!sender, VerbTypes, V!TypeOK
<1> QED BY <1>1, <1>2, <1>3, <1>4, <1>5, <1>6 DEF V!Next

(* What a step does to the two rings.                                      *)
LEMMA SendVerbRings ==
  ASSUME V!CorbConstants, VerbTypes, V!SendVerb
  PROVE  LET new == Succ(CorbWritePos, CorbEntries)
         IN  /\ Responses' = Responses /\ Rirb' = Rirb /\ RirbReadPos' = RirbReadPos
             /\ corbRp' = corbRp
             /\ VerbsUnderWay' = {} \/ (VerbsUnderWay' = VerbsUnderWay \cup {new} /\ new \notin VerbsUnderWay)
             /\ \A c \in VerbsUnderWay' \ {new} :
                  /\ c \in VerbsUnderWay /\ Corb'[c] = Corb[c]
                  /\ Dist(corbRp, c, CorbEntries) < Dist(corbRp, new, CorbEntries)
             /\ Corb'[new] = verb + 1
<1> DEFINE new == Succ(CorbWritePos, CorbEntries)
<1> USE RingFacts
<1>1. Responses' = Responses /\ Rirb' = Rirb /\ RirbReadPos' = RirbReadPos /\ corbRp' = corbRp
  BY DEF V!SendVerb, Responses
<1>2. CorbWritePos' = new /\ Corb' = [Corb EXCEPT ![new] = verb + 1]
  BY ZenonT(40) DEF V!SendVerb
<1>3. VerbsUnderWay' = Filled(corbRp, new, CorbEntries)
  BY <1>1, <1>2 DEF VerbsUnderWay
<1>4. Corb'[new] = verb + 1 /\ \A c \in 0..(CorbEntries - 1) : c # new => Corb'[c] = Corb[c]
  BY <1>2 DEF VerbTypes
<1>5. VerbsUnderWay \subseteq 0..(CorbEntries - 1)
  BY FilledIsPlaces DEF VerbsUnderWay
<1>6. CASE new = corbRp
  <2>1. VerbsUnderWay' = {}
    BY <1>3, <1>6, Push
  <2> QED BY <1>1, <1>4, <2>1
<1>7. CASE new # corbRp
  <2>1. /\ VerbsUnderWay' = VerbsUnderWay \cup {new} /\ new \notin VerbsUnderWay
        /\ \A c \in VerbsUnderWay : Dist(corbRp, c, CorbEntries) < Dist(corbRp, new, CorbEntries)
    BY <1>3, <1>7, Push DEF VerbsUnderWay
  <2> QED BY <1>1, <1>4, <1>5, <2>1
<1> QED BY <1>6, <1>7

LEMMA TakeResponseRings ==
  ASSUME V!CorbConstants, VerbTypes, V!TakeResponse
  PROVE  /\ VerbsUnderWay' = VerbsUnderWay /\ Corb' = Corb /\ Rirb' = Rirb /\ corbRp' = corbRp
         /\ V!AfterRead \in Responses
         /\ Responses' = Responses \ {V!AfterRead}
         /\ \A s \in Responses' :
              /\ Dist(RirbReadPos, V!AfterRead, RirbEntries) < Dist(RirbReadPos, s, RirbEntries)
              /\ Dist(RirbReadPos', s, RirbEntries) = Dist(RirbReadPos, s, RirbEntries) - 1
<1> USE RingFacts
<1>1. VerbsUnderWay' = VerbsUnderWay /\ Corb' = Corb /\ Rirb' = Rirb /\ corbRp' = corbRp /\ rirbWp' = rirbWp
  BY DEF V!TakeResponse, VerbsUnderWay
<1>2. RirbReadPos' = V!AfterRead /\ RirbReadPos # rirbWp
  BY DEF V!TakeResponse, V!Waiting
<1>3. Responses' = Filled(V!AfterRead, rirbWp, RirbEntries)
  BY <1>1, <1>2 DEF Responses
<1> QED BY <1>1, <1>2, <1>3, Pop DEF Responses

LEMMA RespondRings ==
  ASSUME V!CorbConstants, VerbTypes, NEW r, V!Respond(r), UNCHANGED RirbReadPos
  PROVE  /\ Responses' = Responses \cup {V!AfterWrite} /\ V!AfterWrite \notin Responses
         /\ Rirb'[V!AfterWrite] = r
         /\ \A s \in Responses :
              /\ Rirb'[s] = Rirb[s]
              /\ Dist(RirbReadPos, s, RirbEntries) < Dist(RirbReadPos, V!AfterWrite, RirbEntries)
<1> USE RingFacts
<1>1. V!AfterWrite # RirbReadPos /\ rirbWp' = V!AfterWrite /\ Rirb' = [Rirb EXCEPT ![V!AfterWrite] = r]
  BY DEF V!Respond
<1>2. Responses' = Filled(RirbReadPos, V!AfterWrite, RirbEntries)
  BY <1>1 DEF Responses
<1>3. /\ Responses' = Responses \cup {V!AfterWrite} /\ V!AfterWrite \notin Responses
      /\ \A s \in Responses : Dist(RirbReadPos, s, RirbEntries) < Dist(RirbReadPos, V!AfterWrite, RirbEntries)
  BY <1>1, <1>2, Push DEF Responses
<1>4. Responses \subseteq 0..(RirbEntries - 1)
  BY FilledIsPlaces DEF Responses
<1>5. Rirb'[V!AfterWrite] = r /\ \A s \in 0..(RirbEntries - 1) : s # V!AfterWrite => Rirb'[s] = Rirb[s]
  BY <1>1 DEF VerbTypes
<1> QED BY <1>3, <1>4, <1>5

LEMMA AnswerRings ==
  ASSUME V!CorbConstants, VerbTypes, V!Answer
  PROVE  LET first == Succ(corbRp, CorbEntries)
         IN  /\ Corb' = Corb /\ RirbReadPos' = RirbReadPos
             /\ first \in VerbsUnderWay
             /\ VerbsUnderWay' = VerbsUnderWay \ {first}
             /\ V!Respond(Corb[first])
             /\ \A c \in VerbsUnderWay' :
                  /\ Dist(corbRp, first, CorbEntries) < Dist(corbRp, c, CorbEntries)
                  /\ Dist(corbRp', c, CorbEntries) = Dist(corbRp, c, CorbEntries) - 1
<1> DEFINE first == Succ(corbRp, CorbEntries)
<1> USE RingFacts
<1>1. corbRp # CorbWritePos /\ corbRp' = first /\ UNCHANGED V!sender
  BY DEF V!Answer
<1>2. Corb' = Corb /\ RirbReadPos' = RirbReadPos /\ CorbWritePos' = CorbWritePos
  BY <1>1 DEF V!sender
<1>3. V!Respond(Corb[first])
  BY ZenonT(40), <1>1 DEF V!Answer, V!Respond
<1>4. VerbsUnderWay' = Filled(first, CorbWritePos, CorbEntries)
  BY <1>1, <1>2 DEF VerbsUnderWay
<1> QED BY <1>1, <1>2, <1>3, <1>4, Pop DEF VerbsUnderWay

LEMMA StepPrompt ==
  ASSUME V!CorbConstants, VerbTypes, PromptInv, [V!Next]_(V!vars)
  PROVE  PromptInv'
<1> SUFFICES ASSUME codecKind' = "prompt" PROVE OneUnderWay'
  BY DEF PromptInv
<1>0. codecKind = "prompt" /\ OneUnderWay
  BY DEF V!Next, V!vars, V!SendVerb, V!TakeResponse, V!TimeOut, V!Answer, V!Unsolicited, PromptInv
<1> USE DEF OneUnderWay
<1>1. CASE V!SendVerb
  <2>1. corbPc = "idle" /\ corbPc' = "wait" /\ verb' = verb + 1
    BY <1>1 DEF V!SendVerb
  <2> QED BY <1>0, <1>1, <2>1, SendVerbRings
<1>2. CASE V!TakeResponse
  <2>1. CASE V!Response = 0
    <3>1. UNCHANGED <<corbPc, answer, verb>>
      BY <1>2, <2>1 DEF V!TakeResponse
    <3> QED BY <1>0, <1>2, <3>1, TakeResponseRings
  <2>2. CASE V!Response # 0
    <3>1. answer' = V!Response /\ corbPc' = "idle" /\ verb' = verb
      BY <1>2, <2>2 DEF V!TakeResponse
    <3>2. V!AfterRead \in Responses /\ Rirb[V!AfterRead] # 0
      BY <1>2, <2>2, TakeResponseRings DEF V!Response
    <3>3. Rirb[V!AfterRead] = verb /\ VerbsUnderWay = {} /\ \A s \in Responses \ {V!AfterRead} : Rirb[s] = 0
      BY <1>0, <3>2
    <3> QED BY <1>2, <3>1, <3>3, TakeResponseRings DEF V!Response
  <2> QED BY <2>1, <2>2
<1>3. CASE V!TimeOut
  BY <1>0, <1>3 DEF V!TimeOut
<1>4. CASE V!Answer
  <2> DEFINE first == Succ(corbRp, CorbEntries)
  <2>1. UNCHANGED <<corbPc, answer, verb>>
    BY <1>4 DEF V!Answer, V!sender
  <2>2. first \in VerbsUnderWay /\ Corb[first] = verb /\ VerbsUnderWay' = {} /\ \A s \in Responses : Rirb[s] = 0
    BY <1>0, <1>4, AnswerRings
  <2>3. corbPc # "idle"
    BY <1>0, <2>2
  <2>4. /\ Responses' = Responses \cup {V!AfterWrite}
        /\ Rirb'[V!AfterWrite] = verb /\ \A s \in Responses : Rirb'[s] = Rirb[s]
    BY <1>4, <2>2, AnswerRings, RespondRings
  <2> QED BY <2>1, <2>2, <2>3, <2>4
<1>5. CASE V!Unsolicited
  <2>1. UNCHANGED <<corbPc, answer, verb, Corb, CorbWritePos, corbRp, RirbReadPos>>
    BY <1>5 DEF V!Unsolicited, V!sender
  <2>2. VerbsUnderWay' = VerbsUnderWay
    BY <2>1 DEF VerbsUnderWay
  <2>3. /\ Responses' = Responses \cup {V!AfterWrite}
        /\ Rirb'[V!AfterWrite] = 0 /\ \A s \in Responses : Rirb'[s] = Rirb[s]
    BY <1>5, <2>1, RespondRings DEF V!Unsolicited
  <2> QED BY <1>0, <2>1, <2>2, <2>3
<1>6. CASE UNCHANGED V!vars
  <2>1. UNCHANGED <<VerbsUnderWay, Responses, Corb, Rirb, corbPc, answer, verb>>
    BY <1>6 DEF V!vars, V!sender, VerbsUnderWay, Responses
  <2> QED BY <1>0, <2>1
<1> QED BY <1>1, <1>2, <1>3, <1>4, <1>5, <1>6 DEF V!Next

(* The parts of InOrder as a step finds them and leaves them.              *)
LEMMA StepInOrder ==
  ASSUME V!CorbConstants, VerbTypes, VerbsInOrder, [V!Next]_(V!vars)
  PROVE  VerbsInOrder'
<1>0. /\ verb \in Nat /\ used \in Seq(0..MaxVerbs) /\ MaxVerbs \in Nat
      /\ \A j \in DOMAIN used : used[j] \in Nat
      /\ \A s \in Responses : Rirb[s] \in Nat /\ Dist(RirbReadPos, s, RirbEntries) \in Int
      /\ \A c \in VerbsUnderWay : Corb[c] \in Nat /\ Dist(corbRp, c, CorbEntries) \in Int
  <2>1. RirbReadPos \in Int /\ corbRp \in Int /\ RirbEntries \in Int /\ CorbEntries \in Int
    BY RingFacts
  <2>2. Responses \subseteq 0..(RirbEntries - 1) /\ VerbsUnderWay \subseteq 0..(CorbEntries - 1)
    BY FilledIsPlaces DEF Responses, VerbsUnderWay
  <2>3. \A s \in 0..(RirbEntries - 1) : Rirb[s] \in Nat /\ Dist(RirbReadPos, s, RirbEntries) \in Int
    BY <2>1 DEF VerbTypes, V!CorbConstants, Dist
  <2>4. \A c \in 0..(CorbEntries - 1) : Corb[c] \in Nat /\ Dist(corbRp, c, CorbEntries) \in Int
    BY <2>1 DEF VerbTypes, V!CorbConstants, Dist
  <2>5. used \in Seq(0..MaxVerbs) /\ verb \in Nat /\ MaxVerbs \in Nat
    BY DEF VerbTypes, V!TypeOK, V!CorbConstants
  <2>6. \A j \in DOMAIN used : used[j] \in Nat
    BY <2>5
  <2> QED BY <2>2, <2>3, <2>4, <2>5, <2>6
<1> USE DEF VerbsInOrder, V!AnswersInOrder
<1>1. CASE V!SendVerb
  <2> DEFINE new == Succ(CorbWritePos, CorbEntries)
  <2>1. verb' = verb + 1 /\ used' = used
    BY <1>1 DEF V!SendVerb
  <2>2. /\ Responses' = Responses /\ Rirb' = Rirb /\ RirbReadPos' = RirbReadPos /\ corbRp' = corbRp
        /\ \A c \in VerbsUnderWay' \ {new} :
             /\ c \in VerbsUnderWay /\ Corb'[c] = Corb[c]
             /\ Dist(corbRp, c, CorbEntries) < Dist(corbRp, new, CorbEntries)
        /\ Corb'[new] = verb + 1
        /\ new \in VerbsUnderWay' \/ VerbsUnderWay' = {}
    BY <1>1, SendVerbRings
  <2>3. /\ \A j \in DOMAIN used, c \in VerbsUnderWay' : used[j] < Corb'[c]
        /\ \A s \in Responses, c \in VerbsUnderWay' : Rirb[s] < Corb'[c]
        /\ \A c \in VerbsUnderWay' : Corb'[c] > 0 /\ Corb'[c] <= verb + 1
    BY SMTT(80), <1>0, <2>2
  <2>4. \A c, d \in VerbsUnderWay' :
          Dist(corbRp, c, CorbEntries) < Dist(corbRp, d, CorbEntries) => Corb'[c] < Corb'[d]
    <3> SUFFICES ASSUME NEW c \in VerbsUnderWay', NEW d \in VerbsUnderWay',
                        Dist(corbRp, c, CorbEntries) < Dist(corbRp, d, CorbEntries)
                 PROVE  Corb'[c] < Corb'[d]
      OBVIOUS
    <3>1. CASE c # new /\ d # new
      BY <2>2, <3>1
    <3>2. CASE d = new /\ c # new
      <4>1. c \in VerbsUnderWay /\ Corb'[c] = Corb[c] /\ Corb[c] <= verb /\ Corb[c] \in Nat
        BY <1>0, <2>2, <3>2
      <4> QED BY <1>0, <2>2, <3>2, <4>1
    <3>3. CASE c = new
      <4>1. d = new \/ (Dist(corbRp, d, CorbEntries) \in Int /\ Dist(corbRp, d, CorbEntries) < Dist(corbRp, new, CorbEntries))
        BY <1>0, <2>2
      <4>2. Dist(corbRp, new, CorbEntries) \in Int
        BY RingFacts DEF Dist
      <4> QED BY <3>3, <4>1, <4>2
    <3> QED BY <3>1, <3>2, <3>3
  <2>5. \A j \in DOMAIN used : used[j] <= verb + 1
    BY <1>0
  <2>6. \A s \in Responses : Rirb[s] <= verb + 1
    BY <1>0
  <2> QED BY <2>1, <2>2, <2>3, <2>4, <2>5, <2>6
<1>2. CASE V!TakeResponse
  <2>1. /\ VerbsUnderWay' = VerbsUnderWay /\ Corb' = Corb /\ Rirb' = Rirb /\ corbRp' = corbRp /\ verb' = verb
        /\ V!AfterRead \in Responses /\ Responses' = Responses \ {V!AfterRead}
        /\ \A s \in Responses' :
             /\ Dist(RirbReadPos, V!AfterRead, RirbEntries) < Dist(RirbReadPos, s, RirbEntries)
             /\ Dist(RirbReadPos', s, RirbEntries) = Dist(RirbReadPos, s, RirbEntries) - 1
    BY <1>2, TakeResponseRings DEF V!TakeResponse
  <2>2. \A s, t \in Responses' :
          Rirb[t] # 0 /\ Dist(RirbReadPos', s, RirbEntries) < Dist(RirbReadPos', t, RirbEntries)
            => Rirb[s] < Rirb[t]
    BY <1>0, <2>1
  <2>3. CASE used' = used
    BY <2>1, <2>2, <2>3
  <2>4. CASE V!Response # 0 /\ used' = Append(used, V!Response)
    <3>1. V!Response = Rirb[V!AfterRead] /\ V!Response \in Nat /\ V!Response <= verb
      BY <1>0, <2>1 DEF V!Response
    <3>2. /\ DOMAIN used' = 1..(Len(used) + 1) /\ DOMAIN used = 1..Len(used) /\ Len(used) \in Nat
          /\ used'[Len(used) + 1] = V!Response
          /\ \A j \in DOMAIN used : used'[j] = used[j]
      BY <1>0, <2>4
    <3>3. \A j \in DOMAIN used : used[j] < V!Response
      BY <2>1, <2>4, <3>1
    <3>4. \A j, k \in DOMAIN used' : j < k => used'[j] < used'[k]
      BY <1>0, <3>1, <3>2, <3>3
    <3>5. \A s \in Responses' : Rirb[s] # 0 => V!Response < Rirb[s]
      BY <2>1, <3>1
    <3>6. \A c \in VerbsUnderWay : V!Response < Corb[c]
      BY <2>1, <3>1
    <3>7. \A j \in DOMAIN used' : j \in DOMAIN used \/ j = Len(used) + 1
      BY <3>2
    <3>8. \A j \in DOMAIN used' :
            /\ used'[j] <= verb
            /\ \A s \in Responses' : Rirb[s] # 0 => used'[j] < Rirb[s]
            /\ \A c \in VerbsUnderWay : used'[j] < Corb[c]
      BY <2>1, <3>1, <3>2, <3>5, <3>6, <3>7
    <3> QED BY <2>1, <2>2, <3>4, <3>8
  <2> QED BY <1>2, <2>3, <2>4 DEF V!TakeResponse
<1>3. CASE V!TimeOut
  <2>1. UNCHANGED <<VerbsUnderWay, Responses, Corb, Rirb, RirbReadPos, corbRp, used, verb>>
    BY <1>3 DEF V!TimeOut, VerbsUnderWay, Responses
  <2> QED BY <2>1
<1>4. CASE V!Answer
  <2> DEFINE first == Succ(corbRp, CorbEntries)
  <2>1. UNCHANGED <<used, verb, RirbReadPos, Corb>>
    BY <1>4 DEF V!Answer, V!sender
  <2>2. /\ first \in VerbsUnderWay /\ VerbsUnderWay' = VerbsUnderWay \ {first} /\ V!Respond(Corb[first])
        /\ \A c \in VerbsUnderWay' :
             /\ Dist(corbRp, first, CorbEntries) < Dist(corbRp, c, CorbEntries)
             /\ Dist(corbRp', c, CorbEntries) = Dist(corbRp, c, CorbEntries) - 1
    BY <1>4, AnswerRings
  <2>3. /\ Responses' = Responses \cup {V!AfterWrite} /\ V!AfterWrite \notin Responses
        /\ Rirb'[V!AfterWrite] = Corb[first]
        /\ \A s \in Responses :
             /\ Rirb'[s] = Rirb[s]
             /\ Dist(RirbReadPos, s, RirbEntries) < Dist(RirbReadPos, V!AfterWrite, RirbEntries)
    BY <2>1, <2>2, RespondRings
  <2>4. Corb[first] \in Nat /\ Corb[first] <= verb
    BY <1>0, <2>2
  <2>5. \A c \in VerbsUnderWay' : Corb[first] < Corb[c]
    BY <2>2
  <2>6. \A c, d \in VerbsUnderWay' :
          Dist(corbRp', c, CorbEntries) < Dist(corbRp', d, CorbEntries) => Corb[c] < Corb[d]
    BY <1>0, <2>2
  <2>7. \A s \in Responses : Rirb[s] < Corb[first]
    BY <2>2
  <2>8. \A s, t \in Responses' :
          Rirb'[t] # 0 /\ Dist(RirbReadPos, s, RirbEntries) < Dist(RirbReadPos, t, RirbEntries)
            => Rirb'[s] < Rirb'[t]
    <3>1. Dist(RirbReadPos, V!AfterWrite, RirbEntries) \in Int
      BY RingFacts DEF Dist
    <3> QED BY <1>0, <2>3, <2>7, <3>1
  <2>9. \A s \in Responses' : Rirb'[s] <= verb /\ \A c \in VerbsUnderWay' : Rirb'[s] < Corb[c]
    BY <2>2, <2>3, <2>4, <2>5
  <2>10. \A j \in DOMAIN used, s \in Responses' : Rirb'[s] # 0 => used[j] < Rirb'[s]
    BY <2>2, <2>3
  <2> QED BY <2>1, <2>2, <2>6, <2>8, <2>9, <2>10
<1>5. CASE V!Unsolicited
  <2>1. UNCHANGED <<used, verb, RirbReadPos, Corb, CorbWritePos, corbRp>>
    BY <1>5 DEF V!Unsolicited, V!sender
  <2>2. VerbsUnderWay' = VerbsUnderWay
    BY <2>1 DEF VerbsUnderWay
  <2>3. /\ Responses' = Responses \cup {V!AfterWrite} /\ V!AfterWrite \notin Responses
        /\ Rirb'[V!AfterWrite] = 0
        /\ \A s \in Responses :
             /\ Rirb'[s] = Rirb[s]
             /\ Dist(RirbReadPos, s, RirbEntries) < Dist(RirbReadPos, V!AfterWrite, RirbEntries)
    BY <1>5, <2>1, RespondRings DEF V!Unsolicited
  <2>4. \A s, t \in Responses' :
          Rirb'[t] # 0 /\ Dist(RirbReadPos, s, RirbEntries) < Dist(RirbReadPos, t, RirbEntries)
            => Rirb'[s] < Rirb'[t]
    <3>1. Dist(RirbReadPos, V!AfterWrite, RirbEntries) \in Int
      BY RingFacts DEF Dist
    <3> QED BY <1>0, <2>3, <3>1
  <2>5. \A s \in Responses' : Rirb'[s] <= verb /\ \A c \in VerbsUnderWay : Rirb'[s] < Corb[c]
    BY <1>0, <2>3
  <2> QED BY <2>1, <2>2, <2>3, <2>4, <2>5
<1>6. CASE UNCHANGED V!vars
  <2>1. UNCHANGED <<VerbsUnderWay, Responses, Corb, Rirb, RirbReadPos, corbRp, used, verb>>
    BY <1>6 DEF V!vars, V!sender, VerbsUnderWay, Responses
  <2> QED BY <2>1
<1> QED BY <1>1, <1>2, <1>3, <1>4, <1>5, <1>6 DEF V!Next

------------------------------------------------------------------------------
(* The search of configuration space.                                      *)

There == {p \in P!Real : space[p].kind = wanted}

Walked == Nat \X (0..(Devices - 1)) \X (0..(Functions - 1))

(* What was found so far, and how far the search that goes on has come: it *)
(* has passed over the first `Seen` of the controllers found, and these    *)
(* are all those before its place.                                         *)
FoundInv ==
  /\ space \in Spaces /\ wanted \in Kinds
  /\ pciPc \in {"walk", "done"} /\ place \in Walked /\ Seen \in Nat
  /\ found \in Seq(There) /\ PciSkip = Len(found)
  /\ \A j, k \in 1..Len(found) : j < k => P!Before(found[j], found[k])
  /\ \A k \in 1..Len(found) : \A p \in There :
       P!Before(p, found[k]) => \E j \in 1..(k - 1) : found[j] = p

WalkInv ==
  pciPc = "walk" =>
    /\ IF wanted = "xhci" THEN PciSkip < MAX_FOUND ELSE PciSkip = 0
    /\ Seen <= PciSkip
    /\ \A j \in 1..Seen : P!Before(found[j], place)
    /\ \A p \in There : P!Before(p, place) => \E j \in 1..Seen : found[j] = p
    /\ place \in P!Places /\ place[3] # 0 =>
         LET first == <<place[1], place[2], 0>> IN ~P!Absent(first) /\ space[first].multi

DoneInv ==
  pciPc = "done" =>
    \/ Len(found) = (IF wanted = "xhci" THEN MAX_FOUND ELSE 1)
    \/ \A p \in There : \E j \in 1..Len(found) : found[j] = p

SearchInv == FoundInv /\ WalkInv /\ DoneInv

LEMMA SearchBounds ==
  /\ Buses \in Nat \ {0} /\ Devices \in Nat \ {0} /\ Functions \in Nat \ {0}
  /\ MAX_FOUND \in Nat \ {0}
BY BootConstants DEF P!PciConstants

LEMMA Triple ==
  ASSUME NEW p \in Walked
  PROVE  /\ p[1] \in Nat /\ p[2] \in 0..(Devices - 1) /\ p[3] \in 0..(Functions - 1)
         /\ p = <<p[1], p[2], p[3]>>
         /\ p \in P!Places <=> p[1] < Buses
BY SearchBounds DEF Walked, P!Places

LEMMA PlacesWalked == P!Places \subseteq Walked
BY SearchBounds DEF Walked, P!Places

LEMMA ThereIsPlace == There \subseteq P!Places
BY DEF There, P!Real

(* The places before the next function, and before the next device.        *)
LEMMA AfterFunction ==
  ASSUME place \in P!Places
  PROVE  /\ P!NextFunction \in Walked
         /\ \A p \in P!Places : P!Before(p, P!NextFunction) <=> P!Before(p, place) \/ p = place
<1>1. place \in Walked /\ place[1] < Buses
  BY PlacesWalked, Triple
<1>2. P!NextFunction \in Walked
  BY <1>1, Triple, SearchBounds DEF P!NextFunction, P!NextDevice, P!Function, Walked
<1>3. ASSUME NEW p \in P!Places
      PROVE  P!Before(p, P!NextFunction) <=> P!Before(p, place) \/ p = place
  <2>1. p \in Walked
    BY PlacesWalked
  <2>2. p = place <=> p[1] = place[1] /\ p[2] = place[2] /\ p[3] = place[3]
    BY <2>1, <1>1, Triple
  <2>3. CASE place[3] + 1 < Functions
    BY <1>1, <2>1, <2>2, <2>3, Triple, SearchBounds DEF P!NextFunction, P!Before, P!Function
  <2>4. CASE ~(place[3] + 1 < Functions) /\ place[2] + 1 < Devices
    BY <1>1, <2>1, <2>2, <2>4, Triple, SearchBounds DEF P!NextFunction, P!NextDevice, P!Before, P!Function
  <2>5. CASE ~(place[3] + 1 < Functions) /\ ~(place[2] + 1 < Devices)
    BY <1>1, <2>1, <2>2, <2>5, Triple, SearchBounds DEF P!NextFunction, P!NextDevice, P!Before, P!Function
  <2> QED BY <2>3, <2>4, <2>5
<1> QED BY <1>2, <1>3

LEMMA AfterDevice ==
  ASSUME place \in P!Places
  PROVE  /\ P!NextDevice \in Walked /\ P!NextDevice[3] = 0
         /\ \A p \in P!Places :
              P!Before(p, P!NextDevice) <=>
                \/ P!Before(p, place)
                \/ p[1] = place[1] /\ p[2] = place[2] /\ p[3] >= place[3]
<1>1. place \in Walked /\ place[1] < Buses
  BY PlacesWalked, Triple
<1>2. P!NextDevice \in Walked /\ P!NextDevice[3] = 0
  BY <1>1, Triple, SearchBounds DEF P!NextDevice, Walked
<1>3. ASSUME NEW p \in P!Places
      PROVE  P!Before(p, P!NextDevice) <=>
               \/ P!Before(p, place)
               \/ p[1] = place[1] /\ p[2] = place[2] /\ p[3] >= place[3]
  <2>1. p \in Walked
    BY PlacesWalked
  <2>2. CASE place[2] + 1 < Devices
    BY <1>1, <2>1, <2>2, Triple, SearchBounds DEF P!NextDevice, P!Before
  <2>3. CASE ~(place[2] + 1 < Devices)
    BY <1>1, <2>1, <2>3, Triple, SearchBounds DEF P!NextDevice, P!Before
  <2> QED BY <2>2, <2>3
<1> QED BY <1>2, <1>3

(* No two places are before each other.                                    *)
LEMMA BeforeIsOrder ==
  ASSUME NEW p \in Walked, NEW q \in Walked
  PROVE  /\ ~P!Before(p, p) /\ ~(P!Before(p, q) /\ P!Before(q, p))
         /\ P!Before(p, q) \/ P!Before(q, p) \/ p = q
         /\ \A r \in Walked : P!Before(p, q) /\ P!Before(q, r) => P!Before(p, r)
<1>1. \A r \in Walked : P!Before(p, q) /\ P!Before(q, r) => P!Before(p, r)
  BY Triple DEF P!Before
<1>2. P!Before(p, q) \/ P!Before(q, p) \/ p = q
  BY Triple DEF P!Before
<1>3. ~P!Before(p, p) /\ ~(P!Before(p, q) /\ P!Before(q, p))
  BY Triple DEF P!Before
<1> QED BY <1>1, <1>2, <1>3

LEMMA SearchStart ==
  ASSUME P!PciInit PROVE SearchInv
<1>1. found = <<>> /\ Len(found) = 0 /\ found \in Seq(There)
  BY DEF P!PciInit
<1>2. place \in Walked /\ place[3] = 0
  BY SearchBounds DEF P!PciInit, Walked
<1>3. \A p \in There : ~P!Before(p, place)
  BY <1>2, ThereIsPlace, PlacesWalked, Triple DEF P!PciInit, P!Before
<1> QED BY <1>1, <1>2, <1>3, SearchBounds DEF P!PciInit, SearchInv, FoundInv, WalkInv, DoneInv

(* The place moves on over places that are not looked for.                 *)
LEMMA MoveOn ==
  ASSUME SearchInv, P!Walking, UNCHANGED <<pciPc, PciSkip, Seen, found>>, place' \in Walked,
         \A p \in There : P!Before(p, place') => P!Before(p, place),
         \A p \in P!Places : P!Before(p, place) => P!Before(p, place'),
         place' \in P!Places /\ place'[3] # 0 =>
           LET first == <<place'[1], place'[2], 0>> IN ~P!Absent(first) /\ space[first].multi
  PROVE  SearchInv'
<1>1. There' = There /\ UNCHANGED <<space, wanted>>
  BY DEF P!Walking, There, P!Real, P!Absent
<1>2. FoundInv' /\ DoneInv'
  BY <1>1 DEF SearchInv, FoundInv, DoneInv, P!Walking, P!Before
<1>3. \A j \in 1..Len(found) : found[j] \in P!Places
  BY ThereIsPlace DEF SearchInv, FoundInv
<1>4. WalkInv'
  <2>1. \A j \in 1..Seen : P!Before(found[j], place')
    <3>1. Len(found) \in Nat
      BY DEF SearchInv, FoundInv
    <3> QED BY <1>3, <3>1 DEF SearchInv, FoundInv, WalkInv, P!Walking
  <2> QED BY <1>1, <2>1 DEF SearchInv, WalkInv, P!Walking, P!Before, P!Absent
<1> QED BY <1>2, <1>4 DEF SearchInv

LEMMA NothingThere ==
  ASSUME SearchInv, P!Nothing PROVE SearchInv'
<1>1. place \in P!Places /\ place \in Walked /\ P!Absent(place) /\ P!Walking
      /\ UNCHANGED <<pciPc, PciSkip, Seen, found>>
  BY PlacesWalked DEF P!Nothing, P!Walking
<1>2. CASE P!Function = 0
  <2>1. place' = P!NextDevice /\ place[3] = 0
    BY <1>2 DEF P!Nothing, P!Function
  <2>2. place' \in Walked /\ place'[3] = 0
    BY <1>1, <2>1, AfterDevice
  <2>3. ASSUME NEW p \in There, P!Before(p, place') PROVE P!Before(p, place)
    <3>1. p \in P!Places /\ p \in Walked
      BY ThereIsPlace, PlacesWalked
    <3>2. CASE p[1] = place[1] /\ p[2] = place[2] /\ p[3] >= place[3]
      <4>1. <<p[1], p[2], 0>> = place
        BY <1>1, <2>1, <3>2, Triple
      <4>2. p[3] # 0
        BY <1>1, <3>1, <4>1, Triple DEF There, P!Real
      <4> QED BY <1>1, <4>1, <4>2 DEF There, P!Real
    <3> QED BY <1>1, <2>1, <2>3, <3>1, <3>2, AfterDevice
  <2>4. ASSUME NEW p \in P!Places, P!Before(p, place) PROVE P!Before(p, place')
    BY <1>1, <2>1, <2>4, AfterDevice
  <2> QED BY <1>1, <2>2, <2>3, <2>4, MoveOn
<1>3. CASE P!Function # 0
  <2>1. place' = P!NextFunction /\ place[3] # 0
    BY <1>3 DEF P!Nothing, P!Function
  <2>2. place' \in Walked
    BY <1>1, <2>1, AfterFunction
  <2>3. ASSUME NEW p \in There, P!Before(p, place') PROVE P!Before(p, place)
    <3>1. p \in P!Places /\ p # place
      BY <1>1, ThereIsPlace DEF There, P!Real
    <3> QED BY <1>1, <2>1, <2>3, <3>1, AfterFunction
  <2>4. ASSUME NEW p \in P!Places, P!Before(p, place) PROVE P!Before(p, place')
    BY <1>1, <2>1, <2>4, AfterFunction
  <2>5. ASSUME place'[3] # 0 PROVE place'[1] = place[1] /\ place'[2] = place[2]
    BY <1>1, <2>1, <2>5, AfterDevice DEF P!NextFunction
  <2>6. LET first == <<place[1], place[2], 0>> IN ~P!Absent(first) /\ space[first].multi
    BY <1>1, <2>1 DEF SearchInv, WalkInv, P!Walking
  <2> QED BY <1>1, <2>2, <2>3, <2>4, <2>5, <2>6, MoveOn
<1> QED BY <1>2, <1>3


(* The place after one that is not absent.                                 *)
LEMMA AfterPass ==
  ASSUME SearchInv, P!Pass
  PROVE  /\ place \in P!Real /\ place \in P!Places /\ place \in Walked /\ place' \in Walked
         /\ \A p \in There : P!Before(p, place') => P!Before(p, place) \/ p = place
         /\ \A p \in P!Places : P!Before(p, place) \/ p = place => P!Before(p, place')
         /\ place' \in P!Places /\ place'[3] # 0 =>
              LET first == <<place'[1], place'[2], 0>> IN ~P!Absent(first) /\ space[first].multi
<1>1. place \in P!Places /\ place \in Walked /\ ~P!Absent(place) /\ P!Walking
  BY PlacesWalked DEF P!Pass, P!Walking
<1>2. place \in P!Real
  BY <1>1 DEF P!Real, SearchInv, WalkInv, P!Walking
<1>3. CASE P!Function = 0 /\ ~space[place].multi
  <2>1. place' = P!NextDevice /\ place[3] = 0
    BY <1>3 DEF P!Pass, P!Function
  <2>2. place' \in Walked /\ place'[3] = 0
    BY <1>1, <2>1, AfterDevice
  <2>3. ASSUME NEW p \in There, P!Before(p, place') PROVE P!Before(p, place) \/ p = place
    <3>1. p \in P!Places /\ p \in Walked
      BY ThereIsPlace, PlacesWalked
    <3>2. CASE p[1] = place[1] /\ p[2] = place[2] /\ p[3] >= place[3]
      <4>1. <<p[1], p[2], 0>> = place
        BY <1>1, <2>1, <3>2, Triple
      <4>2. p[3] = 0
        BY <1>3, <4>1 DEF There, P!Real
      <4> QED BY <3>1, <4>1, <4>2, Triple
    <3> QED BY <1>1, <2>1, <2>3, <3>1, <3>2, AfterDevice
  <2>4. ASSUME NEW p \in P!Places, P!Before(p, place) \/ p = place PROVE P!Before(p, place')
    <3>1. place[3] >= place[3]
      BY <1>1, Triple
    <3> QED BY <1>1, <2>1, <2>4, <3>1, AfterDevice
  <2> QED BY <1>1, <1>2, <2>2, <2>3, <2>4
<1>4. CASE ~(P!Function = 0 /\ ~space[place].multi)
  <2>1. place' = P!NextFunction
    BY <1>4 DEF P!Pass
  <2>2. place' \in Walked /\ \A p \in P!Places : P!Before(p, place') <=> P!Before(p, place) \/ p = place
    BY <1>1, <2>1, AfterFunction
  <2>3. ASSUME place'[3] # 0
        PROVE  LET first == <<place'[1], place'[2], 0>> IN ~P!Absent(first) /\ space[first].multi
    <3>1. place'[1] = place[1] /\ place'[2] = place[2]
      BY <1>1, <2>1, <2>3, AfterDevice DEF P!NextFunction
    <3>2. CASE place[3] = 0
      <4>1. <<place[1], place[2], 0>> = place
        BY <1>1, <3>2, Triple
      <4> QED BY <1>1, <1>4, <3>1, <3>2, <4>1 DEF P!Function
    <3>3. CASE place[3] # 0
      BY <1>1, <3>1, <3>3 DEF SearchInv, WalkInv, P!Walking
    <3> QED BY <3>2, <3>3
  <2> QED BY <1>1, <1>2, <2>2, <2>3, ThereIsPlace
<1> QED BY <1>3, <1>4

(* A controller that was found before is counted.                          *)
LEMMA Passed ==
  ASSUME SearchInv, P!Pass PROVE SearchInv'
<1>1. CASE space[place].kind # wanted
  <2>1. \A p \in There : p # place
    BY <1>1 DEF There
  <2>2. P!Walking /\ UNCHANGED <<pciPc, PciSkip, Seen, found>>
    BY <1>1 DEF P!Pass
  <2> QED BY <2>1, <2>2, AfterPass, MoveOn
<1>2. CASE space[place].kind = wanted
  <2>1. /\ pciPc = "walk" /\ pciPc' = "walk" /\ Seen' = Seen + 1
        /\ UNCHANGED <<space, wanted, PciSkip, found>> /\ Seen # PciSkip
    BY <1>2 DEF P!Pass, P!Walking
  <2>2. There' = There /\ place \in There
    BY <1>2, <2>1, AfterPass DEF There, P!Real, P!Absent
  <2>3. Len(found) \in Nat /\ Seen \in Nat /\ Seen < PciSkip /\ PciSkip = Len(found)
        /\ \A j \in 1..Len(found) : found[j] \in There
    BY <2>1 DEF SearchInv, FoundInv, WalkInv
  <2>4. found[Seen + 1] = place
    <3>1. Seen + 1 \in 1..Len(found) /\ found[Seen + 1] \in Walked /\ place \in Walked
      BY <2>3, AfterPass, ThereIsPlace, PlacesWalked
    <3>2. ASSUME P!Before(found[Seen + 1], place) PROVE FALSE
      <4>1. PICK j \in 1..Seen : found[j] = found[Seen + 1]
        BY <2>1, <2>3, <3>1, <3>2 DEF SearchInv, WalkInv
      <4>2. P!Before(found[j], found[Seen + 1])
        BY <2>3, <3>1, <4>1 DEF SearchInv, FoundInv
      <4> QED BY <3>1, <4>1, <4>2, BeforeIsOrder
    <3>3. ASSUME P!Before(place, found[Seen + 1]) PROVE FALSE
      <4>1. PICK j \in 1..Seen : found[j] = place
        BY <2>2, <2>3, <3>1, <3>3 DEF SearchInv, FoundInv
      <4>2. P!Before(found[j], place)
        BY <2>1, <4>1 DEF SearchInv, WalkInv
      <4> QED BY <3>1, <4>1, <4>2, BeforeIsOrder
    <3> QED BY <3>1, <3>2, <3>3, BeforeIsOrder
  <2>5. FoundInv' /\ DoneInv'
    BY <2>1, <2>2, <2>3, AfterPass DEF SearchInv, FoundInv, DoneInv, P!Before
  <2>6. WalkInv'
    <3>1. \A j \in 1..(Seen + 1) : P!Before(found[j], place')
      <4>1. ASSUME NEW j \in 1..(Seen + 1) PROVE P!Before(found[j], place) \/ found[j] = place
        BY <2>1, <2>3, <2>4 DEF SearchInv, WalkInv
      <4>2. \A j \in 1..(Seen + 1) : found[j] \in P!Places
        BY <2>3, ThereIsPlace
      <4> QED BY <4>1, <4>2, AfterPass
    <3>2. \A p \in There : P!Before(p, place') => \E j \in 1..(Seen + 1) : found[j] = p
      <4>1. \A p \in There : P!Before(p, place) => \E j \in 1..Seen : found[j] = p
        BY <2>1 DEF SearchInv, WalkInv
      <4> QED BY <2>3, <2>4, <4>1, AfterPass
    <3>3. (place \in P!Places /\ place[3] # 0 =>
             LET first == <<place[1], place[2], 0>> IN ~P!Absent(first) /\ space[first].multi)'
      BY <2>1, AfterPass DEF P!Absent, P!Places
    <3>4. IF wanted = "xhci" THEN PciSkip < MAX_FOUND ELSE PciSkip = 0
      BY <2>1 DEF SearchInv, WalkInv
    <3> QED BY <2>1, <2>2, <2>3, <3>1, <3>2, <3>3, <3>4 DEF WalkInv, P!Before
  <2> QED BY <2>5, <2>6 DEF SearchInv
<1> QED BY <1>1, <1>2

(* A controller that was not found before: all those before it were.       *)
LEMMA FoundOne ==
  ASSUME SearchInv, P!Hit PROVE SearchInv'
<1>1. /\ pciPc = "walk" /\ place \in P!Places /\ place \in Walked /\ Seen = PciSkip
      /\ UNCHANGED <<space, wanted>> /\ place' = <<0, 0, 0>> /\ Seen' = 0
      /\ found' = Append(found, place) /\ PciSkip' = PciSkip + 1
      /\ pciPc' = IF wanted = "xhci" /\ PciSkip' < MAX_FOUND THEN "walk" ELSE "done"
  BY PlacesWalked DEF P!Hit, P!Walking
<1>2. There' = There /\ place \in There
  <2>1. space[place].kind = wanted /\ wanted # "absent"
    BY BootConstants DEF P!PciConstants, P!Hit, SearchInv, FoundInv
  <2>2. place \in P!Real
    BY <1>1, <2>1 DEF P!Real, P!Absent, SearchInv, WalkInv
  <2> QED BY <1>1, <2>1, <2>2 DEF There, P!Real, P!Absent
<1>3. /\ found \in Seq(There) /\ Len(found) \in Nat /\ PciSkip = Len(found)
      /\ found' \in Seq(There) /\ Len(found') = Len(found) + 1
      /\ \A k \in 1..Len(found) : found'[k] = found[k]
      /\ found'[Len(found) + 1] = place
  BY <1>1, <1>2 DEF SearchInv, FoundInv
<1>4. \A j, k \in 1..Len(found') : j < k => P!Before(found'[j], found'[k])
  <2> SUFFICES ASSUME NEW j \in 1..Len(found'), NEW k \in 1..Len(found'), j < k
               PROVE  P!Before(found'[j], found'[k])
    OBVIOUS
  <2>1. CASE k \in 1..Len(found)
    <3>1. P!Before(found[j], found[k])
      BY <1>3, <2>1 DEF SearchInv, FoundInv
    <3> QED BY <1>3, <2>1, <3>1
  <2>2. CASE k = Len(found) + 1
    <3>1. P!Before(found[j], place)
      BY <1>1, <1>3, <2>2 DEF SearchInv, WalkInv
    <3> QED BY <1>3, <2>2, <3>1
  <2> QED BY <1>3, <2>1, <2>2
<1>5. \A k \in 1..Len(found') : \A p \in There :
        P!Before(p, found'[k]) => \E j \in 1..(k - 1) : found'[j] = p
  <2> SUFFICES ASSUME NEW k \in 1..Len(found'), NEW p \in There, P!Before(p, found'[k])
               PROVE  \E j \in 1..(k - 1) : found'[j] = p
    OBVIOUS
  <2>1. CASE k \in 1..Len(found)
    <3>1. PICK j \in 1..(k - 1) : found[j] = p
      BY <1>3, <2>1 DEF SearchInv, FoundInv
    <3> QED BY <1>3, <2>1, <3>1
  <2>2. CASE k = Len(found) + 1
    <3>1. PICK j \in 1..Seen : found[j] = p
      BY <1>1, <1>3, <2>2 DEF SearchInv, WalkInv
    <3> QED BY <1>1, <1>3, <2>2, <3>1
  <2> QED BY <1>3, <2>1, <2>2
<1>6. FoundInv'
  <2>1. place' \in Walked /\ Seen' \in Nat /\ pciPc' \in {"walk", "done"}
    BY <1>1, SearchBounds DEF Walked
  <2> QED BY ZenonT(40), <1>1, <1>2, <1>3, <1>4, <1>5, <2>1 DEF SearchInv, FoundInv, P!Before
<1>7. WalkInv'
  <2>1. \A p \in There : ~P!Before(p, place')
    BY <1>1, ThereIsPlace, PlacesWalked, Triple DEF P!Before
  <2>2. ASSUME pciPc' = "walk" PROVE wanted = "xhci" /\ PciSkip' < MAX_FOUND
    BY <1>1, <2>2
  <2> QED BY <1>1, <1>2, <1>3, <2>1, <2>2 DEF WalkInv, P!Before
<1>8. DoneInv'
  <2>1. ASSUME pciPc' = "done" PROVE Len(found') = (IF wanted = "xhci" THEN MAX_FOUND ELSE 1)
    BY <1>1, <1>3, <2>1, SearchBounds DEF SearchInv, WalkInv
  <2> QED BY <1>1, <2>1 DEF DoneInv
<1> QED BY <1>6, <1>7, <1>8 DEF SearchInv

LEMMA NoneLeft ==
  ASSUME SearchInv, P!NoMore PROVE SearchInv'
<1>1. /\ pciPc = "walk" /\ pciPc' = "done" /\ place \notin P!Places /\ place \in Walked
      /\ UNCHANGED <<space, wanted, PciSkip, place, Seen, found>>
  BY DEF P!NoMore, SearchInv, FoundInv
<1>2. \A p \in There : P!Before(p, place)
  BY <1>1, ThereIsPlace, PlacesWalked, Triple, SearchBounds DEF P!Before
<1>3. \A p \in There : \E j \in 1..Len(found) : found[j] = p
  BY <1>1, <1>2 DEF SearchInv, FoundInv, WalkInv
<1>4. There' = There
  BY <1>1 DEF There, P!Real, P!Absent
<1> QED BY <1>1, <1>3, <1>4 DEF SearchInv, FoundInv, WalkInv, DoneInv, P!Before

LEMMA SearchStep ==
  ASSUME SearchInv, P!PciFindByClass PROVE SearchInv'
BY NothingThere, FoundOne, Passed, NoneLeft DEF P!PciFindByClass

LEMMA SearchStill ==
  ASSUME SearchInv, UNCHANGED search PROVE SearchInv'
<1>1. There' = There
  BY DEF search, There, P!Real, P!Absent
<1> QED BY <1>1 DEF search, SearchInv, FoundInv, WalkInv, DoneInv, P!Before, P!Absent

(* As many were found as there are, when all were.                         *)
LEMMA SearchRight ==
  ASSUME SearchInv PROVE P!EachFoundOnce
<1>1. /\ found \in Seq(There) /\ Len(found) \in Nat /\ DOMAIN found = 1..Len(found)
      /\ There \subseteq Walked
  BY ThereIsPlace, PlacesWalked DEF SearchInv, FoundInv
<1>2. ASSUME \A p \in There : \E j \in 1..Len(found) : found[j] = p
      PROVE  Len(found) = Cardinality(There)
  <2>1. found \in Bijection(1..Len(found), There)
    <3>1. \A j, k \in 1..Len(found) : found[j] = found[k] => j = k
      <4> SUFFICES ASSUME NEW j \in 1..Len(found), NEW k \in 1..Len(found),
                          found[j] = found[k], j # k
                   PROVE  FALSE
        OBVIOUS
      <4>1. P!Before(found[j], found[k]) \/ P!Before(found[k], found[j])
        BY <1>1 DEF SearchInv, FoundInv
      <4> QED BY <1>1, <4>1, BeforeIsOrder
    <3>2. \A p \in There : \E j \in 1..Len(found) : found[j] = p
      BY <1>2
    <3>3. found \in [1..Len(found) -> There]
      BY <1>1
    <3> HIDE DEF There
    <3> QED BY <3>1, <3>2, <3>3 DEF Bijection, Injection, Surjection, IsInjective
  <2>2. ExistsBijection(1..Len(found), There)
    BY <2>1 DEF ExistsBijection
  <2> QED BY <1>1, <2>2, FS_CountingElements
<1>3. pciPc = "done" =>
        \/ Len(found) = (IF wanted = "xhci" THEN MAX_FOUND ELSE 1)
        \/ Len(found) = Cardinality(There)
  BY <1>2 DEF SearchInv, DoneInv
<1>4. \A k \in DOMAIN found : found[k] \in There
  BY <1>1
<1>5. /\ \A j, k \in DOMAIN found : j < k => P!Before(found[j], found[k])
      /\ \A k \in DOMAIN found : \A p \in There :
           P!Before(p, found[k]) => \E j \in 1..(k - 1) : found[j] = p
  BY <1>1 DEF SearchInv, FoundInv
<1>6. Cardinality(There) = P!Cardinality({p \in P!Real : space[p].kind = wanted})
  BY Zenon DEF There, P!Cardinality, Cardinality
<1> QED BY <1>3, <1>4, <1>5, <1>6 DEF P!EachFoundOnce, There

------------------------------------------------------------------------------
(* What the machine starts with.                                           *)

(* Every attempt to leave the firmware fails, or the kernel has its map.   *)
THEOREM KernelOwnsItsMachine == BootSpec => []KernelOwnsMachine
<1> DEFINE Inv == part = "loader" => LoaderInv
<1>1. BootInit => Inv
  BY LoaderStart DEF BootInit
<1>2. Inv /\ [BootNext]_all => Inv'
  BY LoaderStep, LoaderStill
     DEF BootNext, all, PmmOnly, LoaderOnly, CodecOnly, VerbsOnly, SearchOnly, XhciOnly
<1>3. Inv => KernelOwnsMachine
  BY DEF LoaderInv, KernelOwnsMachine, L!KernelOwnsMachine
<1> QED BY <1>1, <1>2, <1>3, PTL DEF BootSpec

(* With a codec that answers in time SendVerb returns the response to its  *)
(* own verb, and whatever comes late, even when verbs overrun their ring,  *)
(* it returns none twice and none older than one it has returned: for      *)
(* rings of every size and any number of laps round them.                  *)
THEOREM VerbsAnswered == BootSpec => [](V!TypeOK /\ V!AnswerIsOwn /\ V!AnswersInOrder)
<1>0. V!CorbConstants
  BY BootConstants
<1>1. BootInit => VerbsInv
  BY <1>0, VerbsStart DEF BootInit
<1>2. VerbsInv /\ [BootNext]_all => VerbsInv'
  <2> SUFFICES ASSUME VerbsInv, [BootNext]_all PROVE VerbsInv'
    OBVIOUS
  <2>1. [V!Next]_(V!vars)
    BY DEF BootNext, all, verbs, V!vars, V!sender, PmmOnly, LoaderOnly, CodecOnly, VerbsOnly, SearchOnly,
           XhciOnly
  <2> QED BY <1>0, <2>1, StepVerbTypes, StepPrompt, StepInOrder DEF VerbsInv
<1>3. VerbsInv => V!TypeOK /\ V!AnswerIsOwn /\ V!AnswersInOrder
  BY DEF VerbsInv, VerbTypes, VerbsInOrder, PromptInv, OneUnderWay, V!AnswerIsOwn
<1> QED BY <1>1, <1>2, <1>3, PTL DEF BootSpec

(* The search finds every controller once, in the order of the bus, until  *)
(* the driver wants no more, whatever is plugged in.                       *)
THEOREM ControllersFound == BootSpec => [](part = "search" => P!EachFoundOnce)
<1> DEFINE Inv == part = "search" => SearchInv
<1>1. BootInit => Inv
  BY SearchStart DEF BootInit
<1>2. Inv /\ [BootNext]_all => Inv'
  BY SearchStep, SearchStill
     DEF BootNext, all, PmmOnly, LoaderOnly, CodecOnly, VerbsOnly, SearchOnly, XhciOnly
<1>3. Inv => (part = "search" => P!EachFoundOnce)
  BY SearchRight
<1> QED BY <1>1, <1>2, <1>3, PTL DEF BootSpec
==============================================================================
