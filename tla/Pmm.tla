--------------------------------- MODULE Pmm ---------------------------------
(***************************************************************************)
(* The physical page allocator of the kernel (kernel/pmm.c): InitPmm turns *)
(* the UEFI memory map into a bitmap, AllocPage and AllocPageBelow4G hand  *)
(* out the lowest clear page, FreePage clears a bit.  InitPmm is one       *)
(* action per iteration of its loops over the memory map; nothing else     *)
(* runs while it does.  A set bit of the bitmap is a page that is not in   *)
(* "clear".  "held" is a history variable: the pages some driver owns.     *)
(***************************************************************************)
EXTENDS Naturals, Integers, FiniteSets, Sequences

CONSTANTS
  MemoryMaps,    (* The memory maps the firmware may hand over.            *)
  BitsPerPage,   (* Pages described by one page of bitmap: 8 * PAGE_SIZE.   *)
  Reserved,      (* Low pages never handed out: 256.                       *)
  Limit4G        (* Pages below 4 GB: 0x100000000 / PAGE_SIZE.              *)

EfiConventionalMemory == 7

(* IsBackedRam: the descriptor types that are real memory. *)
BackedRam == (1..7) \cup {9, 10, 14}

Descriptor == [type : Nat, start : Nat, pages : Nat]

PagesOf(d) == d.start .. (d.start + d.pages - 1)

Conventional(m) == {k \in 1..Len(m) : m[k].type = EfiConventionalMemory}

(* What the firmware guarantees: descriptors of usable memory do not       *)
(* overlap.                                                                *)
DisjointMap(m) ==
  \A j, k \in Conventional(m) : j # k => PagesOf(m[j]) \cap PagesOf(m[k]) = {}

ASSUME PmmConstants ==
  /\ BitsPerPage \in Nat \ {0}
  /\ Reserved \in Nat \ {0}
  /\ Limit4G \in Nat
  /\ \A m \in MemoryMaps : m \in Seq(Descriptor) /\ DisjointMap(m)

VARIABLES
  map,          (* the memory map of this boot                              *)
  stage,        (* the loop of InitPmm that is running, "run" when it ended *)
  entry,        (* the loop's index                                         *)
  TotalPages,
  BitmapPage,   (* first page of the bitmap, 0 when no region fits          *)
  clear,        (* pages whose bit is clear                                 *)
  FreePages,
  held          (* pages handed out and not freed                           *)

vars == <<map, stage, entry, TotalPages, BitmapPage, clear, FreePages, held>>

BitmapPages == (TotalPages + BitsPerPage - 1) \div BitsPerPage

BitmapRange == BitmapPage .. (BitmapPage + BitmapPages - 1)

ReservedRange == 0 .. ((IF Reserved > TotalPages THEN TotalPages ELSE Reserved) - 1)

(* Some conventional region is large enough for the bitmap. *)
BitmapFits ==
  \E k \in Conventional(map) : map[k].pages >= BitmapPages

Init ==
  /\ map \in MemoryMaps
  /\ stage = "scan"
  /\ entry = 1
  /\ TotalPages = 0
  /\ BitmapPage = 0
  /\ clear = {}
  /\ FreePages = 0
  /\ held = {}

Enter(next) == stage' = next /\ entry' = 1

(* First loop: the end of the highest backed region. *)
ScanEntry ==
  /\ stage = "scan"
  /\ \/ /\ entry <= Len(map)
        /\ LET d == map[entry]
               end == d.start + d.pages
           IN TotalPages' = IF d.type \in BackedRam /\ end > TotalPages THEN end ELSE TotalPages
        /\ entry' = entry + 1
        /\ stage' = stage
     \/ /\ entry > Len(map)
        /\ Enter("place")
        /\ UNCHANGED TotalPages
  /\ UNCHANGED <<map, BitmapPage, clear, FreePages, held>>

(* Second loop: the bitmap goes to the first conventional region it fits in. *)
PlaceBitmap ==
  /\ stage = "place"
  /\ \/ /\ entry <= Len(map)
        /\ IF map[entry].type = EfiConventionalMemory /\ map[entry].pages >= BitmapPages
             THEN BitmapPage' = map[entry].start /\ Enter("clear")
             ELSE entry' = entry + 1 /\ UNCHANGED <<BitmapPage, stage>>
     \/ /\ entry > Len(map)
        /\ Enter("clear")
        /\ UNCHANGED BitmapPage
  /\ UNCHANGED <<map, TotalPages, clear, FreePages, held>>

(* Mutant: every backed region is cleared, not only conventional memory. *)
ClearBackedEntry ==
  /\ stage = "clear"
  /\ \/ /\ entry <= Len(map)
        /\ IF map[entry].type \in BackedRam
             THEN /\ clear' = clear \cup PagesOf(map[entry])
                  /\ FreePages' = FreePages + map[entry].pages
             ELSE UNCHANGED <<clear, FreePages>>
        /\ entry' = entry + 1
        /\ stage' = stage
     \/ /\ entry > Len(map)
        /\ Enter("mark")
        /\ UNCHANGED <<clear, FreePages>>
  /\ UNCHANGED <<map, TotalPages, BitmapPage, held>>

(* Third loop: with every bit set, clear the bits of conventional memory. *)
ClearEntry ==
  /\ stage = "clear"
  /\ \/ /\ entry <= Len(map)
        /\ IF map[entry].type = EfiConventionalMemory
             THEN /\ clear' = clear \cup PagesOf(map[entry])
                  /\ FreePages' = FreePages + map[entry].pages
             ELSE UNCHANGED <<clear, FreePages>>
        /\ entry' = entry + 1
        /\ stage' = stage
     \/ /\ entry > Len(map)
        /\ Enter("mark")
        /\ UNCHANGED <<clear, FreePages>>
  /\ UNCHANGED <<map, TotalPages, BitmapPage, held>>

(* The bitmap's own pages are taken, their bits not tested first. *)
MarkBitmap ==
  /\ stage = "mark"
  /\ clear' = clear \ BitmapRange
  /\ FreePages' = FreePages - BitmapPages
  /\ Enter("reserve")
  /\ UNCHANGED <<map, TotalPages, BitmapPage, held>>

(* Mutant: the low pages are counted out without testing their bits. *)
ReserveLowUntested ==
  /\ stage = "reserve"
  /\ clear' = clear \ ReservedRange
  /\ FreePages' = FreePages - Cardinality(ReservedRange)
  /\ Enter("run")
  /\ UNCHANGED <<map, TotalPages, BitmapPage, held>>

(* The low pages are taken, those that are still clear. *)
ReserveLow ==
  /\ stage = "reserve"
  /\ clear' = clear \ ReservedRange
  /\ FreePages' = FreePages - Cardinality(clear \cap ReservedRange)
  /\ Enter("run")
  /\ UNCHANGED <<map, TotalPages, BitmapPage, held>>

InitPmm == ScanEntry \/ PlaceBitmap \/ ClearEntry \/ MarkBitmap \/ ReserveLow

LowestClear(p) == p \in clear /\ \A q \in clear : p <= q

Take(p) ==
  /\ clear' = clear \ {p}
  /\ FreePages' = FreePages - 1
  /\ held' = held \cup {p}
  /\ UNCHANGED <<map, stage, entry, TotalPages, BitmapPage>>

(* A call that finds no clear bit returns 0 and changes nothing. *)
AllocPage(p) ==
  /\ stage = "run"
  /\ LowestClear(p)
  /\ Take(p)

AllocPageBelow4G(p) ==
  /\ stage = "run"
  /\ LowestClear(p)
  /\ p < Limit4G
  /\ Take(p)

(* Drivers free what they were handed; FreePage itself tests only the bit. *)
FreePage(p) ==
  /\ stage = "run"
  /\ p \in held
  /\ IF p \notin clear
       THEN clear' = clear \cup {p} /\ FreePages' = FreePages + 1
       ELSE UNCHANGED <<clear, FreePages>>
  /\ held' = held \ {p}
  /\ UNCHANGED <<map, stage, entry, TotalPages, BitmapPage>>

Next ==
  \/ InitPmm
  \/ \E p \in clear : AllocPage(p) \/ AllocPageBelow4G(p)
  \/ \E p \in held : FreePage(p)

Spec == Init /\ [][Next]_vars

------------------------------------------------------------------------------

Usable(m) == UNION {PagesOf(m[k]) : k \in Conventional(m)}

(* Every variable keeps its type.  FreePages is an integer: a negative one *)
(* stands for the wrapped value of the unsigned counter.                   *)
TypeOK ==
  /\ map \in MemoryMaps
  /\ stage \in {"scan", "place", "clear", "mark", "reserve", "run"}
  /\ entry \in Nat \ {0}
  /\ TotalPages \in Nat
  /\ BitmapPage \in Nat
  /\ clear \subseteq Nat
  /\ FreePages \in Int
  /\ held \subseteq Nat

(* The free page counter, which InitPmm and the three calls adjust by      *)
(* increments, is the number of clear bits whenever the bitmap found a     *)
(* region that holds it.                                                   *)
FreeCountExact ==
  BitmapFits => FreePages = Cardinality(clear)

(* A page that is handed out is usable memory described by the bitmap, is  *)
(* not a page of the bitmap, is not one of the reserved low pages (so      *)
(* never page 0, whose address AllocPage returns for "no memory"), and is  *)
(* marked taken.                                                           *)
HandedOutIsSafe ==
  /\ held \subseteq Usable(map)
  /\ \A p \in held : p < TotalPages
  /\ held \cap ReservedRange = {}
  /\ BitmapFits => held \cap BitmapRange = {}
  /\ held \cap clear = {}

(* Once InitPmm is done no usable page is lost: it is free, owned by a     *)
(* driver, part of the bitmap, or reserved.                                *)
NoPageLost ==
  stage = "run" => Usable(map) \subseteq clear \cup held \cup BitmapRange \cup ReservedRange
(* No page is lost or counted twice: the counter that InitPmm and the      *)
(* three calls keep agrees with the bitmap, and every usable page is       *)
(* accounted for.                                                          *)
PagesAccounted == FreeCountExact /\ NoPageLost
==============================================================================
