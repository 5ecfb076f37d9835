------------------------------- MODULE MCBoot -------------------------------
(***************************************************************************)
(* What runs while the machine starts: the boot loader that hands over the *)
(* memory map, the page allocator that is made from it, the search for     *)
(* controllers, the setting up of the sound codec, the verbs that do it,   *)
(* and the xHCI controllers with the pages they take.  Only the last two   *)
(* of these touch the allocator, and a behaviour is one of one part:       *)
(* `part` says which.                                                      *)
(***************************************************************************)
EXTENDS Pmm

CONSTANTS
  MCParts,           (* the parts a run looks at                           *)
  MaxExitAttempts, RING_SEGMENTS, Slack, MaxChanges,           \* Loader
  Codecs, MAX_DACS, MAX_PINS, DEPTH,                           \* Codec
  CorbEntries, RirbEntries, Speeds, MaxVerbs, MaxUnsolicited,  \* Corb
  Buses, Devices, Functions, Spaces, Kinds, MAX_FOUND,         \* Pci
  StartMaps, Low4G, Machines, MAX_CONTROLLERS, MAX_SCRATCHPADS,  \* XhciStart
  BOUNCE_PAGES, TRIES, MaxHeld

D(t, s, n) == [type |-> t, start |-> s, pages |-> n]

(* Low conventional memory the reserved pages cut into, boot-services and  *)
(* reserved holes, descriptors out of address order, and maps whose first  *)
(* conventional region, or every one, is too small for the bitmap.         *)
MCMaps ==
  { << D(7, 0, 3), D(4, 3, 1), D(7, 4, 7), D(11, 30, 4) >>,
    << D(7, 1, 1), D(0, 2, 1), D(7, 3, 3), D(9, 6, 1), D(7, 7, 2) >>,
    << D(2, 0, 1), D(7, 6, 4), D(7, 1, 4) >>,
    << D(7, 2, 1), D(3, 3, 4), D(7, 7, 1) >> }

(* Two converters, three widgets in a row between them and two pins, wired *)
(* in every way a few lists of inputs allow: ways that share a widget, end *)
(* at a digital converter, are too long or in the long form.               *)
MCCodecs ==
  { [widgets |-> 1..8, long |-> long3, outputs |-> {6, 7}, targets |-> wired,
     kind |-> <<"dac", "dac", "other", "other", "other", "pin", "pin", "digital">>,
     Inputs |-> <<<<>>, <<>>, i3, i4, i5, i6, i7, <<>>>>,
     outAmps |-> {1, 3, 6}, inAmps |-> {3, 4, 5}] :
    i3 \in {<<1>>, <<5, 2>>, <<1, 5>>}, i4 \in {<<3>>, <<5, 3>>, <<2, 1>>},
    i5 \in {<<2, 1>>, <<8>>, <<1>>}, i6 \in {<<3>>, <<4, 3>>}, i7 \in {<<4>>, <<5>>, <<3, 5>>},
    wired \in {{6, 7}, {7}, {}}, long3 \in {{}, {3}} }

(* Fifteen free pages below 4 GB and one above, with a hole: as many as    *)
(* two controllers without scratchpads need, and one to spare.             *)
MCStartMaps == {<< D(7, 0, 9), D(4, 9, 1), D(7, 10, 13) >>}
MCMemoryMaps == MCMaps \cup MCStartMaps

(* Controllers with a scratchpad and without compete for the pages; one    *)
(* wants too many.                                                         *)
MCMachines == {<<>>, <<0, 0>>, <<1, 0>>, <<3>>}

(* The first function of a device; the second is there or not.             *)
First == {<<"absent", FALSE>>, <<"xhci", FALSE>>, <<"xhci", TRUE>>, <<"ahci", TRUE>>}
MCSpaces ==
  {[p \in (0..1) \X (0..1) \X (0..1) |->
      LET d == 2 * p[1] + p[2] + 1
      IN IF p[3] = 0 THEN [kind |-> f[d][1], multi |-> f[d][2]]
         ELSE [kind |-> IF g[d] THEN "xhci" ELSE "absent", multi |-> FALSE]] :
    f \in [1..4 -> First], g \in [1..4 -> BOOLEAN]}

VARIABLES
  part,
  \* Pci
  space, pciPc, wanted, PciSkip, place, Seen, found,
  \* XhciStart
  machine, xpc, Skip, CtrlCount, Ctrls, hw, Scratchpads,
  All, BestStart, BestLen, RunStart, RunLen, trim, given, wasClear,
  \* Loader
  pc, Stage, Attempt, KernelLoaded, MemMapSize, MemMap, MapKey, Status,
  current, descriptors, services, changes,
  \* Codec
  codec, codecPc, RequireTarget, pin, Dacs, Pins, Candidates, EnabledPins, UsedDacs, StreamOk,
  select, powered, driven, outUnmuted, inUnmuted, tagged,
  \* Corb
  codecKind, Corb, CorbWritePos, RirbReadPos, corbPc, verb, answer,
  corbRp, Rirb, rirbWp, unsolicited, used

L == INSTANCE Loader
C == INSTANCE Codec WITH pc <- codecPc, p <- pin
V == INSTANCE Corb WITH Codecs <- Speeds, kind <- codecKind, pc <- corbPc
P == INSTANCE Pci WITH MAX_CONTROLLERS <- MAX_FOUND
X == INSTANCE XhciStart WITH Limit4G <- Low4G

ASSUME BootConstants ==
  /\ L!LoaderConstants /\ C!CodecConstants /\ V!CorbConstants
  /\ P!PciConstants /\ X!PmmConstants /\ X!StartConstants
  /\ StartMaps \subseteq MemoryMaps

loader == <<pc, Stage, Attempt, KernelLoaded, MemMapSize, MemMap, MapKey, Status,
            current, descriptors, services, changes>>
setup == <<codec, codecPc, RequireTarget, pin, Dacs, Pins, Candidates, EnabledPins, UsedDacs,
           StreamOk, select, powered, driven, outUnmuted, inUnmuted, tagged>>
verbs == <<codecKind, Corb, CorbWritePos, RirbReadPos, corbPc, verb, answer,
           corbRp, Rirb, rirbWp, unsolicited, used>>
search == <<space, pciPc, wanted, PciSkip, place, Seen, found>>
start == <<machine, xpc, Skip, CtrlCount, Ctrls, hw, Scratchpads,
           All, BestStart, BestLen, RunStart, RunLen, trim, given, wasClear>>
all == <<part, vars, loader, setup, verbs, search, start>>

(* What the other parts begin with.                                        *)
AnyCodec == CHOOSE some \in Codecs : TRUE
AnySpace == CHOOSE some \in Spaces : TRUE
AnyMap == CHOOSE some \in MemoryMaps : TRUE

MapsOf ==
  CASE part = "pmm" -> MemoryMaps \ StartMaps
    [] part = "xhci" -> StartMaps
    [] OTHER -> {AnyMap}

BootInit ==
  /\ part \in MCParts /\ L!Init /\ V!Init
  /\ part # "codec" => codec = AnyCodec
  /\ C!Init
  /\ part # "verbs" => codecKind = "prompt"
  /\ part # "search" => wanted = "xhci" /\ space = AnySpace
  /\ P!PciInit
  /\ map \in MapsOf /\ Init
  /\ part # "xhci" => machine = <<>>
  /\ X!DriverInit

PmmOnly == part = "pmm" /\ UNCHANGED <<part, loader, setup, verbs, search, start>>
LoaderOnly == part = "loader" /\ UNCHANGED <<part, vars, setup, verbs, search, start>>
CodecOnly == part = "codec" /\ UNCHANGED <<part, vars, loader, verbs, search, start>>
VerbsOnly == part = "verbs" /\ UNCHANGED <<part, vars, loader, setup, search, start>>
SearchOnly == part = "search" /\ UNCHANGED <<part, vars, loader, setup, verbs, start>>
XhciOnly == part = "xhci" /\ UNCHANGED <<part, loader, setup, verbs, search>>

BootNext ==
  \/ PmmOnly /\ Next
  \/ LoaderOnly /\ L!Next
  \/ CodecOnly /\ C!Next
  \/ VerbsOnly /\ V!Next
  \/ SearchOnly /\ P!PciFindByClass
  \/ XhciOnly /\ X!StartNext

BootSpec == BootInit /\ [][BootNext]_all

------------------------------------------------------------------------------
(* The kernel is entered only with a current memory map and a machine the  *)
(* firmware has let go of (see Loader).                                    *)
KernelOwnsMachine == part = "loader" => L!TypeOK /\ L!KernelOwnsMachine

(* Every pin that is on hears the stream, and every pin that can be led to *)
(* a converter is on (see Codec).                                          *)
CodecRight == part = "codec" => C!TypeOK /\ C!PinsPlay /\ C!PinsFound

(* The search of configuration space finds each controller once (see Pci), *)
(* no xHCI controller reaches a page that is not its own (see XhciStart),  *)
(* and what the sound controller answers to a verb is the answer of that   *)
(* verb, or at least later than those before it (see Corb).                *)
ControllersRight ==
  /\ part = "search" => P!EachFoundOnce
  /\ part = "xhci" => X!StartTypes /\ X!OnlyOwnPages /\ X!BounceIsBest
  /\ part = "verbs" => V!TypeOK /\ V!AnswerIsOwn /\ V!AnswersInOrder
==============================================================================
