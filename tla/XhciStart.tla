----------------------------- MODULE XhciStart -----------------------------
(***************************************************************************)
(* How the xHCI controllers are brought up at the first `usb` (xhci.c):    *)
(* the loop at the head of XhciRescan, ControllerInit and DmaContiguous,   *)
(* over the page allocator.  Nothing else runs meanwhile; before and after *)
(* it other drivers take pages and give them back, so the pages free below *)
(* 4 GB lie in any places when it begins.                                  *)
(*                                                                         *)
(* What a controller can reach by itself is what its registers lead to;    *)
(* `hw` is the controllers, `Ctrls` what the driver keeps of them.         *)
(***************************************************************************)
EXTENDS Pmm, SequencesExt

CONSTANTS
  Machines,        (* sequences of controllers: how many scratchpads each wants *)
  MAX_CONTROLLERS, (* 4                                                    *)
  MAX_SCRATCHPADS, (* 500                                                  *)
  BOUNCE_PAGES,    (* 16                                                   *)
  TRIES,           (* the size of All, 96                                  *)
  MaxHeld          (* bound: pages the others hold when it begins          *)

StartConstants ==
  /\ \A m \in Machines : m \in Seq(Nat)
  /\ MAX_CONTROLLERS \in Nat \ {0} /\ BOUNCE_PAGES \in Nat \ {0} /\ TRIES \in Nat \ {0}

VARIABLES
  machine,
  xpc,             (* the part of ControllerInit that comes next           *)
  Skip,            (* i of XhciRescan: the controller being brought up     *)
  CtrlCount, Ctrls,
  hw,              (* per controller: does it run, and its registers       *)
  Scratchpads,     (* of the array in memory the DCBAA's first entry names *)
  All, BestStart, BestLen, RunStart, RunLen, trim,
  given,           (* history: the pages it took and did not give back     *)
  wasClear         (* history: the pages clear when DmaContiguous was called *)

dma == <<All, BestStart, BestLen, RunStart, RunLen, trim, wasClear>>
start == <<machine, xpc, Skip, CtrlCount, Ctrls, hw, Scratchpads, dma, given>>

(* Page 0 is never handed out: 0 is NULL.                                  *)
NoController ==
  [hw |-> 0, Used |-> FALSE, Dcbaa |-> 0, Cmd |-> 0, Evt |-> 0, Scratch |-> 0,
   Bounce |-> 0, BounceSize |-> 0]
AsFound == [run |-> FALSE, dcbaap |-> 0, pads |-> {}, crcr |-> 0, erst |-> 0, evt |-> 0]

DriverInit ==
  /\ machine \in Machines
  /\ xpc = "unprobed" /\ Skip = 0 /\ CtrlCount = 0
  /\ Ctrls = [s \in 0..MAX_CONTROLLERS |-> NoController]
  /\ hw = [h \in 1..Len(machine) |-> AsFound]
  /\ Scratchpads = {}
  /\ All = <<>> /\ BestStart = 0 /\ BestLen = 0 /\ RunStart = 0 /\ RunLen = 0
  /\ trim = 0 /\ wasClear = {} /\ given = {}

StartInit == Init /\ DriverInit

X == Ctrls[CtrlCount]
H == hw[Skip + 1]
Set(field, p) == Ctrls' = [Ctrls EXCEPT ![CtrlCount][field] = p]
Write(new) == hw' = [hw EXCEPT ![Skip + 1] = new]

Go(next) == xpc' = next /\ UNCHANGED <<machine, Skip, CtrlCount>>

(* The next controller PciFindByClass finds is brought up in the same      *)
(* entry of Ctrls when this one was not.                                   *)
NextController(count) ==
  /\ CtrlCount' = count /\ Skip' = Skip + 1
  /\ xpc' = IF Skip + 1 < Len(machine) /\ Skip + 1 < MAX_CONTROLLERS THEN "find" ELSE "probed"
  /\ UNCHANGED machine
GiveUp == NextController(CtrlCount)

Probe ==
  /\ xpc = "unprobed" /\ stage = "run" /\ Cardinality(held) <= MaxHeld
  /\ Go(IF machine = <<>> THEN "probed" ELSE "find")
  /\ UNCHANGED <<vars, Ctrls, hw, Scratchpads, dma, given>>

(* Without a register window it is left alone, and without a version.  The *)
(* firmware may not let go of it, and it may not halt in time: neither     *)
(* stops the driver, but a reset that takes too long does.                 *)
FindAndReset ==
  /\ xpc = "find"
  /\ \/ GiveUp /\ UNCHANGED <<hw, Ctrls>>
     \/ Write(AsFound) /\ Set("hw", Skip + 1) /\ (Go("dcbaa") \/ GiveUp)
  /\ UNCHANGED <<vars, Scratchpads, dma, given>>

NoPage == ~\E p \in clear : LowestClear(p) /\ p < Limit4G

(* One DmaPage: it is there, and `next` comes next, or the controller is   *)
(* given up.  What it has been given until then is not taken back.         *)
DmaPage(here, p, next) ==
  /\ xpc = here /\ AllocPageBelow4G(p) /\ given' = given \cup {p} /\ Go(next)
NoDmaPage ==
  /\ xpc \in {"dcbaa", "pads", "cmd", "evt", "erst", "scratch"} /\ NoPage /\ GiveUp
  /\ UNCHANGED <<vars, Ctrls, hw, Scratchpads, dma, given>>

Dcbaa(p) ==
  /\ DmaPage("dcbaa", p, IF machine[Skip + 1] = 0 THEN "dcbaap" ELSE "pads")
  /\ Set("Dcbaa", p) /\ Scratchpads' = {}
  /\ UNCHANGED <<hw, dma>>

(* The array, then the scratchpads it lists.                               *)
Scratchpad(p) ==
  /\ xpc = "pads" /\ machine[Skip + 1] <= MAX_SCRATCHPADS
  /\ DmaPage("pads", p, IF Cardinality(Scratchpads) = machine[Skip + 1] THEN "dcbaap" ELSE "pads")
  /\ Scratchpads' = Scratchpads \cup {p}
  /\ UNCHANGED <<Ctrls, hw, dma>>
TooMany ==
  /\ xpc = "pads" /\ machine[Skip + 1] > MAX_SCRATCHPADS /\ GiveUp
  /\ UNCHANGED <<vars, Ctrls, hw, Scratchpads, dma, given>>

WriteDcbaap ==
  /\ xpc = "dcbaap" /\ Write([H EXCEPT !.dcbaap = X.Dcbaa, !.pads = Scratchpads]) /\ Go("cmd")
  /\ UNCHANGED <<vars, Ctrls, Scratchpads, dma, given>>

CommandRing(p) ==
  /\ DmaPage("cmd", p, "evt") /\ Set("Cmd", p) /\ Write([H EXCEPT !.crcr = p])
  /\ UNCHANGED <<Scratchpads, dma>>

EventRing(p) ==
  /\ DmaPage("evt", p, "erst") /\ Set("Evt", p)
  /\ UNCHANGED <<hw, Scratchpads, dma>>

(* The segment table, which names the event ring.                          *)
SegmentTable(p) ==
  /\ DmaPage("erst", p, "scratch") /\ Write([H EXCEPT !.erst = p, !.evt = X.Evt])
  /\ UNCHANGED <<Ctrls, Scratchpads, dma>>

ScratchPage(p) ==
  /\ DmaPage("scratch", p, "contiguous") /\ Set("Scratch", p)
  /\ All' = <<>> /\ BestStart' = 0 /\ BestLen' = 0 /\ RunStart' = 0 /\ RunLen' = 0
  /\ trim' = 1 /\ wasClear' = clear'
  /\ UNCHANGED <<hw, Scratchpads>>

------------------------------------------------------------------------------
(* DmaContiguous(BOUNCE_PAGES): a page per step.  All counts from 1.       *)

GoesOn == Len(All) < TRIES /\ BestLen < BOUNCE_PAGES

TakePage(p) ==
  /\ GoesOn /\ DmaPage("contiguous", p, "contiguous")
  /\ All' = Append(All, p)
  /\ LET joins == All # <<>> /\ p = Last(All) + 1
     IN /\ RunStart' = IF joins THEN RunStart ELSE Len(All) + 1
        /\ RunLen' = IF joins THEN RunLen + 1 ELSE 1
  /\ IF RunLen' > BestLen THEN BestLen' = RunLen' /\ BestStart' = RunStart'
     ELSE UNCHANGED <<BestLen, BestStart>>
  /\ UNCHANGED <<Ctrls, hw, Scratchpads, trim, wasClear>>

TakenAll ==
  /\ xpc = "contiguous" /\ (NoPage \/ ~GoesOn) /\ Go("trim")
  /\ UNCHANGED <<vars, Ctrls, hw, Scratchpads, dma, given>>

(* Mutant: the page before the run is kept instead of its last. *)
KeptShifted == {All[k] : k \in {x \in DOMAIN All : BestStart - 1 <= x /\ x < BestStart + BestLen - 1}}

Kept == {All[k] : k \in BestStart..(BestStart + BestLen - 1)}

Trim ==
  /\ xpc = "trim" /\ trim <= Len(All) /\ trim' = trim + 1 /\ Go("trim")
  /\ IF All[trim] \in Kept THEN UNCHANGED <<vars, given>>
     ELSE FreePage(All[trim]) /\ given' = given \ {All[trim]}
  /\ UNCHANGED <<Ctrls, hw, Scratchpads, All, BestStart, BestLen, RunStart, RunLen, wasClear>>

Trimmed ==
  /\ xpc = "trim" /\ trim > Len(All)
  /\ IF BestLen = 0 THEN GiveUp /\ UNCHANGED Ctrls
     ELSE /\ Go("start")
          /\ Ctrls' = [Ctrls EXCEPT ![CtrlCount].Bounce = All[BestStart],
                                    ![CtrlCount].BounceSize = BestLen]
  /\ UNCHANGED <<vars, hw, Scratchpads, dma, given>>

------------------------------------------------------------------------------
(* It was told to run, whether or not it says in time that it does.        *)
StartController ==
  /\ xpc = "start" /\ Write([H EXCEPT !.run = TRUE])
  /\ \/ Set("Used", TRUE) /\ NextController(CtrlCount + 1)
     \/ GiveUp /\ UNCHANGED Ctrls
  /\ UNCHANGED <<vars, Scratchpads, dma, given>>

XhciRescan ==
  \/ Probe \/ FindAndReset \/ NoDmaPage \/ TooMany \/ WriteDcbaap
  \/ \E p \in clear :
       Dcbaa(p) \/ Scratchpad(p) \/ CommandRing(p) \/ EventRing(p) \/ SegmentTable(p)
       \/ ScratchPage(p) \/ TakePage(p)
  \/ TakenAll \/ Trim \/ Trimmed \/ StartController

(* The other drivers give back only what they were handed.                 *)
Others ==
  /\ xpc \in {"unprobed", "probed"} /\ UNCHANGED start
  /\ \/ InitPmm
     \/ xpc = "unprobed" /\ \E p \in clear : AllocPage(p)
     \/ \E p \in held \ given : FreePage(p)
     \/ xpc = "probed" /\ Cardinality(held \ given) < MaxHeld /\ \E p \in clear : AllocPage(p)

StartNext == XhciRescan \/ Others

------------------------------------------------------------------------------
StartTypes ==
  /\ machine \in Machines /\ Skip \in 0..Len(machine) /\ CtrlCount \in 0..Skip
  /\ \A s \in 0..MAX_CONTROLLERS : Ctrls[s].Used = (s < CtrlCount)
  /\ given \subseteq held /\ BestLen <= BOUNCE_PAGES /\ Len(All) <= TRIES

(* What a controller can reach by itself; what the driver copies through.  *)
Reaches(h) == {hw[h].dcbaap, hw[h].crcr, hw[h].erst, hw[h].evt} \cup hw[h].pads
Copies(s) == {Ctrls[s].Scratch} \cup Ctrls[s].Bounce..(Ctrls[s].Bounce + Ctrls[s].BounceSize - 1)

Running == {h \in DOMAIN hw : hw[h].run}
InUse == {s \in 0..(MAX_CONTROLLERS - 1) : Ctrls[s].Used}

ReachesOwn(h) ==
  /\ Reaches(h) \subseteq given /\ \A p \in Reaches(h) : p < Limit4G
  /\ Cardinality(Reaches(h)) = 4 + (IF machine[h] = 0 THEN 0 ELSE machine[h] + 1)
  /\ \A g \in Running \ {h} : Reaches(g) \cap Reaches(h) = {}

CopiesOwn(s) ==
  /\ Ctrls[s].hw \in Running /\ Ctrls[s].BounceSize \in 1..BOUNCE_PAGES
  /\ LET h == hw[Ctrls[s].hw]
     IN  h.dcbaap = Ctrls[s].Dcbaa /\ h.crcr = Ctrls[s].Cmd /\ h.evt = Ctrls[s].Evt
  /\ Copies(s) \subseteq given /\ Cardinality(Copies(s)) = Ctrls[s].BounceSize + 1
  /\ \A h \in Running : Copies(s) \cap Reaches(h) = {}
  /\ \A t \in InUse \ {s} : Copies(s) \cap Copies(t) = {}

(* A controller that was told to run, even one that was then given up,     *)
(* reaches only pages below 4 GB that nobody else has or will get, each    *)
(* for one purpose, and the driver's entry for it names the same pages;    *)
(* and the bounce buffer is consecutive pages that are all the driver's.   *)
OnlyOwnPages == (\A h \in Running : ReachesOwn(h)) /\ (\A s \in InUse : CopiesOwn(s))

(* DmaContiguous finds as many consecutive pages as there are, up to what  *)
(* was asked for, unless it has given up looking for them, and keeps no    *)
(* other page.                                                             *)
BounceIsBest ==
  xpc = "start" =>
    /\ held \cap wasClear = Copies(CtrlCount) \ {X.Scratch}
    /\ X.BounceSize < BOUNCE_PAGES /\ Len(All) < TRIES =>
         \A p \in wasClear : \E k \in 0..X.BounceSize :
           p + k \notin {q \in wasClear : q < Limit4G}
==============================================================================
