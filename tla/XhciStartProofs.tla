--------------------------- MODULE XhciStartProofs ---------------------------
(***************************************************************************)
(* Proofs about the xHCI controllers as MCBoot brings them up, and about   *)
(* the page allocator with whoever calls it.                               *)
(*                                                                         *)
(* StartInv says of every phase of ControllerInit which pages the          *)
(* controller and the driver have so far, each for one purpose (EachForOne)*)
(* and apart from those committed before, what was written to the          *)
(* registers (Written), and how far the search for consecutive pages is    *)
(* (Runs).  To the allocator all of it is steps of its own                 *)
(* (StartUsesPool).                                                        *)
(***************************************************************************)
EXTENDS BootProofs, WellFoundedInduction

Entries == [hw : Nat, Used : BOOLEAN, Dcbaa : Nat, Cmd : Nat, Evt : Nat, Scratch : Nat,
            Bounce : Nat, BounceSize : Nat]
Registers == [run : BOOLEAN, dcbaap : Nat, pads : SUBSET Nat, crcr : Nat, erst : Nat, evt : Nat]

(* The phases of ControllerInit from which on a page of each kind is there.*)
Bouncing == {"contiguous", "trim", "start"}
HasTable == {"scratch"} \cup Bouncing
HasEvents == {"erst"} \cup HasTable
HasCommands == {"evt"} \cup HasEvents
HasArray == {"cmd"} \cup HasCommands
HasDcbaa == {"pads", "dcbaap"} \cup HasArray
Working == {"find", "dcbaa"} \cup HasDcbaa

StartTyped ==
  /\ machine \in Machines /\ xpc \in {"unprobed", "probed"} \cup Working
  /\ Skip \in 0..Len(machine) /\ CtrlCount \in 0..Skip /\ CtrlCount <= MAX_CONTROLLERS
  /\ xpc = "unprobed" => Skip = 0
  /\ xpc \in Working => Skip < Len(machine) /\ CtrlCount < MAX_CONTROLLERS /\ Skip < MAX_CONTROLLERS
  /\ Ctrls \in [0..MAX_CONTROLLERS -> Entries] /\ hw \in [1..Len(machine) -> Registers]
  /\ \A s \in 0..MAX_CONTROLLERS : Ctrls[s].Used <=> s < CtrlCount
  /\ \A h \in 1..Len(machine) : hw[h].run => h <= Skip
  /\ xpc \in {"dcbaa"} \cup HasDcbaa => Ctrls[CtrlCount].hw = Skip + 1
  /\ given \subseteq held /\ \A p \in given : p < Low4G
  /\ xpc # "unprobed" => stage = "run"

(* The pages the controller being brought up has so far, by purpose.       *)
Left == {All[k] : k \in {j \in 1..Len(All) : j >= trim \/ All[j] \in X!Kept}}
Mine ==
  << IF xpc \in HasDcbaa THEN {Ctrls[CtrlCount].Dcbaa} ELSE {},
     IF xpc \in HasDcbaa THEN Scratchpads ELSE {},
     IF xpc \in HasCommands THEN {Ctrls[CtrlCount].Cmd} ELSE {},
     IF xpc \in HasEvents THEN {Ctrls[CtrlCount].Evt} ELSE {},
     IF xpc \in HasTable THEN {hw[Skip + 1].erst} ELSE {},
     IF xpc \in Bouncing THEN {Ctrls[CtrlCount].Scratch} ELSE {},
     IF xpc \in Bouncing THEN Left ELSE {} >>

Reached == UNION {X!Reaches(h) : h \in X!Running}
Copied == UNION {X!Copies(s) : s \in X!InUse}
Committed == Reached \cup Copied

EachForOne ==
  /\ \A a \in 1..7 : Mine[a] \subseteq given /\ Mine[a] \cap Committed = {}
  /\ \A a, b \in 1..7 : a # b => Mine[a] \cap Mine[b] = {}
  /\ Committed \subseteq given

(* What was written to the registers.                                      *)
Written ==
  /\ xpc \in HasDcbaa => IsFiniteSet(Scratchpads)
  /\ xpc = "pads" => machine[Skip + 1] > 0 /\ Cardinality(Scratchpads) <= machine[Skip + 1]
  /\ xpc \in HasDcbaa \ {"pads"} =>
       Cardinality(Scratchpads) = IF machine[Skip + 1] = 0 THEN 0 ELSE machine[Skip + 1] + 1
  /\ xpc \in HasArray =>
       hw[Skip + 1].dcbaap = Ctrls[CtrlCount].Dcbaa /\ hw[Skip + 1].pads = Scratchpads
  /\ xpc \in HasCommands => hw[Skip + 1].crcr = Ctrls[CtrlCount].Cmd
  /\ xpc \in HasTable => hw[Skip + 1].evt = Ctrls[CtrlCount].Evt

Taken == {All[k] : k \in 1..Len(All)}

Consecutive(from, n) == \A k \in 0..(n - 1) : All[from + k] = All[from] + k

Ascending == \A j, k \in 1..Len(All) : j < k => All[j] < All[k]

(* The search for consecutive pages: the longest run so far, and the last. *)
BestRun ==
  IF All = <<>> THEN BestLen = 0 /\ RunLen = 0
  ELSE /\ BestLen >= 1 /\ BestStart >= 1 /\ BestStart + BestLen - 1 <= Len(All)
       /\ Consecutive(BestStart, BestLen)
       /\ RunLen \in 1..BestLen /\ RunStart \in 1..Len(All) /\ RunStart + RunLen - 1 = Len(All)
       /\ Consecutive(RunStart, RunLen) /\ All[RunStart] - 1 \notin Taken

NoneLonger == \A q \in Nat : \E k \in 0..BestLen : q + k \notin Taken

Runs ==
  xpc \in Bouncing =>
    /\ All \in Seq(Nat) /\ Len(All) <= TRIES
    /\ Ascending /\ Taken \subseteq wasClear /\ wasClear \subseteq Nat
    /\ trim \in 1..(Len(All) + 1) /\ BestLen \in 0..BOUNCE_PAGES /\ BestStart \in Nat
    /\ BestRun /\ NoneLonger
    /\ held \cap wasClear = Left
    /\ Ctrls[CtrlCount].Scratch \notin wasClear
    /\ xpc = "contiguous" => trim = 1 /\ wasClear = clear \cup Taken
                             /\ \A q \in Taken : \A r \in clear : q < r
    /\ xpc # "contiguous" /\ BestLen < BOUNCE_PAGES /\ Len(All) < TRIES =>
         \A q \in wasClear : q < Low4G => q \in Taken
    /\ xpc = "start" =>
         /\ trim = Len(All) + 1 /\ BestLen >= 1
         /\ Ctrls[CtrlCount].Bounce = All[BestStart] /\ Ctrls[CtrlCount].BounceSize = BestLen

StartInv == StartTyped /\ EachForOne /\ Written /\ Runs /\ X!OnlyOwnPages

(* What the page allocator sees to.                                        *)
Pool == clear \subseteq Nat /\ held \subseteq Nat /\ held \cap clear = {}

LEMMA StartBounds ==
  /\ \A m \in Machines : m \in Seq(Nat)
  /\ MAX_CONTROLLERS \in Nat /\ MAX_CONTROLLERS > 0 /\ BOUNCE_PAGES \in Nat /\ BOUNCE_PAGES > 0
  /\ TRIES \in Nat /\ TRIES > 0 /\ Low4G \in Nat
BY BootConstants DEF X!StartConstants, X!PmmConstants

LEMMA StartFacts ==
  ASSUME StartTyped
  PROVE  /\ machine \in Seq(Nat) /\ Len(machine) \in Nat /\ Skip \in Nat /\ CtrlCount \in Nat
         /\ CtrlCount \in 0..MAX_CONTROLLERS
         /\ \A h \in 1..Len(machine) : machine[h] \in Nat
         /\ xpc \in Working => Skip + 1 \in 1..Len(machine) /\ CtrlCount \in 0..(MAX_CONTROLLERS - 1)
BY StartBounds DEF StartTyped

LEMMA SizeIsSize == \A S : X!Cardinality(S) = Cardinality(S)
BY DEF X!Cardinality, Cardinality

LEMMA CommittedHas ==
  /\ \A h \in X!Running : X!Reaches(h) \subseteq Committed
  /\ \A s \in X!InUse : X!Copies(s) \subseteq Committed
<1>1. \A h \in X!Running : X!Reaches(h) \subseteq Reached
  BY DEF Reached
<1>2. \A s \in X!InUse : X!Copies(s) \subseteq Copied
  BY DEF Copied
<1> QED BY <1>1, <1>2 DEF Committed

(* Nothing changes for the controllers that run and the entries in use.    *)
LEMMA RunningStay ==
  ASSUME StartTyped, X!OnlyOwnPages, UNCHANGED <<machine, CtrlCount>>,
         hw' \in [1..Len(machine) -> Registers], Ctrls' \in [0..MAX_CONTROLLERS -> Entries],
         \A h \in 1..Len(machine) : h # Skip + 1 => hw'[h] = hw[h],
         Skip + 1 \in 1..Len(machine) => ~hw'[Skip + 1].run,
         \A s \in 0..MAX_CONTROLLERS : s # CtrlCount => Ctrls'[s] = Ctrls[s],
         ~Ctrls'[CtrlCount].Used,
         Committed \subseteq given'
  PROVE  Committed' = Committed /\ X!OnlyOwnPages'
<1>1. X!Running \subseteq 1..Len(machine) /\ \A h \in X!Running : h # Skip + 1 /\ hw'[h] = hw[h]
  BY StartFacts DEF X!Running, StartTyped
<1>2. X!Running' = X!Running
  BY ZenonT(40), <1>1, StartFacts DEF X!Running, StartTyped
<1>3. X!InUse \subseteq 0..MAX_CONTROLLERS /\ \A s \in X!InUse : s # CtrlCount /\ Ctrls'[s] = Ctrls[s]
  BY StartFacts, StartBounds DEF X!InUse, StartTyped
<1>4. X!InUse' = X!InUse
  BY SMTT(80), <1>3, StartFacts, StartBounds DEF X!InUse, StartTyped
<1>5. \A h \in X!Running : X!Reaches(h)' = X!Reaches(h)
  BY <1>1 DEF X!Reaches
<1>6. \A s \in X!InUse : X!Copies(s)' = X!Copies(s)
  BY <1>3 DEF X!Copies
<1>7. Committed' = Committed
  BY <1>2, <1>4, <1>5, <1>6 DEF Committed, Reached, Copied
<1>8. /\ \A h \in X!Running : X!Reaches(h) \subseteq Committed
      /\ \A s \in X!InUse : X!Copies(s) \subseteq Committed
  BY CommittedHas
<1>9. ASSUME NEW h \in X!Running PROVE X!ReachesOwn(h)'
  <2>1. X!ReachesOwn(h) /\ X!Reaches(h) \subseteq given'
    BY <1>8 DEF X!OnlyOwnPages
  <2> QED BY <1>1, <1>2, <1>5, <2>1 DEF X!ReachesOwn
<1>10. ASSUME NEW s \in X!InUse PROVE X!CopiesOwn(s)'
  <2>1. X!CopiesOwn(s) /\ X!Copies(s) \subseteq given'
    BY <1>8 DEF X!OnlyOwnPages
  <2>2. Ctrls'[s] = Ctrls[s] /\ Ctrls[s].hw \in X!Running /\ hw'[Ctrls[s].hw] = hw[Ctrls[s].hw]
    BY ZenonT(40), <1>1, <1>3, <2>1 DEF X!CopiesOwn
  <2> QED BY <1>2, <1>4, <1>5, <1>6, <2>1, <2>2 DEF X!CopiesOwn
<1> QED BY <1>2, <1>4, <1>7, <1>9, <1>10 DEF X!OnlyOwnPages

LEMMA Phases ==
  /\ xpc \in Bouncing => xpc \in HasTable
  /\ xpc \in HasTable => xpc \in HasEvents
  /\ xpc \in HasEvents => xpc \in HasCommands
  /\ xpc \in HasCommands => xpc \in HasArray
  /\ xpc \in HasArray => xpc \in HasDcbaa
  /\ xpc \in HasDcbaa => xpc \in Working
BY DEF Bouncing, HasTable, HasEvents, HasCommands, HasArray, HasDcbaa, Working

LEMMA Taking ==
  ASSUME StartTyped, Pool, NEW p \in clear, NEW here, NEW next, X!DmaPage(here, p, next)
  PROVE  /\ xpc = here /\ xpc' = next /\ UNCHANGED <<machine, Skip, CtrlCount, stage>>
         /\ stage = "run" /\ p \in Nat /\ p < Low4G /\ p \notin held /\ p \notin given
         /\ \A q \in clear : p <= q
         /\ given' = given \cup {p} /\ held' = held \cup {p} /\ clear' = clear \ {p}
BY DEF X!DmaPage, X!Go, X!AllocPageBelow4G, X!LowestClear, X!Take, Pool, StartTyped

(* One page more for one purpose, and no other page.                       *)
LEMMA FreshPage ==
  ASSUME EachForOne, NEW p, p \notin given, given' = given \cup {p}, Committed' = Committed,
         NEW i \in 1..7, \A a \in 1..7 : Mine'[a] \subseteq Mine[a] \cup (IF a = i THEN {p} ELSE {})
  PROVE  EachForOne'
<1>1. ASSUME NEW a \in 1..7 PROVE Mine'[a] \subseteq given' /\ Mine'[a] \cap Committed = {}
  BY DEF EachForOne
<1>2. ASSUME NEW a \in 1..7, NEW b \in 1..7, a # b PROVE Mine'[a] \cap Mine'[b] = {}
  <2>1. Mine[a] \cap Mine[b] = {} /\ p \notin Mine[a] /\ p \notin Mine[b]
    BY <1>2 DEF EachForOne
  <2> QED BY <1>2, <2>1
<1> QED BY <1>1, <1>2 DEF EachForOne

LEMMA NoFreshPage ==
  ASSUME EachForOne, UNCHANGED given, Committed' = Committed,
         \A a \in 1..7 : Mine'[a] \subseteq Mine[a]
  PROVE  EachForOne'
<1>1. ASSUME NEW a \in 1..7 PROVE Mine'[a] \subseteq given' /\ Mine'[a] \cap Committed = {}
  BY DEF EachForOne
<1>2. ASSUME NEW a \in 1..7, NEW b \in 1..7, a # b PROVE Mine'[a] \cap Mine'[b] = {}
  <2>1. Mine[a] \cap Mine[b] = {}
    BY <1>2 DEF EachForOne
  <2> QED BY <1>2, <2>1
<1> QED BY <1>1, <1>2 DEF EachForOne

LEMMA SevenPurposes ==
  ASSUME NEW F, NEW G,
         F[1] \subseteq G[1], F[2] \subseteq G[2], F[3] \subseteq G[3], F[4] \subseteq G[4],
         F[5] \subseteq G[5], F[6] \subseteq G[6], F[7] \subseteq G[7]
  PROVE  \A a \in 1..7 : F[a] \subseteq G[a]
<1>1. \A a \in 1..7 : a = 1 \/ a = 2 \/ a = 3 \/ a = 4 \/ a = 5 \/ a = 6 \/ a = 7
  OBVIOUS
<1> QED BY <1>1

LEMMA NothingIsMine ==
  ASSUME xpc' \notin HasDcbaa
  PROVE  (\A a \in 1..7 : Mine'[a] = {}) /\ Written' /\ Runs'
<1>1. xpc' \notin Bouncing /\ xpc' \notin HasTable /\ xpc' \notin HasEvents
      /\ xpc' \notin HasCommands /\ xpc' \notin HasArray /\ xpc' # "pads" /\ xpc' # "start"
  BY DEF HasDcbaa, HasArray, HasCommands, HasEvents, HasTable, Bouncing
<1>2. \A a \in 1..7 : a = 1 \/ a = 2 \/ a = 3 \/ a = 4 \/ a = 5 \/ a = 6 \/ a = 7
  OBVIOUS
<1>3. \A a \in 1..7 : Mine'[a] = {}
  BY <1>1, <1>2 DEF Mine
<1>4. Written'
  BY <1>1 DEF Written
<1>5. Runs'
  BY <1>1 DEF Runs
<1> QED BY <1>3, <1>4, <1>5

(* A controller that is given up leaves its pages behind.                  *)
LEMMA GivenUp ==
  ASSUME StartInv, xpc \in Working, X!GiveUp, UNCHANGED <<given, held, stage>>,
         hw' \in [1..Len(machine) -> Registers], Ctrls' \in [0..MAX_CONTROLLERS -> Entries],
         \A h \in 1..Len(machine) : h # Skip + 1 => hw'[h] = hw[h],
         ~hw'[Skip + 1].run,
         \A s \in 0..MAX_CONTROLLERS : s # CtrlCount => Ctrls'[s] = Ctrls[s],
         ~Ctrls'[CtrlCount].Used
  PROVE  StartInv'
<1>0. StartTyped /\ EachForOne /\ X!OnlyOwnPages
  BY DEF StartInv
<1>1. /\ UNCHANGED <<machine, CtrlCount>> /\ Skip' = Skip + 1 /\ xpc' \in {"find", "probed"}
      /\ xpc' = "find" => Skip + 1 < Len(machine) /\ Skip + 1 < MAX_CONTROLLERS
  BY DEF X!GiveUp, X!NextController
<1>2. Committed' = Committed /\ X!OnlyOwnPages'
  BY <1>0, <1>1, RunningStay DEF EachForOne
<1>3. xpc' \notin HasDcbaa /\ xpc' \notin {"dcbaa"} \cup HasDcbaa
  BY <1>1 DEF HasDcbaa, HasArray, HasCommands, HasEvents, HasTable, Bouncing
<1>4. (\A a \in 1..7 : Mine'[a] = {}) /\ Written' /\ Runs'
  BY <1>3, NothingIsMine
<1>5. EachForOne'
  BY <1>0, <1>2, <1>4, NoFreshPage
<1>6. StartTyped'
  <2>1. Skip' \in 0..Len(machine)' /\ CtrlCount' \in 0..Skip' /\ CtrlCount' <= MAX_CONTROLLERS
    BY <1>0, <1>1, StartFacts DEF StartTyped
  <2>2. xpc' \in Working => Skip' < Len(machine) /\ CtrlCount' < MAX_CONTROLLERS /\ Skip' < MAX_CONTROLLERS
    BY <1>0, <1>1, StartFacts, StartBounds DEF StartTyped, Working, HasDcbaa, HasArray, HasCommands, HasEvents, HasTable, Bouncing
  <2>3. \A s \in 0..MAX_CONTROLLERS : Ctrls'[s].Used <=> s < CtrlCount'
    BY <1>0, <1>1, StartFacts DEF StartTyped
  <2>4. \A h \in 1..Len(machine) : hw'[h].run => h <= Skip'
    BY <1>0, <1>1, StartFacts DEF StartTyped
  <2>5. xpc' \in {"unprobed", "probed"} \cup Working
    BY <1>1 DEF Working
  <2>6. machine' \in Machines /\ xpc' # "unprobed" /\ given' \subseteq held' /\ (\A p \in given' : p < Low4G)
        /\ stage' = "run"
    BY <1>0, <1>1 DEF StartTyped, Working, HasDcbaa, HasArray, HasCommands, HasEvents, HasTable, Bouncing
  <2> QED BY <1>1, <1>3, <2>1, <2>2, <2>3, <2>4, <2>5, <2>6 DEF StartTyped
<1> QED BY <1>2, <1>4, <1>5, <1>6 DEF StartInv

(* A step of ControllerInit changes only what is kept of its controller.   *)
LEMMA GoesOn ==
  ASSUME StartInv, xpc \in Working, UNCHANGED <<machine, Skip, CtrlCount, stage>>,
         xpc' \in {"dcbaa"} \cup HasDcbaa,
         hw' \in [1..Len(machine) -> Registers], Ctrls' \in [0..MAX_CONTROLLERS -> Entries],
         \A h \in 1..Len(machine) : h # Skip + 1 => hw'[h] = hw[h],
         \A s \in 0..MAX_CONTROLLERS : s # CtrlCount => Ctrls'[s] = Ctrls[s],
         ~hw'[Skip + 1].run, ~Ctrls'[CtrlCount].Used, Ctrls'[CtrlCount].hw = Skip + 1,
         given' \subseteq held', \A p \in given' : p < Low4G, Committed \subseteq given'
  PROVE  StartTyped' /\ Committed' = Committed /\ X!OnlyOwnPages'
<1>0. StartTyped /\ EachForOne /\ X!OnlyOwnPages
  BY DEF StartInv
<1>1. Committed' = Committed /\ X!OnlyOwnPages'
  BY <1>0, RunningStay
<1>2. xpc' \in Working /\ xpc' # "unprobed" /\ stage' = "run" /\ xpc \in Working
  BY <1>0 DEF StartTyped, Working, HasDcbaa, HasArray, HasCommands, HasEvents, HasTable, Bouncing
<1>3. \A s \in 0..MAX_CONTROLLERS : Ctrls'[s].Used <=> s < CtrlCount
  BY <1>0, StartFacts DEF StartTyped
<1>4. \A h \in 1..Len(machine) : hw'[h].run => h <= Skip
  BY ZenonT(40), <1>0, StartFacts DEF StartTyped
<1>5. /\ machine \in Machines /\ Skip \in 0..Len(machine) /\ CtrlCount \in 0..Skip
      /\ CtrlCount <= MAX_CONTROLLERS
      /\ Skip < Len(machine) /\ CtrlCount < MAX_CONTROLLERS /\ Skip < MAX_CONTROLLERS
  BY <1>0 DEF StartTyped
<1> QED BY <1>1, <1>2, <1>3, <1>4, <1>5 DEF StartTyped

(* What is known of the controller being brought up.                       *)
LEMMA NotYet ==
  ASSUME StartTyped, xpc \in Working
  PROVE  /\ ~hw[Skip + 1].run /\ hw[Skip + 1].run \in BOOLEAN
         /\ ~Ctrls[CtrlCount].Used /\ Ctrls[CtrlCount].Used \in BOOLEAN
         /\ hw[Skip + 1] \in Registers /\ Ctrls[CtrlCount] \in Entries
<1>1. Skip + 1 \in 1..Len(machine) /\ CtrlCount \in 0..MAX_CONTROLLERS /\ Skip \in Nat /\ CtrlCount \in Nat
  BY StartFacts, StartBounds
<1>2. hw[Skip + 1] \in Registers /\ Ctrls[CtrlCount] \in Entries
  BY <1>1 DEF StartTyped
<1>3. hw[Skip + 1].run => Skip + 1 <= Skip
  BY <1>1 DEF StartTyped
<1>4. Ctrls[CtrlCount].Used => CtrlCount < CtrlCount
  BY <1>1 DEF StartTyped
<1>5. hw[Skip + 1].run \in BOOLEAN /\ Ctrls[CtrlCount].Used \in BOOLEAN
  BY <1>2 DEF Registers, Entries
<1>6. ~hw[Skip + 1].run /\ ~Ctrls[CtrlCount].Used
  BY <1>1, <1>3, <1>4
<1> QED BY <1>2, <1>5, <1>6

LEMMA Probing == ASSUME StartInv, X!Probe PROVE StartInv'
<1>0. StartTyped /\ EachForOne /\ X!OnlyOwnPages
  BY DEF StartInv
<1>1. /\ xpc = "unprobed" /\ stage = "run" /\ xpc' \in {"probed", "find"}
      /\ xpc' = "find" => machine # <<>>
      /\ UNCHANGED <<machine, Skip, CtrlCount, vars, Ctrls, hw, given>>
  BY DEF X!Probe, X!Go, X!vars, vars
<1>2. Skip = 0 /\ CtrlCount = 0 /\ (machine # <<>> => Len(machine) > 0)
  BY <1>0, <1>1, StartFacts DEF StartTyped
<1>3. xpc' \notin HasDcbaa /\ xpc' \notin {"dcbaa"} \cup HasDcbaa /\ (xpc' \in Working => xpc' = "find")
      /\ xpc' \in {"unprobed", "probed"} \cup Working
  BY <1>1 DEF Working, HasDcbaa, HasArray, HasCommands, HasEvents, HasTable, Bouncing
<1>4. (\A a \in 1..7 : Mine'[a] = {}) /\ Written' /\ Runs'
  BY <1>3, NothingIsMine
<1>5. Committed' = Committed
  BY <1>1 DEF Committed, Reached, Copied, X!Running, X!InUse, X!Reaches, X!Copies
<1>6. X!OnlyOwnPages'
  BY ZenonT(120), <1>0, <1>1 DEF X!OnlyOwnPages, X!ReachesOwn, X!CopiesOwn, X!Running, X!InUse, X!Reaches, X!Copies
<1>7. StartTyped'
  BY <1>0, <1>1, <1>2, <1>3, StartBounds DEF StartTyped, vars
<1>8. EachForOne'
  BY <1>0, <1>1, <1>4, <1>5, NoFreshPage
<1> QED BY <1>4, <1>6, <1>7, <1>8 DEF StartInv

LEMMA Resetting == ASSUME StartInv, X!FindAndReset PROVE StartInv'
<1>0. StartTyped /\ EachForOne /\ X!OnlyOwnPages
  BY DEF StartInv
<1>1. xpc = "find" /\ xpc \in Working /\ UNCHANGED <<given, held, stage>>
  BY DEF X!FindAndReset, Working, X!vars
<1>2. Skip + 1 \in 1..Len(machine) /\ CtrlCount \in 0..MAX_CONTROLLERS /\ Skip \in Nat
  BY <1>0, <1>1, StartFacts, StartBounds
<1>3. CASE X!GiveUp /\ UNCHANGED <<hw, Ctrls>>
  <2>1. /\ hw' \in [1..Len(machine) -> Registers] /\ Ctrls' \in [0..MAX_CONTROLLERS -> Entries]
        /\ \A h \in 1..Len(machine) : h # Skip + 1 => hw'[h] = hw[h]
        /\ \A s \in 0..MAX_CONTROLLERS : s # CtrlCount => Ctrls'[s] = Ctrls[s]
        /\ ~hw'[Skip + 1].run /\ ~Ctrls'[CtrlCount].Used
    BY <1>0, <1>1, <1>3, NotYet DEF StartTyped
  <2> QED BY <1>1, <1>3, <2>1, GivenUp
<1>4. CASE X!Write(X!AsFound) /\ X!Set("hw", Skip + 1) /\ (X!Go("dcbaa") \/ X!GiveUp)
  <2>1. X!AsFound \in Registers /\ X!AsFound.run = FALSE
    BY DEF X!AsFound, Registers
  <2>2. hw' = [hw EXCEPT ![Skip + 1] = X!AsFound]
    BY <1>4 DEF X!Write
  <2>3. /\ hw' \in [1..Len(machine) -> Registers]
        /\ \A h \in 1..Len(machine) : h # Skip + 1 => hw'[h] = hw[h]
        /\ ~hw'[Skip + 1].run
    BY <1>0, <1>2, <2>1, <2>2 DEF StartTyped
  <2>4. Ctrls' = [Ctrls EXCEPT ![CtrlCount] = [Ctrls[CtrlCount] EXCEPT !.hw = Skip + 1]]
    BY ZenonT(40), <1>4 DEF X!Set
  <2>5. /\ Ctrls' \in [0..MAX_CONTROLLERS -> Entries]
        /\ \A s \in 0..MAX_CONTROLLERS : s # CtrlCount => Ctrls'[s] = Ctrls[s]
        /\ Ctrls'[CtrlCount].hw = Skip + 1 /\ Ctrls'[CtrlCount].Used = Ctrls[CtrlCount].Used
    <3>1. Ctrls[CtrlCount] \in Entries
      BY <1>0, <1>1, NotYet
    <3>2. /\ [Ctrls[CtrlCount] EXCEPT !.hw = Skip + 1] \in Entries
          /\ [Ctrls[CtrlCount] EXCEPT !.hw = Skip + 1].hw = Skip + 1
          /\ [Ctrls[CtrlCount] EXCEPT !.hw = Skip + 1].Used = Ctrls[CtrlCount].Used
      BY SMTT(80), <1>2, <3>1 DEF Entries
    <3> QED BY <1>0, <1>2, <2>4, <3>2 DEF StartTyped
  <2>6. ~Ctrls'[CtrlCount].Used
    BY <1>0, <1>1, <2>5, NotYet
  <2>7. CASE X!GiveUp
    BY <1>1, <2>3, <2>5, <2>6, <2>7, GivenUp
  <2>8. CASE X!Go("dcbaa")
    <3>1. xpc' = "dcbaa" /\ UNCHANGED <<machine, Skip, CtrlCount>>
      BY <2>8 DEF X!Go
    <3>2. Committed \subseteq given' /\ given' \subseteq held' /\ \A p \in given' : p < Low4G
      BY <1>0, <1>1 DEF EachForOne, StartTyped
    <3>3. StartTyped' /\ Committed' = Committed /\ X!OnlyOwnPages'
      BY <1>1, <2>3, <2>5, <2>6, <3>1, <3>2, GoesOn
    <3>4. xpc' \notin HasDcbaa
      BY <3>1 DEF HasDcbaa, HasArray, HasCommands, HasEvents, HasTable, Bouncing
    <3>5. (\A a \in 1..7 : Mine'[a] = {}) /\ Written' /\ Runs'
      BY <3>4, NothingIsMine
    <3>6. EachForOne'
      BY <1>0, <1>1, <3>3, <3>5, NoFreshPage
    <3> QED BY <3>3, <3>5, <3>6 DEF StartInv
  <2> QED BY <1>4, <2>7, <2>8
<1> QED BY <1>3, <1>4 DEF X!FindAndReset

LEMMA GivingUp == ASSUME StartInv, X!NoDmaPage \/ X!TooMany PROVE StartInv'
<1>0. StartTyped
  BY DEF StartInv
<1>1. xpc \in Working /\ X!GiveUp /\ UNCHANGED <<given, held, stage, hw, Ctrls>>
  BY DEF X!NoDmaPage, X!TooMany, X!vars, Working, HasDcbaa, HasArray, HasCommands, HasEvents, HasTable, Bouncing
<1>2. /\ hw' \in [1..Len(machine) -> Registers] /\ Ctrls' \in [0..MAX_CONTROLLERS -> Entries]
      /\ \A h \in 1..Len(machine) : h # Skip + 1 => hw'[h] = hw[h]
      /\ \A s \in 0..MAX_CONTROLLERS : s # CtrlCount => Ctrls'[s] = Ctrls[s]
      /\ ~hw'[Skip + 1].run /\ ~Ctrls'[CtrlCount].Used
  BY <1>0, <1>1, NotYet DEF StartTyped
<1> QED BY <1>1, <1>2, GivenUp

(* A page is taken and what is kept of the controller may change.          *)
LEMMA TakesAndKeeps ==
  ASSUME StartInv, Pool, NEW p \in clear, NEW here \in {"dcbaa"} \cup HasDcbaa, NEW next \in HasDcbaa,
         X!DmaPage(here, p, next),
         NEW new \in Entries, new.hw = Skip + 1, new.Used = Ctrls[CtrlCount].Used,
         Ctrls' = [Ctrls EXCEPT ![CtrlCount] = new],
         NEW reg \in Registers, reg.run = hw[Skip + 1].run, hw' = [hw EXCEPT ![Skip + 1] = reg]
  PROVE  /\ StartTyped' /\ Committed' = Committed /\ X!OnlyOwnPages'
         /\ Ctrls'[CtrlCount] = new /\ hw'[Skip + 1] = reg
<1>0. StartTyped /\ EachForOne
  BY DEF StartInv
<1>1. /\ xpc = here /\ xpc' = next /\ UNCHANGED <<machine, Skip, CtrlCount, stage>>
      /\ given' = given \cup {p} /\ held' = held \cup {p} /\ p < Low4G
  BY <1>0, Taking
<1>2. xpc \in Working
  BY <1>1 DEF Working
<1>3. Skip + 1 \in 1..Len(machine) /\ CtrlCount \in 0..MAX_CONTROLLERS /\ Skip \in Nat
  BY <1>0, <1>2, StartFacts, StartBounds
<1>4. /\ Ctrls' \in [0..MAX_CONTROLLERS -> Entries] /\ hw' \in [1..Len(machine) -> Registers]
      /\ \A h \in 1..Len(machine) : h # Skip + 1 => hw'[h] = hw[h]
      /\ \A s \in 0..MAX_CONTROLLERS : s # CtrlCount => Ctrls'[s] = Ctrls[s]
      /\ Ctrls'[CtrlCount] = new /\ hw'[Skip + 1] = reg
  BY <1>0, <1>3 DEF StartTyped
<1>5. ~hw'[Skip + 1].run /\ ~Ctrls'[CtrlCount].Used /\ Ctrls'[CtrlCount].hw = Skip + 1
  BY <1>0, <1>2, <1>4, NotYet
<1>6. given' \subseteq held' /\ (\A q \in given' : q < Low4G) /\ Committed \subseteq given'
  BY <1>0, <1>1 DEF StartTyped, EachForOne
<1>7. xpc' \in {"dcbaa"} \cup HasDcbaa /\ UNCHANGED <<machine, Skip, CtrlCount, stage>>
  BY <1>1
<1>8. StartTyped' /\ Committed' = Committed /\ X!OnlyOwnPages'
  BY <1>2, <1>4, <1>5, <1>6, <1>7, GoesOn
<1> QED BY <1>4, <1>8

(* What is kept is kept.                                                   *)
LEMMA Same ==
  ASSUME StartTyped, xpc \in {"dcbaa"} \cup HasDcbaa
  PROVE  /\ Skip + 1 \in 1..Len(machine) /\ CtrlCount \in 0..MAX_CONTROLLERS
         /\ xpc \in Working /\ Ctrls[CtrlCount].hw = Skip + 1
         /\ Ctrls = [Ctrls EXCEPT ![CtrlCount] = Ctrls[CtrlCount]]
         /\ hw = [hw EXCEPT ![Skip + 1] = hw[Skip + 1]]
         /\ hw[Skip + 1] \in Registers /\ Ctrls[CtrlCount] \in Entries
<1>1. xpc \in Working
  BY DEF Working
<1>2. Skip + 1 \in 1..Len(machine) /\ CtrlCount \in 0..MAX_CONTROLLERS
  BY <1>1, StartFacts, StartBounds
<1>3. /\ Ctrls = [Ctrls EXCEPT ![CtrlCount] = Ctrls[CtrlCount]]
      /\ hw = [hw EXCEPT ![Skip + 1] = hw[Skip + 1]]
  BY <1>2 DEF StartTyped
<1> QED BY <1>1, <1>2, <1>3, NotYet DEF StartTyped

LEMMA ForTheArray == ASSUME StartInv, Pool, NEW p \in clear, X!Dcbaa(p) PROVE StartInv'
<1> DEFINE next == IF machine[Skip + 1] = 0 THEN "dcbaap" ELSE "pads"
           new == [Ctrls[CtrlCount] EXCEPT !.Dcbaa = p]
<1>0. StartTyped /\ EachForOne /\ Written
  BY DEF StartInv
<1>1. /\ X!DmaPage("dcbaa", p, next) /\ Ctrls' = [Ctrls EXCEPT ![CtrlCount] = new]
      /\ Scratchpads' = {} /\ UNCHANGED hw
  BY ZenonT(40) DEF X!Dcbaa, X!Set
<1>2. /\ xpc = "dcbaa" /\ xpc' = next /\ UNCHANGED <<machine, Skip, CtrlCount>>
      /\ given' = given \cup {p} /\ p \in Nat /\ p \notin given
  BY <1>0, <1>1, Taking
<1>3. next \in HasDcbaa /\ xpc' \notin HasArray /\ xpc \notin HasDcbaa /\ xpc \in {"dcbaa"} \cup HasDcbaa
  BY <1>2 DEF HasDcbaa, HasArray, HasCommands, HasEvents, HasTable, Bouncing
<1>4. new \in Entries /\ new.hw = Skip + 1 /\ new.Used = Ctrls[CtrlCount].Used /\ new.Dcbaa = p
  BY ZenonT(40), <1>0, <1>2, <1>3, Same DEF Entries
<1>5. hw' = [hw EXCEPT ![Skip + 1] = hw[Skip + 1]] /\ hw[Skip + 1] \in Registers
  BY <1>0, <1>1, <1>3, Same
<1>6. /\ StartTyped' /\ Committed' = Committed /\ X!OnlyOwnPages'
      /\ Ctrls'[CtrlCount] = new
  BY ZenonT(40), <1>1, <1>3, <1>4, <1>5, TakesAndKeeps
<1>7. xpc' \notin HasCommands /\ xpc' \notin HasEvents /\ xpc' \notin HasTable /\ xpc' \notin Bouncing
  BY <1>3 DEF HasArray, HasCommands, HasEvents, HasTable
<1>8. Mine' = <<{p}, {}, {}, {}, {}, {}, {}>>
  BY ZenonT(40), <1>1, <1>2, <1>3, <1>4, <1>6, <1>7 DEF Mine
<1>9. EachForOne'
  <2>1. \A a \in 1..7 : Mine'[a] \subseteq Mine[a] \cup (IF a = 1 THEN {p} ELSE {})
    BY <1>8
  <2> QED BY <1>0, <1>2, <1>6, <2>1, FreshPage
<1>10. Written'
  <2>1. IsFiniteSet(Scratchpads') /\ Cardinality(Scratchpads') = 0
    BY <1>1, FS_EmptySet
  <2>2. machine[Skip + 1] \in Nat
    BY <1>0, <1>3, Same, StartFacts
  <2> QED BY <1>2, <1>3, <1>7, <2>1, <2>2 DEF Written
<1>11. Runs'
  BY <1>7 DEF Runs
<1> QED BY <1>6, <1>9, <1>10, <1>11 DEF StartInv

LEMMA ForScratchpads == ASSUME StartInv, Pool, NEW p \in clear, X!Scratchpad(p) PROVE StartInv'
<1> DEFINE next == IF Cardinality(Scratchpads) = machine[Skip + 1] THEN "dcbaap" ELSE "pads"
<1>0. StartTyped /\ EachForOne /\ Written
  BY DEF StartInv
<1>1. /\ X!DmaPage("pads", p, next) /\ UNCHANGED <<Ctrls, hw>> /\ Scratchpads' = Scratchpads \cup {p}
  BY SizeIsSize DEF X!Scratchpad
<1>2. /\ xpc = "pads" /\ xpc' = next /\ UNCHANGED <<machine, Skip, CtrlCount>>
      /\ given' = given \cup {p} /\ p \in Nat /\ p \notin given
  BY <1>0, <1>1, Taking
<1>3. next \in HasDcbaa /\ "pads" \in HasDcbaa /\ xpc' \notin HasArray /\ xpc \in HasDcbaa /\ xpc \in {"dcbaa"} \cup HasDcbaa
  BY <1>2 DEF HasDcbaa, HasArray, HasCommands, HasEvents, HasTable, Bouncing
<1>4. /\ Ctrls' = [Ctrls EXCEPT ![CtrlCount] = Ctrls[CtrlCount]] /\ Ctrls[CtrlCount] \in Entries
      /\ Ctrls[CtrlCount].hw = Skip + 1
  BY <1>0, <1>1, <1>3, Same
<1>5. hw' = [hw EXCEPT ![Skip + 1] = hw[Skip + 1]] /\ hw[Skip + 1] \in Registers
  BY <1>0, <1>1, <1>3, Same
<1>6. StartTyped' /\ Committed' = Committed /\ X!OnlyOwnPages'
  BY ZenonT(40), <1>1, <1>3, <1>4, <1>5, TakesAndKeeps
<1>7. xpc' \notin HasCommands /\ xpc' \notin HasEvents /\ xpc' \notin HasTable /\ xpc' \notin Bouncing
  BY <1>3 DEF HasArray, HasCommands, HasEvents, HasTable
<1>8. Mine' = <<Mine[1], Mine[2] \cup {p}, {}, {}, {}, {}, {}>>
  BY <1>1, <1>2, <1>3, <1>7 DEF Mine
<1>9. EachForOne'
  <2>1. \A a \in 1..7 : Mine'[a] \subseteq Mine[a] \cup (IF a = 2 THEN {p} ELSE {})
    BY <1>8
  <2> QED BY <1>0, <1>2, <1>6, <2>1, FreshPage
<1>10. Written'
  <2>1. IsFiniteSet(Scratchpads) /\ machine[Skip + 1] \in Nat /\ machine[Skip + 1] > 0
        /\ Cardinality(Scratchpads) <= machine[Skip + 1]
    BY <1>0, <1>2, <1>3, Same, StartFacts DEF Written
  <2>2. Mine[2] = Scratchpads
    BY <1>3 DEF Mine
  <2>3. p \notin Scratchpads
    BY <1>0, <1>2, <2>2 DEF EachForOne
  <2>4. IsFiniteSet(Scratchpads') /\ Cardinality(Scratchpads') = Cardinality(Scratchpads) + 1
        /\ Cardinality(Scratchpads) \in Nat
    BY <1>1, <2>1, <2>3, FS_AddElement, FS_CardinalityType
  <2> QED BY <1>2, <1>3, <1>7, <2>1, <2>4 DEF Written
<1>11. Runs'
  BY <1>7 DEF Runs
<1> QED BY <1>6, <1>9, <1>10, <1>11 DEF StartInv

LEMMA ArrayWritten == ASSUME StartInv, Pool, X!WriteDcbaap PROVE StartInv'
<1> DEFINE reg == [hw[Skip + 1] EXCEPT !.dcbaap = Ctrls[CtrlCount].Dcbaa, !.pads = Scratchpads]
<1>0. StartTyped /\ EachForOne /\ Written
  BY DEF StartInv
<1>1. /\ xpc = "dcbaap" /\ xpc' = "cmd" /\ UNCHANGED <<machine, Skip, CtrlCount, stage, given, held>>
      /\ hw' = [hw EXCEPT ![Skip + 1] = reg] /\ UNCHANGED <<Ctrls, Scratchpads>>
  BY DEF X!WriteDcbaap, X!Go, X!Write, X!H, X!X, X!vars
<1>2. /\ xpc \in HasDcbaa /\ xpc \in {"dcbaa"} \cup HasDcbaa /\ xpc # "pads"
      /\ xpc' \in {"dcbaa"} \cup HasDcbaa /\ xpc' \in HasDcbaa /\ xpc' \in HasArray /\ xpc' # "pads"
      /\ xpc' \notin HasCommands /\ xpc' \notin HasEvents /\ xpc' \notin HasTable /\ xpc' \notin Bouncing
  BY <1>1 DEF HasDcbaa, HasArray, HasCommands, HasEvents, HasTable, Bouncing
<1>3. /\ Skip + 1 \in 1..Len(machine) /\ CtrlCount \in 0..MAX_CONTROLLERS /\ xpc \in Working
      /\ Ctrls[CtrlCount].hw = Skip + 1 /\ hw[Skip + 1] \in Registers /\ Ctrls[CtrlCount] \in Entries
      /\ ~hw[Skip + 1].run /\ ~Ctrls[CtrlCount].Used
  BY <1>0, <1>2, Same, NotYet
<1>4. /\ reg \in Registers /\ reg.run = hw[Skip + 1].run
      /\ reg.dcbaap = Ctrls[CtrlCount].Dcbaa /\ reg.pads = Scratchpads
  <2>1. Mine[2] = Scratchpads
    BY <1>2 DEF Mine
  <2>2. Mine[2] \subseteq given
    BY <1>0 DEF EachForOne
  <2>3. Scratchpads \in SUBSET Nat
    BY ZenonT(40), <1>0, <2>1, <2>2 DEF StartTyped, Pool
  <2>4. Ctrls[CtrlCount].Dcbaa \in Nat
    BY <1>3 DEF Entries
  <2> QED BY ZenonT(40), <1>3, <2>3, <2>4 DEF Registers
<1>5. /\ Ctrls' \in [0..MAX_CONTROLLERS -> Entries] /\ hw' \in [1..Len(machine) -> Registers]
      /\ \A h \in 1..Len(machine) : h # Skip + 1 => hw'[h] = hw[h]
      /\ hw'[Skip + 1] = reg
  BY <1>0, <1>1, <1>3, <1>4 DEF StartTyped
<1>6. StartTyped' /\ Committed' = Committed /\ X!OnlyOwnPages'
  <2>1. /\ ~hw'[Skip + 1].run /\ ~Ctrls'[CtrlCount].Used /\ Ctrls'[CtrlCount].hw = Skip + 1
        /\ \A s \in 0..MAX_CONTROLLERS : s # CtrlCount => Ctrls'[s] = Ctrls[s]
    BY <1>1, <1>3, <1>4, <1>5
  <2>2. given' \subseteq held' /\ (\A q \in given' : q < Low4G) /\ Committed \subseteq given'
    BY <1>0, <1>1 DEF StartTyped, EachForOne
  <2>3. UNCHANGED <<machine, Skip, CtrlCount, stage>>
    BY <1>1
  <2> QED BY <1>2, <1>3, <1>5, <2>1, <2>2, <2>3, GoesOn
<1>7. Mine' = <<Mine[1], Mine[2], {}, {}, {}, {}, {}>>
  BY <1>1, <1>2 DEF Mine
<1>8. EachForOne'
  <2>1. \A a \in 1..7 : Mine'[a] \subseteq Mine[a]
    BY <1>7
  <2> QED BY <1>0, <1>1, <1>6, <2>1, NoFreshPage
<1>9. Written'
  BY <1>0, <1>1, <1>2, <1>4, <1>5 DEF Written
<1>10. Runs'
  BY <1>2 DEF Runs
<1> QED BY <1>6, <1>8, <1>9, <1>10 DEF StartInv

LEMMA ForCommands == ASSUME StartInv, Pool, NEW p \in clear, X!CommandRing(p) PROVE StartInv'
<1> DEFINE new == [Ctrls[CtrlCount] EXCEPT !.Cmd = p]
           reg == [hw[Skip + 1] EXCEPT !.crcr = p]
<1>0. StartTyped /\ EachForOne /\ Written
  BY DEF StartInv
<1>1. /\ X!DmaPage("cmd", p, "evt") /\ Ctrls' = [Ctrls EXCEPT ![CtrlCount] = new]
      /\ hw' = [hw EXCEPT ![Skip + 1] = reg] /\ UNCHANGED Scratchpads
  BY ZenonT(40) DEF X!CommandRing, X!Set, X!Write, X!H
<1>2. /\ xpc = "cmd" /\ xpc' = "evt" /\ UNCHANGED <<machine, Skip, CtrlCount>>
      /\ given' = given \cup {p} /\ p \in Nat /\ p \notin given
  BY <1>0, <1>1, Taking
<1>3. /\ xpc \in HasArray /\ xpc \in HasDcbaa /\ xpc \in {"dcbaa"} \cup HasDcbaa /\ xpc # "pads"
      /\ "cmd" \in HasDcbaa /\ "evt" \in HasDcbaa /\ xpc' \in HasDcbaa /\ xpc' \in HasArray
      /\ xpc' \in HasCommands /\ xpc' # "pads"
      /\ xpc' \notin HasEvents /\ xpc' \notin HasTable /\ xpc' \notin Bouncing
  BY <1>2 DEF HasDcbaa, HasArray, HasCommands, HasEvents, HasTable, Bouncing
<1>4. /\ new \in Entries /\ new.hw = Skip + 1 /\ new.Used = Ctrls[CtrlCount].Used
      /\ new.Cmd = p /\ new.Dcbaa = Ctrls[CtrlCount].Dcbaa
  BY ZenonT(40), <1>0, <1>2, <1>3, Same DEF Entries
<1>5. /\ reg \in Registers /\ reg.run = hw[Skip + 1].run /\ reg.crcr = p
      /\ reg.dcbaap = hw[Skip + 1].dcbaap /\ reg.pads = hw[Skip + 1].pads
  BY ZenonT(40), <1>0, <1>2, <1>3, Same DEF Registers
<1>6. /\ StartTyped' /\ Committed' = Committed /\ X!OnlyOwnPages'
      /\ Ctrls'[CtrlCount] = new /\ hw'[Skip + 1] = reg
  BY ZenonT(40), <1>1, <1>3, <1>4, <1>5, TakesAndKeeps
<1>7. Mine' = <<Mine[1], Mine[2], {p}, {}, {}, {}, {}>>
  BY ZenonT(120), <1>1, <1>2, <1>3, <1>4, <1>6 DEF Mine
<1>8. EachForOne'
  <2>1. \A a \in 1..7 : Mine'[a] \subseteq Mine[a] \cup (IF a = 3 THEN {p} ELSE {})
    BY <1>7
  <2> QED BY <1>0, <1>2, <1>6, <2>1, FreshPage
<1>9. Written'
  BY ZenonT(120), <1>0, <1>1, <1>2, <1>3, <1>4, <1>5, <1>6 DEF Written
<1>10. Runs'
  BY <1>3 DEF Runs
<1> QED BY <1>6, <1>8, <1>9, <1>10 DEF StartInv

LEMMA ForEvents == ASSUME StartInv, Pool, NEW p \in clear, X!EventRing(p) PROVE StartInv'
<1> DEFINE new == [Ctrls[CtrlCount] EXCEPT !.Evt = p]
<1>0. StartTyped /\ EachForOne /\ Written
  BY DEF StartInv
<1>1. /\ X!DmaPage("evt", p, "erst") /\ Ctrls' = [Ctrls EXCEPT ![CtrlCount] = new]
      /\ UNCHANGED <<hw, Scratchpads>>
  BY ZenonT(40) DEF X!EventRing, X!Set
<1>2. /\ xpc = "evt" /\ xpc' = "erst" /\ UNCHANGED <<machine, Skip, CtrlCount>>
      /\ given' = given \cup {p} /\ p \in Nat /\ p \notin given
  BY <1>0, <1>1, Taking
<1>3. /\ xpc \in HasArray /\ xpc \in HasDcbaa /\ xpc \in HasCommands
      /\ xpc \in {"dcbaa"} \cup HasDcbaa /\ xpc # "pads"
      /\ "evt" \in HasDcbaa /\ "erst" \in HasDcbaa /\ xpc' \in HasDcbaa /\ xpc' \in HasArray
      /\ xpc' \in HasCommands /\ xpc' \in HasEvents /\ xpc' # "pads"
      /\ xpc' \notin HasTable /\ xpc' \notin Bouncing
  BY <1>2 DEF HasDcbaa, HasArray, HasCommands, HasEvents, HasTable, Bouncing
<1>4. /\ new \in Entries /\ new.hw = Skip + 1 /\ new.Used = Ctrls[CtrlCount].Used
      /\ new.Cmd = Ctrls[CtrlCount].Cmd /\ new.Dcbaa = Ctrls[CtrlCount].Dcbaa /\ new.Evt = p
  BY ZenonT(40), <1>0, <1>2, <1>3, Same DEF Entries
<1>5. hw' = [hw EXCEPT ![Skip + 1] = hw[Skip + 1]] /\ hw[Skip + 1] \in Registers
  BY <1>0, <1>1, <1>3, Same
<1>6. /\ StartTyped' /\ Committed' = Committed /\ X!OnlyOwnPages' /\ Ctrls'[CtrlCount] = new
  BY ZenonT(40), <1>1, <1>3, <1>4, <1>5, TakesAndKeeps
<1>7. Mine' = <<Mine[1], Mine[2], Mine[3], {p}, {}, {}, {}>>
  BY ZenonT(40), <1>1, <1>2, <1>3, <1>4, <1>6 DEF Mine
<1>8. EachForOne'
  <2>1. \A a \in 1..7 : Mine'[a] \subseteq Mine[a] \cup (IF a = 4 THEN {p} ELSE {})
    BY <1>7
  <2> QED BY <1>0, <1>2, <1>6, <2>1, FreshPage
<1>9. Written'
  BY <1>0, <1>1, <1>2, <1>3, <1>4, <1>6 DEF Written
<1>10. Runs'
  BY <1>3 DEF Runs
<1> QED BY <1>6, <1>8, <1>9, <1>10 DEF StartInv

LEMMA ForTheTable == ASSUME StartInv, Pool, NEW p \in clear, X!SegmentTable(p) PROVE StartInv'
<1> DEFINE reg == [hw[Skip + 1] EXCEPT !.erst = p, !.evt = Ctrls[CtrlCount].Evt]
<1>0. StartTyped /\ EachForOne /\ Written
  BY DEF StartInv
<1>1. /\ X!DmaPage("erst", p, "scratch") /\ hw' = [hw EXCEPT ![Skip + 1] = reg]
      /\ UNCHANGED <<Ctrls, Scratchpads>>
  BY DEF X!SegmentTable, X!Write, X!H, X!X
<1>2. /\ xpc = "erst" /\ xpc' = "scratch" /\ UNCHANGED <<machine, Skip, CtrlCount>>
      /\ given' = given \cup {p} /\ p \in Nat /\ p \notin given
  BY <1>0, <1>1, Taking
<1>3. /\ xpc \in HasArray /\ xpc \in HasDcbaa /\ xpc \in HasCommands /\ xpc \in HasEvents
      /\ xpc \in {"dcbaa"} \cup HasDcbaa /\ xpc # "pads"
      /\ "erst" \in HasDcbaa /\ "scratch" \in HasDcbaa /\ xpc' \in HasDcbaa /\ xpc' \in HasArray
      /\ xpc' \in HasCommands /\ xpc' \in HasEvents /\ xpc' \in HasTable /\ xpc' # "pads"
      /\ xpc' \notin Bouncing
  BY <1>2 DEF HasDcbaa, HasArray, HasCommands, HasEvents, HasTable, Bouncing
<1>4. /\ Ctrls' = [Ctrls EXCEPT ![CtrlCount] = Ctrls[CtrlCount]] /\ Ctrls[CtrlCount] \in Entries
      /\ Ctrls[CtrlCount].hw = Skip + 1
  BY <1>0, <1>1, <1>3, Same
<1>5. /\ reg \in Registers /\ reg.run = hw[Skip + 1].run /\ reg.crcr = hw[Skip + 1].crcr
      /\ reg.dcbaap = hw[Skip + 1].dcbaap /\ reg.pads = hw[Skip + 1].pads
      /\ reg.erst = p /\ reg.evt = Ctrls[CtrlCount].Evt
  <2>1. Ctrls[CtrlCount].Evt \in Nat
    BY <1>4 DEF Entries
  <2> QED BY ZenonT(40), <1>0, <1>2, <1>3, <2>1, Same DEF Registers
<1>6. /\ StartTyped' /\ Committed' = Committed /\ X!OnlyOwnPages' /\ hw'[Skip + 1] = reg
  BY ZenonT(40), <1>1, <1>3, <1>4, <1>5, TakesAndKeeps
<1>7. Mine' = <<Mine[1], Mine[2], Mine[3], Mine[4], {p}, {}, {}>>
  BY ZenonT(40), <1>1, <1>2, <1>3, <1>5, <1>6 DEF Mine
<1>8. EachForOne'
  <2>1. \A a \in 1..7 : Mine'[a] \subseteq Mine[a] \cup (IF a = 5 THEN {p} ELSE {})
    BY <1>7
  <2> QED BY <1>0, <1>2, <1>6, <2>1, FreshPage
<1>9. Written'
  BY ZenonT(40), <1>0, <1>1, <1>2, <1>3, <1>4, <1>5, <1>6 DEF Written
<1>10. Runs'
  BY <1>3 DEF Runs
<1> QED BY <1>6, <1>8, <1>9, <1>10 DEF StartInv

LEMMA ForCopying == ASSUME StartInv, Pool, NEW p \in clear, X!ScratchPage(p) PROVE StartInv'
<1> DEFINE new == [Ctrls[CtrlCount] EXCEPT !.Scratch = p]
<1>0. StartTyped /\ EachForOne /\ Written
  BY DEF StartInv
<1>1. /\ X!DmaPage("scratch", p, "contiguous") /\ Ctrls' = [Ctrls EXCEPT ![CtrlCount] = new]
      /\ UNCHANGED <<hw, Scratchpads>>
      /\ All' = <<>> /\ BestStart' = 0 /\ BestLen' = 0 /\ RunStart' = 0 /\ RunLen' = 0
      /\ trim' = 1 /\ wasClear' = clear'
  BY ZenonT(40) DEF X!ScratchPage, X!Set
<1>2. /\ xpc = "scratch" /\ xpc' = "contiguous" /\ UNCHANGED <<machine, Skip, CtrlCount>>
      /\ given' = given \cup {p} /\ p \in Nat /\ p \notin given
      /\ held' = held \cup {p} /\ clear' = clear \ {p}
  BY <1>0, <1>1, Taking
<1>3. /\ xpc \in HasArray /\ xpc \in HasDcbaa /\ xpc \in HasCommands /\ xpc \in HasEvents
      /\ xpc \in HasTable /\ xpc \in {"dcbaa"} \cup HasDcbaa /\ xpc # "pads"
      /\ "contiguous" \in HasDcbaa /\ "scratch" \in HasDcbaa /\ xpc' \in HasDcbaa /\ xpc' \in HasArray
      /\ xpc' \in HasCommands /\ xpc' \in HasEvents /\ xpc' \in HasTable /\ xpc' # "pads"
      /\ xpc' \in Bouncing /\ xpc \notin Bouncing
  BY <1>2 DEF HasDcbaa, HasArray, HasCommands, HasEvents, HasTable, Bouncing
<1>4. /\ new \in Entries /\ new.hw = Skip + 1 /\ new.Used = Ctrls[CtrlCount].Used
      /\ new.Cmd = Ctrls[CtrlCount].Cmd /\ new.Dcbaa = Ctrls[CtrlCount].Dcbaa
      /\ new.Evt = Ctrls[CtrlCount].Evt /\ new.Scratch = p
  BY ZenonT(40), <1>0, <1>2, <1>3, Same DEF Entries
<1>5. hw' = [hw EXCEPT ![Skip + 1] = hw[Skip + 1]] /\ hw[Skip + 1] \in Registers
  BY <1>0, <1>1, <1>3, Same
<1>6. /\ StartTyped' /\ Committed' = Committed /\ X!OnlyOwnPages' /\ Ctrls'[CtrlCount] = new
  BY ZenonT(40), <1>1, <1>3, <1>4, <1>5, TakesAndKeeps
<1>l. Left' = {} /\ Taken' = {}
  BY <1>1 DEF Left, Taken
<1>7. Mine' = <<Mine[1], Mine[2], Mine[3], Mine[4], Mine[5], {p}, {}>>
  BY ZenonT(120), <1>1, <1>2, <1>3, <1>4, <1>6, <1>l DEF Mine
<1>8. EachForOne'
  <2>1. \A a \in 1..7 : Mine'[a] \subseteq Mine[a] \cup (IF a = 6 THEN {p} ELSE {})
    BY <1>7
  <2> QED BY <1>0, <1>2, <1>6, <2>1, FreshPage
<1>9. Written'
  BY <1>0, <1>1, <1>2, <1>3, <1>4, <1>6 DEF Written
<1>10. Runs'
  <2>1. /\ All' \in Seq(Nat) /\ Len(All') = 0 /\ TRIES \in Nat /\ BOUNCE_PAGES \in Nat
    BY <1>1, StartBounds
  <2>2. wasClear' \subseteq Nat /\ held' \cap wasClear' = {} /\ Ctrls'[CtrlCount'].Scratch \notin wasClear'
    <3>1. wasClear' \subseteq Nat /\ held' \cap wasClear' = {} /\ p \notin wasClear'
      BY <1>1, <1>2 DEF Pool
    <3>2. Ctrls'[CtrlCount'].Scratch = p
      BY <1>2, <1>4, <1>6
    <3> QED BY <3>1, <3>2
  <2>3. NoneLonger' /\ Ascending' /\ BestRun'
    <3>1. \A q \in Nat : \E k \in 0..0 : q + k \notin {}
      OBVIOUS
    <3> QED BY <1>1, <1>l, <2>1, <3>1 DEF NoneLonger, Ascending, BestRun
  <2> QED BY <1>1, <1>2, <1>l, <2>1, <2>2, <2>3 DEF Runs
<1> QED BY <1>6, <1>8, <1>9, <1>10 DEF StartInv

(* The least of a set of numbers.                                          *)
LEMMA NatMin ==
  ASSUME NEW T, T \subseteq Nat, T # {}
  PROVE  \E x \in T : \A y \in T : x <= y
<1>1. IsWellFoundedOn(OpToRel(<, Nat), Nat)
  BY ZenonT(40), NatLessThanWellFounded
<1>2. PICK x \in T : \A y \in T : ~(<<y, x>> \in OpToRel(<, Nat))
  BY ZenonT(40), <1>1, WFMin
<1>3. \A y \in T : ~(y < x)
  BY ZenonT(40), <1>2 DEF OpToRel
<1> QED BY <1>3

(* A set of numbers without a run longer than best, and one more above it  *)
(* all, which ends a run of length last.                                   *)
LEMMA NoRunBeyond ==
  ASSUME NEW T, T \subseteq Nat, NEW p \in Nat, \A q \in T : q < p,
         NEW best \in Nat, \A q \in Nat : \E k \in 0..best : q + k \notin T,
         NEW now \in Nat, now >= best, NEW last \in 1..now, p - last \notin T
  PROVE  \A q \in Nat : \E k \in 0..now : q + k \notin T \cup {p}
<1> SUFFICES ASSUME NEW q \in Nat, \A k \in 0..now : q + k \in T \cup {p} PROVE FALSE
  BY ZenonT(40)
<1>1. q + now <= p
  <2>1. now \in 0..now
    OBVIOUS
  <2> QED BY <2>1
<1>2. PICK k \in 0..best : q + k \notin T
  OBVIOUS
<1>3. k \in 0..now /\ q + k = p
  BY <1>2
<1>4. now = best /\ k = now
  BY <1>1, <1>3
<1>5. now - last \in 0..now /\ q + (now - last) = p - last /\ p - last # p
  BY <1>3, <1>4
<1> QED BY <1>5

Above(p) == \A q \in Taken : q < p

(* One page more in the search for consecutive pages.                      *)
LEMMA LongerRun ==
  ASSUME All \in Seq(Nat), NEW p \in Nat, X!TakePage(p), Above(p), Ascending,
         BestLen \in Nat, BestStart \in Nat, BestRun, NoneLonger
  PROVE  /\ BestLen' \in 1..(BestLen + 1) /\ BestStart' \in Nat
         /\ BestRun' /\ NoneLonger' /\ Ascending' /\ Taken' = Taken \cup {p}
<1> DEFINE n == Len(All)
<1>0. /\ All' = Append(All, p)
      /\ RunStart' = IF All # <<>> /\ p = All[n] + 1 THEN RunStart ELSE n + 1
      /\ RunLen' = IF All # <<>> /\ p = All[n] + 1 THEN RunLen + 1 ELSE 1
      /\ BestLen' = IF RunLen' > BestLen THEN RunLen' ELSE BestLen
      /\ BestStart' = IF RunLen' > BestLen THEN RunStart' ELSE BestStart
  BY DEF X!TakePage, X!Last
<1>1. n \in Nat /\ Len(All') = n + 1 /\ All'[n + 1] = p /\ (\A j \in 1..n : All'[j] = All[j] /\ All[j] \in Nat)
      /\ All' # <<>> /\ (All # <<>> => n > 0) /\ (All = <<>> => n = 0)
  <2>1. n \in Nat /\ (\A j \in 1..n : All[j] \in Nat)
    OBVIOUS
  <2>2. Len(All') = n + 1 /\ All'[n + 1] = p /\ (\A j \in 1..n : All'[j] = All[j])
    BY <1>0
  <2>3. All' # <<>> /\ (All # <<>> => n > 0) /\ (All = <<>> => n = 0)
    BY <2>1, <2>2
  <2> QED BY <2>1, <2>2, <2>3
<1>2. Taken' = Taken \cup {p}
  <2>1. Taken' = {All'[k] : k \in 1..(n + 1)}
    BY <1>1 DEF Taken
  <2>2. 1..(n + 1) = (1..n) \cup {n + 1}
    BY <1>1
  <2> QED BY <1>1, <2>1, <2>2 DEF Taken
<1>3. \A q \in Taken : q \in Nat /\ q < p
  BY <1>1 DEF Taken, Above
<1>r. All # <<>> =>
        /\ BestLen >= 1 /\ BestStart >= 1 /\ BestStart + BestLen - 1 <= n
        /\ \A k \in 0..(BestLen - 1) : All[BestStart + k] = All[BestStart] + k
        /\ RunLen \in 1..BestLen /\ RunStart \in 1..n /\ RunStart + RunLen - 1 = n
        /\ \A k \in 0..(RunLen - 1) : All[RunStart + k] = All[RunStart] + k
        /\ All[RunStart] - 1 \notin Taken
  BY DEF BestRun, Consecutive
<1>z. All = <<>> => BestLen = 0
  BY DEF BestRun
<1>4. ASSUME All # <<>>, p = All[n] + 1
      PROVE  /\ Consecutive(RunStart, RunLen)' /\ All'[RunStart'] - 1 \notin Taken'
             /\ RunLen' >= 1 /\ RunLen' <= BestLen + 1 /\ RunStart' \in 1..(n + 1)
             /\ RunStart' + RunLen' - 1 = n + 1 /\ RunLen' \in Nat
  <2>1. /\ RunStart' = RunStart /\ RunLen' = RunLen + 1 /\ RunLen \in 1..BestLen
        /\ RunStart \in 1..n /\ RunStart + RunLen - 1 = n
    BY <1>0, <1>4, <1>r
  <2>2. Consecutive(RunStart, RunLen)'
    <3>1. SUFFICES ASSUME NEW k \in 0..(RunLen' - 1) PROVE All'[RunStart' + k] = All'[RunStart'] + k
      BY DEF Consecutive
    <3>2. CASE k < RunLen
      <4>1. All[RunStart + k] = All[RunStart] + k
        BY <1>4, <1>r, <2>1, <3>2
      <4>2. RunStart + k \in 1..n /\ All'[RunStart + k] = All[RunStart + k] /\ All'[RunStart] = All[RunStart]
        BY <1>1, <2>1, <3>2
      <4> QED BY <2>1, <4>1, <4>2
    <3>3. CASE k = RunLen
      <4>1. All[RunStart + (RunLen - 1)] = All[RunStart] + (RunLen - 1)
        BY SMTT(30), <1>4, <1>r, <2>1
      <4>2. RunStart + (RunLen - 1) = n /\ RunStart + RunLen = n + 1
        BY <1>1, <2>1
      <4>3. All'[RunStart] = All[RunStart] /\ All[RunStart] \in Nat
        BY <1>1, <2>1
      <4> QED BY SMTT(80), <1>1, <1>4, <2>1, <3>3, <4>1, <4>2, <4>3
    <3> QED BY <2>1, <3>2, <3>3
  <2>3. All'[RunStart'] - 1 \notin Taken'
    <3>1. All'[RunStart] = All[RunStart] /\ All[RunStart] \in Taken
      BY <1>1, <2>1 DEF Taken
    <3>2. All[RunStart] - 1 # p /\ All[RunStart] - 1 \notin Taken
      BY SMTT(80), <1>3, <1>4, <1>r, <3>1
    <3> QED BY <1>2, <2>1, <3>1, <3>2
  <2>4. RunLen' >= 1 /\ RunLen' <= BestLen + 1 /\ RunStart' \in 1..(n + 1) /\ RunStart' + RunLen' - 1 = n + 1
        /\ RunLen' \in Nat
    BY <1>1, <2>1
  <2> QED BY <2>2, <2>3, <2>4
<1>5. ASSUME ~(All # <<>> /\ p = All[n] + 1)
      PROVE  /\ Consecutive(RunStart, RunLen)' /\ All'[RunStart'] - 1 \notin Taken'
             /\ RunLen' >= 1 /\ RunLen' <= BestLen + 1 /\ RunStart' \in 1..(n + 1)
             /\ RunStart' + RunLen' - 1 = n + 1 /\ RunLen' \in Nat
  <2>1. RunStart' = n + 1 /\ RunLen' = 1
    BY <1>0, <1>5
  <2>2. Consecutive(RunStart, RunLen)'
    BY <1>1, <2>1 DEF Consecutive
  <2>3. p - 1 \notin Taken
    <3>1. ASSUME p - 1 \in Taken PROVE FALSE
      <4>1. PICK j \in 1..n : All[j] = p - 1
        BY <3>1 DEF Taken
      <4>2. n \in 1..n /\ All # <<>> /\ All[n] \in Nat /\ All[n] < p
        BY <1>1, <1>3, <4>1 DEF Taken
      <4>3. All[j] <= All[n]
        BY <1>1, <4>1, <4>2 DEF Ascending
      <4> QED BY <1>5, <4>1, <4>2, <4>3
    <3> QED BY <3>1
  <2>4. All'[RunStart'] - 1 \notin Taken'
    BY <1>1, <1>2, <2>1, <2>3
  <2> QED BY <1>1, <2>1, <2>2, <2>4
<1>6. /\ RunLen' >= 1 /\ RunLen' <= BestLen + 1 /\ RunStart' \in 1..(n + 1)
      /\ RunStart' + RunLen' - 1 = n + 1 /\ RunLen' \in Nat
  BY <1>4, <1>5
<1>c. Consecutive(RunStart, RunLen)'
  BY <1>4, <1>5
<1>t. All'[RunStart'] - 1 \notin Taken'
  BY <1>4, <1>5
<1>7. /\ BestLen' \in 1..(BestLen + 1) /\ RunLen' <= BestLen' /\ BestLen' >= BestLen
      /\ BestStart' \in Nat /\ BestStart' >= 1 /\ BestStart' + BestLen' - 1 <= n + 1
  <2>1. CASE RunLen' > BestLen
    BY <1>0, <1>1, <1>6, <2>1
  <2>2. CASE ~(RunLen' > BestLen)
    <3>1. BestLen' = BestLen /\ BestStart' = BestStart /\ BestLen >= 1 /\ All # <<>> /\ RunLen' <= BestLen
      BY <1>0, <1>6, <1>z, <2>2
    <3> QED BY <1>1, <1>r, <3>1
  <2> QED BY <2>1, <2>2
<1>8. Consecutive(BestStart, BestLen)'
  <2>1. CASE RunLen' > BestLen
    BY ZenonT(40), <1>0, <1>c, <2>1 DEF Consecutive
  <2>2. CASE ~(RunLen' > BestLen)
    <3>1. /\ All # <<>> /\ BestLen' = BestLen /\ BestStart' = BestStart
          /\ BestStart >= 1 /\ BestStart + BestLen - 1 <= n /\ BestLen >= 1
          /\ \A k \in 0..(BestLen - 1) : All[BestStart + k] = All[BestStart] + k
      <4>1. BestLen' = BestLen /\ BestStart' = BestStart /\ BestLen >= 1 /\ All # <<>>
        BY <1>0, <1>6, <1>z, <2>2
      <4> QED BY <1>r, <4>1
    <3>2. \A k \in 0..(BestLen - 1) : BestStart + k \in 1..n
      BY <1>1, <3>1
    <3>3. BestStart \in 1..n
      BY <1>1, <3>1
    <3>4. \A k \in 0..(BestLen - 1) : All'[BestStart + k] = All'[BestStart] + k
      BY ZenonT(40), <1>1, <3>1, <3>2, <3>3
    <3> QED BY <3>1, <3>4 DEF Consecutive
  <2> QED BY <2>1, <2>2
<1>9. All'[RunStart'] - 1 = p - RunLen'
  <2>1. PICK r \in Nat : r = RunLen'
    BY <1>6
  <2>2. PICK s \in 1..(n + 1) : s = RunStart'
    BY <1>6
  <2>3. r >= 1 /\ s + (r - 1) = n + 1 /\ r - 1 \in 0..(r - 1)
    <3>1. r >= 1 /\ s + r - 1 = n + 1
      BY <1>6, <2>1, <2>2
    <3> QED BY <1>1, <3>1
  <2>4. All'[s + (r - 1)] = All'[s] + (r - 1)
    BY ZenonT(40), <1>c, <2>1, <2>2, <2>3 DEF Consecutive
  <2>5. All'[s] \in Nat
    BY <1>1, <2>3
  <2>6. All'[s] - 1 = p - r
    BY <1>1, <2>3, <2>4, <2>5
  <2> QED BY <2>1, <2>2, <2>6
<1>10. BestRun'
  BY <1>1, <1>6, <1>c, <1>t, <1>7, <1>8 DEF BestRun
<1>11. NoneLonger'
  <2>1. /\ BestLen \in Nat /\ BestLen' \in Nat /\ BestLen' >= BestLen /\ RunLen' \in 1..BestLen'
        /\ Taken \subseteq Nat /\ (\A q \in Taken : q < p) /\ p - RunLen' \notin Taken
    <3>1. BestLen' \in Nat /\ RunLen' \in Nat
      BY <1>6, <1>7
    <3>2. RunLen' \in 1..BestLen' /\ BestLen' >= BestLen
      BY <1>6, <1>7, <3>1
    <3>3. Taken \subseteq Nat /\ \A q \in Taken : q < p
      BY <1>3
    <3>4. p - RunLen' \notin Taken
      BY ONLY <1>2, <1>9, <1>t
    <3> QED BY <3>1, <3>2, <3>3, <3>4
  <2>2. \A q \in Nat : \E k \in 0..BestLen : q + k \notin Taken
    BY ZenonT(40) DEF NoneLonger
  <2>3. \A q \in Nat : \E k \in 0..BestLen' : q + k \notin Taken \cup {p}
    BY ZenonT(40), <2>1, <2>2, NoRunBeyond
  <2> QED BY ZenonT(40), <1>2, <2>3 DEF NoneLonger
<1>12. Ascending'
  <2>1. ASSUME NEW j \in 1..(n + 1), NEW k \in 1..(n + 1), j < k PROVE All'[j] < All'[k]
    <3>1. j \in 1..n /\ All'[j] = All[j] /\ All[j] \in Taken
      BY <1>1, <2>1 DEF Taken
    <3>2. CASE k = n + 1
      BY <1>1, <1>3, <3>1, <3>2
    <3>3. CASE k # n + 1
      BY <1>1, <2>1, <3>1, <3>3 DEF Ascending
    <3> QED BY <3>2, <3>3
  <2> QED BY <1>1, <2>1 DEF Ascending
<1> QED BY <1>2, <1>7, <1>10, <1>11, <1>12

(* The phases of DmaContiguous come after all the others.                  *)
LEMMA BouncingPhases ==
  ASSUME NEW here \in Bouncing
  PROVE  /\ here \in HasTable /\ here \in HasEvents /\ here \in HasCommands /\ here \in HasArray
         /\ here \in HasDcbaa /\ here \in {"dcbaa"} \cup HasDcbaa /\ here \in Working
         /\ here # "pads"
BY DEF Bouncing, HasTable, HasEvents, HasCommands, HasArray, HasDcbaa, Working

LEMMA LeftIsTaken == ASSUME trim = 1 PROVE Left = Taken
BY DEF Left, Taken

LEMMA ForBouncing == ASSUME StartInv, Pool, NEW p \in clear, X!TakePage(p) PROVE StartInv'
<1>0. StartTyped /\ EachForOne /\ Written /\ Runs
  BY DEF StartInv
<1>1. /\ X!DmaPage("contiguous", p, "contiguous") /\ All' = Append(All, p)
      /\ Len(All) < TRIES /\ BestLen < BOUNCE_PAGES
      /\ UNCHANGED <<Ctrls, hw, Scratchpads, trim, wasClear>>
  BY DEF X!TakePage, X!GoesOn
<1>2. /\ xpc = "contiguous" /\ xpc' = "contiguous" /\ UNCHANGED <<machine, Skip, CtrlCount>>
      /\ given' = given \cup {p} /\ p \in Nat /\ p \notin given
      /\ held' = held \cup {p} /\ clear' = clear \ {p} /\ \A q \in clear : p <= q
  BY <1>0, <1>1, Taking
<1>3. xpc \in Bouncing /\ xpc' \in Bouncing /\ "contiguous" \in Bouncing
  BY <1>2 DEF Bouncing
<1>4. /\ Ctrls' = [Ctrls EXCEPT ![CtrlCount] = Ctrls[CtrlCount]] /\ Ctrls[CtrlCount] \in Entries
      /\ Ctrls[CtrlCount].hw = Skip + 1
      /\ hw' = [hw EXCEPT ![Skip + 1] = hw[Skip + 1]] /\ hw[Skip + 1] \in Registers
  BY <1>0, <1>1, <1>3, Same, BouncingPhases
<1>5. StartTyped' /\ Committed' = Committed /\ X!OnlyOwnPages'
  <2>1. "contiguous" \in {"dcbaa"} \cup HasDcbaa /\ "contiguous" \in HasDcbaa
    BY <1>3, BouncingPhases
  <2> QED BY ZenonT(40), <1>1, <1>4, <2>1, TakesAndKeeps
<1>6. /\ All \in Seq(Nat) /\ Ascending /\ Taken \subseteq wasClear /\ wasClear \subseteq Nat
      /\ BestLen \in 0..BOUNCE_PAGES /\ BestStart \in Nat /\ BestRun /\ NoneLonger
      /\ held \cap wasClear = Left /\ Ctrls[CtrlCount].Scratch \notin wasClear
      /\ trim = 1 /\ wasClear = clear \cup Taken
      /\ \A q \in Taken : \A r \in clear : q < r
  BY <1>0, <1>2, <1>3 DEF Runs
<1>7. /\ BestLen' \in 1..(BestLen + 1) /\ BestStart' \in Nat
      /\ BestRun' /\ NoneLonger' /\ Ascending' /\ Taken' = Taken \cup {p}
  <2>1. Above(p)
    BY <1>6 DEF Above
  <2> QED BY <1>2, <1>6, <2>1, LongerRun
<1>8. Left = Taken /\ Left' = Taken'
  BY <1>1, <1>6 DEF Left, Taken
<1>9. Mine' = [Mine EXCEPT ![7] = Mine[7] \cup {p}]
  <2>1. Mine' = <<Mine[1], Mine[2], Mine[3], Mine[4], Mine[5], Mine[6], Mine[7] \cup {p}>>
    BY <1>1, <1>2, <1>3, <1>7, <1>8, BouncingPhases DEF Mine
  <2>2. Mine = <<Mine[1], Mine[2], Mine[3], Mine[4], Mine[5], Mine[6], Mine[7]>>
    BY DEF Mine
  <2> QED BY <2>1, <2>2
<1>10. EachForOne'
  <2>1. \A a \in 1..7 : Mine'[a] \subseteq Mine[a] \cup (IF a = 7 THEN {p} ELSE {})
    BY <1>9
  <2> QED BY <1>0, <1>2, <1>5, <2>1, FreshPage
<1>11. Written'
  BY <1>0, <1>1, <1>2, <1>3, BouncingPhases DEF Written
<1>12. Runs'
  <2>1. All' \in Seq(Nat) /\ Len(All') = Len(All) + 1 /\ Len(All) \in Nat
    BY <1>1, <1>2, <1>6
  <2>2. Len(All') <= TRIES /\ BestLen' \in 0..BOUNCE_PAGES /\ trim' \in 1..(Len(All') + 1)
    BY <1>1, <1>6, <1>7, <2>1, StartBounds
  <2>3. Taken' \subseteq wasClear' /\ wasClear' \subseteq Nat /\ held' \cap wasClear' = Left'
        /\ wasClear' = clear' \cup Taken'
    BY <1>1, <1>2, <1>6, <1>7, <1>8
  <2>4. \A q \in Taken' : \A r \in clear' : q < r
    <3>1. ASSUME NEW r \in clear' PROVE p < r
      BY <1>2, <3>1 DEF Pool
    <3> QED BY <1>2, <1>6, <1>7, <3>1
  <2>5. Ctrls'[CtrlCount'].Scratch \notin wasClear'
    BY <1>1, <1>2, <1>6
  <2> QED BY <1>1, <1>2, <1>6, <1>7, <2>1, <2>2, <2>3, <2>4, <2>5 DEF Runs
<1> QED BY <1>5, <1>10, <1>11, <1>12 DEF StartInv

(* A step of DmaContiguous that takes no page.                             *)
LEMMA NoneTaken ==
  ASSUME StartInv, xpc \in Bouncing, xpc' \in Bouncing,
         UNCHANGED <<machine, Skip, CtrlCount, stage, Scratchpads, hw>>,
         Ctrls' \in [0..MAX_CONTROLLERS -> Entries],
         \A s \in 0..MAX_CONTROLLERS : s # CtrlCount => Ctrls'[s] = Ctrls[s],
         \E b, n \in Nat : Ctrls'[CtrlCount] = [Ctrls[CtrlCount] EXCEPT !.Bounce = b, !.BounceSize = n],
         given' \subseteq held', given' \subseteq given, Committed \subseteq given',
         Left' \subseteq Left, \A a \in 1..6 : Mine[a] \subseteq given', Left' \subseteq given'
  PROVE  StartTyped' /\ EachForOne' /\ Written' /\ X!OnlyOwnPages'
<1>0. StartTyped /\ EachForOne /\ Written
  BY DEF StartInv
<1>1. xpc \in {"dcbaa"} \cup HasDcbaa /\ xpc' \in {"dcbaa"} \cup HasDcbaa /\ xpc \in Working
  BY BouncingPhases
<1>2. Skip + 1 \in 1..Len(machine) /\ CtrlCount \in 0..MAX_CONTROLLERS /\ Ctrls[CtrlCount].hw = Skip + 1
      /\ Ctrls[CtrlCount] \in Entries
      /\ hw[Skip + 1] \in Registers /\ ~hw[Skip + 1].run /\ ~Ctrls[CtrlCount].Used
  BY <1>0, <1>1, Same, NotYet
<1>3. /\ Ctrls'[CtrlCount].hw = Ctrls[CtrlCount].hw
      /\ Ctrls'[CtrlCount].Used = Ctrls[CtrlCount].Used
      /\ Ctrls'[CtrlCount].Dcbaa = Ctrls[CtrlCount].Dcbaa
      /\ Ctrls'[CtrlCount].Cmd = Ctrls[CtrlCount].Cmd
      /\ Ctrls'[CtrlCount].Evt = Ctrls[CtrlCount].Evt
      /\ Ctrls'[CtrlCount].Scratch = Ctrls[CtrlCount].Scratch
  BY <1>2 DEF Entries
<1>4. StartTyped' /\ Committed' = Committed /\ X!OnlyOwnPages'
  <2>1. hw' \in [1..Len(machine) -> Registers] /\ \A h \in 1..Len(machine) : h # Skip + 1 => hw'[h] = hw[h]
    BY <1>0 DEF StartTyped
  <2>2. ~hw'[Skip + 1].run /\ ~Ctrls'[CtrlCount].Used /\ Ctrls'[CtrlCount].hw = Skip + 1
    BY <1>2, <1>3
  <2>3. \A q \in given' : q < Low4G
    BY <1>0 DEF StartTyped
  <2>4. UNCHANGED <<machine, Skip, CtrlCount, stage>>
    OBVIOUS
  <2> QED BY <1>1, <2>1, <2>2, <2>3, <2>4, GoesOn
<1>5. Mine' = <<Mine[1], Mine[2], Mine[3], Mine[4], Mine[5], Mine[6], Left'>> /\ Mine[7] = Left
  BY <1>3, BouncingPhases DEF Mine
<1>6. \A a \in 1..7 : Mine'[a] \subseteq Mine[a] /\ Mine'[a] \subseteq given'
  <2>1. \A a \in 1..6 : Mine'[a] = Mine[a]
    BY <1>5
  <2>2. Mine'[7] = Left' /\ Mine[7] = Left
    BY <1>5
  <2>3. \A a \in 1..7 : a \in 1..6 \/ a = 7
    OBVIOUS
  <2> QED BY <2>1, <2>2, <2>3
<1>7. EachForOne'
  <2>1. ASSUME NEW a \in 1..7 PROVE Mine'[a] \subseteq given' /\ Mine'[a] \cap Committed' = {}
    BY <1>0, <1>4, <1>6 DEF EachForOne
  <2>2. ASSUME NEW a \in 1..7, NEW b \in 1..7, a # b PROVE Mine'[a] \cap Mine'[b] = {}
    BY <1>0, <1>6, <2>2 DEF EachForOne
  <2> QED BY ZenonT(40), <1>4, <2>1, <2>2 DEF EachForOne
<1>8. Written'
  BY <1>0, <1>3, BouncingPhases DEF Written
<1> QED BY <1>4, <1>7, <1>8

(* What is unchanged suffices NoneTaken.                                   *)
LEMMA SameEntry ==
  ASSUME StartTyped, xpc \in Working, UNCHANGED Ctrls
  PROVE  /\ Ctrls' \in [0..MAX_CONTROLLERS -> Entries]
         /\ \A s \in 0..MAX_CONTROLLERS : s # CtrlCount => Ctrls'[s] = Ctrls[s]
         /\ \E b, n \in Nat : Ctrls'[CtrlCount] = [Ctrls[CtrlCount] EXCEPT !.Bounce = b, !.BounceSize = n]
<1>1. Ctrls[CtrlCount] \in Entries
  BY NotYet
<1>2. Ctrls[CtrlCount] = [Ctrls[CtrlCount] EXCEPT !.Bounce = Ctrls[CtrlCount].Bounce,
                                                  !.BounceSize = Ctrls[CtrlCount].BounceSize]
      /\ Ctrls[CtrlCount].Bounce \in Nat /\ Ctrls[CtrlCount].BounceSize \in Nat
  BY ZenonT(40), <1>1 DEF Entries
<1> QED BY ZenonT(40), <1>2 DEF StartTyped

LEMMA SixAndLeft ==
  ASSUME StartInv, xpc \in Bouncing
  PROVE  /\ Mine[7] = Left /\ Committed \subseteq given /\ Left \cap Committed = {}
         /\ Left \subseteq given /\ Left \subseteq Taken
         /\ \A a \in 1..6 : Mine[a] \subseteq given /\ Mine[a] \cap Left = {}
<1>1. EachForOne /\ Mine[7] = Left
  BY DEF StartInv, Mine
<1>2. \A a \in 1..6 : a \in 1..7 /\ a # 7
  OBVIOUS
<1>3. Left \subseteq Taken
  BY DEF Left, Taken
<1> QED BY <1>1, <1>2, <1>3 DEF EachForOne

LEMMA EndOfTaking == ASSUME StartInv, Pool, X!TakenAll PROVE StartInv'
<1>0. StartTyped /\ Runs
  BY DEF StartInv
<1>1. /\ xpc = "contiguous" /\ xpc' = "trim" /\ (X!NoPage \/ ~X!GoesOn)
      /\ UNCHANGED <<machine, Skip, CtrlCount, stage, clear, held, given, Scratchpads, hw, Ctrls,
                     All, BestStart, BestLen, RunStart, RunLen, trim, wasClear>>
  BY DEF X!TakenAll, X!Go, X!vars, X!dma
<1>2. xpc \in Bouncing /\ xpc' \in Bouncing /\ xpc \in Working
  BY <1>1, BouncingPhases DEF Bouncing
<1>3. Left' = Left /\ Taken' = Taken
  BY <1>1 DEF Left, Taken, X!Kept
<1>4. StartTyped' /\ EachForOne' /\ Written' /\ X!OnlyOwnPages'
  <2>1. given' \subseteq held' /\ given' \subseteq given
    BY <1>0, <1>1 DEF StartTyped
  <2>2. /\ Committed \subseteq given' /\ Left' \subseteq Left /\ Left' \subseteq given'
        /\ \A a \in 1..6 : Mine[a] \subseteq given'
    BY <1>1, <1>2, <1>3, SixAndLeft
  <2>3. UNCHANGED <<machine, Skip, CtrlCount, stage, Scratchpads, hw>>
    BY <1>1
  <2> QED BY ZenonT(40), <1>0, <1>1, <1>2, <2>1, <2>2, <2>3, SameEntry, NoneTaken
<1>5. Runs'
  <2>1. /\ All \in Seq(Nat) /\ Len(All) <= TRIES
        /\ Ascending /\ Taken \subseteq wasClear /\ wasClear \subseteq Nat
        /\ trim \in 1..(Len(All) + 1) /\ BestLen \in 0..BOUNCE_PAGES /\ BestStart \in Nat
        /\ BestRun /\ NoneLonger
        /\ held \cap wasClear = Left
        /\ Ctrls[CtrlCount].Scratch \notin wasClear /\ wasClear = clear \cup Taken
    BY <1>0, <1>1, <1>2 DEF Runs
  <2>2. Ascending' /\ BestRun' /\ NoneLonger'
    BY <1>1, <1>3, <2>1 DEF Ascending, BestRun, NoneLonger, Consecutive
  <2>3. ASSUME BestLen < BOUNCE_PAGES, Len(All) < TRIES, NEW q \in wasClear, q < Low4G PROVE q \in Taken
    <3>1. X!NoPage
      BY <1>1, <2>3 DEF X!GoesOn
    <3>2. ASSUME q \in clear PROVE FALSE
      <4>1. PICK m \in clear : \A r \in clear : m <= r
        BY ZenonT(40), <3>2, NatMin DEF Pool
      <4>2. m < Low4G
        BY <2>3, <3>2, <4>1, StartBounds DEF Pool
      <4> QED BY <3>1, <4>1, <4>2 DEF X!NoPage, X!LowestClear
    <3> QED BY <2>1, <2>3, <3>2
  <2>4. xpc' # "contiguous" /\ xpc' # "start"
    BY <1>1
  <2> QED BY <1>1, <1>3, <2>1, <2>2, <2>3, <2>4 DEF Runs
<1> QED BY <1>4, <1>5 DEF StartInv

(* What stays of the search while pages are given back.                    *)
SearchStays ==
  /\ All \in Seq(Nat) /\ Len(All) <= TRIES
  /\ Ascending /\ Taken \subseteq wasClear /\ wasClear \subseteq Nat
  /\ BestLen \in 0..BOUNCE_PAGES /\ BestStart \in Nat /\ BestRun /\ NoneLonger
  /\ BestLen < BOUNCE_PAGES /\ Len(All) < TRIES => \A q \in wasClear : q < Low4G => q \in Taken

LEMMA SearchIs ==
  ASSUME Runs, xpc \in {"trim", "start"}
  PROVE  SearchStays /\ held \cap wasClear = Left /\ Ctrls[CtrlCount].Scratch \notin wasClear
         /\ trim \in 1..(Len(All) + 1) /\ Len(All) \in Nat
<1>1. xpc \in Bouncing /\ xpc # "contiguous"
  BY DEF Bouncing
<1> QED BY <1>1 DEF Runs, SearchStays

LEMMA SearchKept ==
  ASSUME SearchStays, UNCHANGED <<All, BestStart, BestLen, RunStart, RunLen, wasClear>>
  PROVE  SearchStays' /\ Taken' = Taken /\ X!Kept' = X!Kept
BY DEF SearchStays, Taken, X!Kept, Ascending, BestRun, NoneLonger, Consecutive

LEMMA Trimming == ASSUME StartInv, Pool, X!Trim PROVE StartInv'
<1>0. StartTyped /\ Runs
  BY DEF StartInv
<1>1. /\ xpc = "trim" /\ xpc' = "trim" /\ trim <= Len(All) /\ trim' = trim + 1
      /\ UNCHANGED <<machine, Skip, CtrlCount, Scratchpads, hw, Ctrls,
                     All, BestStart, BestLen, RunStart, RunLen, wasClear>>
  BY DEF X!Trim, X!Go
<1>2. xpc \in Bouncing /\ xpc' \in Bouncing /\ xpc \in Working
  BY <1>1, BouncingPhases DEF Bouncing
<1>3. /\ SearchStays /\ held \cap wasClear = Left /\ Ctrls[CtrlCount].Scratch \notin wasClear
      /\ trim \in 1..Len(All) /\ Len(All) \in Nat /\ All \in Seq(Nat)
  BY <1>0, <1>1, SearchIs DEF SearchStays
<1>4. SearchStays' /\ Taken' = Taken /\ X!Kept' = X!Kept
  BY <1>1, <1>3, SearchKept
<1>5. \A j, k \in 1..Len(All) : j # k => All[j] # All[k]
  <2>1. ASSUME NEW j \in 1..Len(All), NEW k \in 1..Len(All), j # k PROVE All[j] # All[k]
    <3>1. All[j] \in Nat /\ All[k] \in Nat /\ (j < k \/ k < j)
      BY <1>3, <2>1
    <3>2. j < k => All[j] < All[k]
      BY <1>3 DEF SearchStays, Ascending
    <3>3. k < j => All[k] < All[j]
      BY <1>3 DEF SearchStays, Ascending
    <3> QED BY <3>1, <3>2, <3>3
  <2> QED BY <2>1
<1>6. All[trim] \in Left
  BY <1>3 DEF Left
<1>7. All[trim] \in given /\ All[trim] \in held /\ All[trim] \notin clear
  BY ZenonT(40), <1>0, <1>2, <1>6, SixAndLeft DEF StartTyped, Pool
<1>8. /\ IF All[trim] \in X!Kept THEN Left' = Left ELSE Left' = Left \ {All[trim]}
  <2>1. Left' = {All[k] : k \in {j \in 1..Len(All) : j >= trim + 1 \/ All[j] \in X!Kept}}
    BY <1>1, <1>4 DEF Left
  <2>2. \A j \in 1..Len(All) : j >= trim <=> (j >= trim + 1 \/ j = trim)
    BY <1>3
  <2>3. CASE All[trim] \in X!Kept
    BY ZenonT(40), <2>1, <2>2, <2>3 DEF Left
  <2>4. CASE All[trim] \notin X!Kept
    <3>1. \A j \in 1..Len(All) : (j >= trim + 1 \/ All[j] \in X!Kept) <=>
             (j >= trim \/ All[j] \in X!Kept) /\ All[j] # All[trim]
      BY <1>3, <1>5, <2>2, <2>4
    <3> QED BY ZenonT(40), <2>1, <2>4, <3>1 DEF Left
  <2> QED BY <2>3, <2>4
<1>9. /\ given' \subseteq held' /\ given' \subseteq given /\ UNCHANGED stage
      /\ held' \cap wasClear = Left'
      /\ Committed \subseteq given' /\ Left' \subseteq Left /\ Left' \subseteq given'
      /\ \A a \in 1..6 : Mine[a] \subseteq given'
  <2>1. /\ Committed \subseteq given /\ Left \cap Committed = {} /\ Left \subseteq given
        /\ \A a \in 1..6 : Mine[a] \subseteq given /\ Mine[a] \cap Left = {}
    BY <1>2, SixAndLeft
  <2>2. given \subseteq held
    BY <1>0 DEF StartTyped
  <2>3. CASE All[trim] \in X!Kept
    <3>1. UNCHANGED <<given, held, stage>> /\ Left' = Left
      BY <1>8, <2>3 DEF X!Trim, X!vars
    <3> QED BY <1>3, <2>1, <2>2, <3>1
  <2>4. CASE All[trim] \notin X!Kept
    <3>1. given' = given \ {All[trim]} /\ held' = held \ {All[trim]} /\ UNCHANGED stage
      BY <2>4 DEF X!Trim, X!FreePage
    <3>2. Left' = Left \ {All[trim]}
      BY <1>8, <2>4
    <3>3. \A a \in 1..6 : Mine[a] \subseteq given'
      BY <1>6, <2>1, <3>1
    <3> QED BY ZenonT(40), <1>3, <1>6, <2>1, <2>2, <3>1, <3>2, <3>3
  <2> QED BY <2>3, <2>4
<1>10. StartTyped' /\ EachForOne' /\ Written' /\ X!OnlyOwnPages'
  <2>1. UNCHANGED <<machine, Skip, CtrlCount, stage, Scratchpads, hw>>
    BY <1>1, <1>9
  <2> QED BY ZenonT(40), <1>0, <1>1, <1>2, <1>9, <2>1, SameEntry, NoneTaken
<1>11. Runs'
  <2>1. xpc' # "contiguous" /\ xpc' # "start" /\ Ctrls'[CtrlCount'].Scratch \notin wasClear'
        /\ held' \cap wasClear' = Left' /\ trim' \in 1..(Len(All') + 1)
    BY <1>1, <1>3, <1>9
  <2> QED BY <1>4, <2>1 DEF Runs, SearchStays
<1> QED BY <1>10, <1>11 DEF StartInv

LEMMA Trimmed == ASSUME StartInv, Pool, X!Trimmed PROVE StartInv'
<1>0. StartTyped /\ Runs
  BY DEF StartInv
<1>1. /\ xpc = "trim" /\ trim > Len(All)
      /\ UNCHANGED <<machine, Skip, stage, clear, held, given, Scratchpads, hw,
                     All, BestStart, BestLen, RunStart, RunLen, trim, wasClear>> \/ X!GiveUp
      /\ UNCHANGED <<stage, held, given, hw>>
  BY DEF X!Trimmed, X!vars, X!dma, X!Go
<1>2. xpc \in Bouncing /\ xpc \in Working
  BY <1>1, BouncingPhases DEF Bouncing
<1>3. CASE BestLen = 0
  <2>1. X!GiveUp /\ UNCHANGED Ctrls
    BY <1>3 DEF X!Trimmed
  <2>2. /\ hw' \in [1..Len(machine) -> Registers] /\ Ctrls' \in [0..MAX_CONTROLLERS -> Entries]
        /\ \A h \in 1..Len(machine) : h # Skip + 1 => hw'[h] = hw[h]
        /\ \A s \in 0..MAX_CONTROLLERS : s # CtrlCount => Ctrls'[s] = Ctrls[s]
        /\ ~hw'[Skip + 1].run /\ ~Ctrls'[CtrlCount].Used
    <3>1. UNCHANGED machine
      BY <2>1 DEF X!GiveUp, X!NextController
    <3> QED BY <1>0, <1>1, <1>2, <2>1, <3>1, NotYet DEF StartTyped
  <2>3. UNCHANGED <<given, held, stage>>
    BY <1>1
  <2> QED BY <1>2, <2>1, <2>2, <2>3, GivenUp
<1>4. CASE BestLen # 0
  <2>1. /\ xpc' = "start" /\ UNCHANGED <<machine, Skip, CtrlCount>>
        /\ Ctrls' = [Ctrls EXCEPT ![CtrlCount].Bounce = All[BestStart], ![CtrlCount].BounceSize = BestLen]
        /\ UNCHANGED <<stage, clear, held, given, Scratchpads, hw,
                       All, BestStart, BestLen, RunStart, RunLen, trim, wasClear>>
    BY <1>4 DEF X!Trimmed, X!Go, X!vars, X!dma
  <2>2. /\ SearchStays /\ held \cap wasClear = Left /\ Ctrls[CtrlCount].Scratch \notin wasClear
        /\ trim = Len(All) + 1 /\ Len(All) \in Nat /\ All \in Seq(Nat) /\ BestLen \in Nat /\ BestStart \in Nat
    BY <1>0, <1>1, SearchIs DEF SearchStays
  <2>3. BestStart \in 1..Len(All) /\ All[BestStart] \in Nat /\ BestLen >= 1
    <3>1. BestStart >= 1 /\ BestStart + BestLen - 1 <= Len(All) /\ BestLen >= 1
      BY <1>4, <2>2 DEF SearchStays, BestRun
    <3> QED BY <2>2, <3>1
  <2>4. SearchStays' /\ Taken' = Taken /\ X!Kept' = X!Kept
    BY <2>1, <2>2, SearchKept
  <2>5. Left' = Left
    BY <2>1, <2>4 DEF Left
  <2>6. xpc' \in Bouncing
    BY <2>1 DEF Bouncing
  <2>7. CtrlCount \in 0..MAX_CONTROLLERS /\ Ctrls[CtrlCount] \in Entries
    BY <1>0, <1>2, StartFacts, StartBounds, NotYet
  <2>8. /\ [Ctrls[CtrlCount] EXCEPT !.Bounce = All[BestStart], !.BounceSize = BestLen] \in Entries
        /\ Ctrls' = [Ctrls EXCEPT ![CtrlCount] =
                       [Ctrls[CtrlCount] EXCEPT !.Bounce = All[BestStart], !.BounceSize = BestLen]]
    BY ZenonT(40), <1>0, <2>1, <2>2, <2>3, <2>7 DEF Entries, StartTyped
  <2>9. /\ Ctrls' \in [0..MAX_CONTROLLERS -> Entries]
        /\ \A s \in 0..MAX_CONTROLLERS : s # CtrlCount => Ctrls'[s] = Ctrls[s]
        /\ Ctrls'[CtrlCount] = [Ctrls[CtrlCount] EXCEPT !.Bounce = All[BestStart], !.BounceSize = BestLen]
    BY <1>0, <2>7, <2>8 DEF StartTyped
  <2>10. StartTyped' /\ EachForOne' /\ Written' /\ X!OnlyOwnPages'
    <3>1. given' \subseteq held' /\ given' \subseteq given
      BY <1>0, <2>1 DEF StartTyped
    <3>2. /\ Committed \subseteq given' /\ Left' \subseteq Left /\ Left' \subseteq given'
          /\ \A a \in 1..6 : Mine[a] \subseteq given'
      BY <1>2, <2>1, <2>5, SixAndLeft
    <3>3. UNCHANGED <<machine, Skip, CtrlCount, stage, Scratchpads, hw>>
      BY <2>1
    <3>4. \E b, n \in Nat : Ctrls'[CtrlCount] = [Ctrls[CtrlCount] EXCEPT !.Bounce = b, !.BounceSize = n]
      BY ZenonT(40), <2>2, <2>3, <2>9
    <3> QED BY ZenonT(40), <1>2, <2>6, <2>9, <3>1, <3>2, <3>3, <3>4, NoneTaken
  <2>11. Runs'
    <3>1. /\ Ctrls'[CtrlCount'].Bounce = All'[BestStart'] /\ Ctrls'[CtrlCount'].BounceSize = BestLen'
          /\ Ctrls'[CtrlCount'].Scratch = Ctrls[CtrlCount].Scratch
      BY <2>1, <2>7, <2>9 DEF Entries
    <3>2. trim' = Len(All') + 1 /\ trim' \in 1..(Len(All') + 1) /\ BestLen' >= 1
      BY <2>1, <2>2, <2>3
    <3>3. held' \cap wasClear' = Left' /\ Ctrls'[CtrlCount'].Scratch \notin wasClear' /\ xpc' # "contiguous"
      BY <2>1, <2>2, <2>5, <3>1
    <3> QED BY <2>4, <3>1, <3>2, <3>3 DEF Runs, SearchStays
  <2> QED BY <2>10, <2>11 DEF StartInv
<1> QED BY <1>3, <1>4

(* The pages of the bounce buffer are the run that was kept.               *)
LEMMA KeptIsRun ==
  ASSUME SearchStays, BestLen >= 1
  PROVE  /\ X!Kept = All[BestStart]..(All[BestStart] + BestLen - 1)
         /\ X!Kept \subseteq Taken /\ All[BestStart] \in Nat /\ BestLen \in Nat
<1>1. /\ All \in Seq(Nat) /\ BestLen \in Nat /\ BestStart \in Nat /\ BestStart >= 1
      /\ BestStart + BestLen - 1 <= Len(All) /\ Len(All) \in Nat
      /\ \A k \in 0..(BestLen - 1) : All[BestStart + k] = All[BestStart] + k
  BY DEF SearchStays, BestRun, Consecutive
<1>2. BestStart \in 1..Len(All) /\ All[BestStart] \in Nat
  BY <1>1
<1>3. X!Kept \subseteq Taken
  <2>1. \A k \in BestStart..(BestStart + BestLen - 1) : k \in 1..Len(All)
    BY <1>1
  <2> QED BY <2>1 DEF X!Kept, Taken
<1>4. ASSUME NEW q \in X!Kept PROVE q \in All[BestStart]..(All[BestStart] + BestLen - 1)
  <2>1. PICK k \in BestStart..(BestStart + BestLen - 1) : q = All[k]
    BY DEF X!Kept
  <2>2. k - BestStart \in 0..(BestLen - 1) /\ BestStart + (k - BestStart) = k
    BY <1>1
  <2>3. q = All[BestStart] + (k - BestStart)
    BY <1>1, <2>1, <2>2
  <2> QED BY SMTT(30), <1>1, <1>2, <2>2, <2>3
<1>5. ASSUME NEW q \in All[BestStart]..(All[BestStart] + BestLen - 1) PROVE q \in X!Kept
  <2>1. PICK k \in 0..(BestLen - 1) : q = All[BestStart] + k
    <3>1. q - All[BestStart] \in 0..(BestLen - 1) /\ q = All[BestStart] + (q - All[BestStart])
      BY <1>1, <1>2
    <3> QED BY <3>1
  <2>2. q = All[BestStart + k] /\ BestStart + k \in BestStart..(BestStart + BestLen - 1)
    BY <1>1, <2>1
  <2> QED BY <2>2 DEF X!Kept
<1> QED BY ZenonT(40), <1>1, <1>2, <1>3, <1>4, <1>5

(* At the end what is left of the pages taken is the bounce buffer.        *)
LEMMA AtStart ==
  ASSUME StartInv, xpc = "start"
  PROVE  /\ SearchStays /\ BestLen \in 1..BOUNCE_PAGES /\ Left = X!Kept /\ X!Kept \subseteq Taken
         /\ Ctrls[CtrlCount].BounceSize = BestLen /\ Ctrls[CtrlCount].Bounce \in Nat
         /\ X!Copies(CtrlCount) = {Ctrls[CtrlCount].Scratch} \cup Left
         /\ Ctrls[CtrlCount].Scratch \notin Left
         /\ IsFiniteSet(Left) /\ Cardinality(Left) = BestLen
         /\ held \cap wasClear = Left
<1>1. Runs /\ StartTyped
  BY DEF StartInv
<1>2. /\ SearchStays /\ held \cap wasClear = Left /\ Ctrls[CtrlCount].Scratch \notin wasClear
      /\ Len(All) \in Nat
  BY <1>1, SearchIs
<1>3. trim = Len(All) + 1 /\ BestLen >= 1 /\ Ctrls[CtrlCount].Bounce = All[BestStart]
      /\ Ctrls[CtrlCount].BounceSize = BestLen
  <2>1. xpc \in Bouncing
    BY DEF Bouncing
  <2> QED BY <1>1, <2>1 DEF Runs
<1>4. /\ X!Kept = All[BestStart]..(All[BestStart] + BestLen - 1)
      /\ X!Kept \subseteq Taken /\ All[BestStart] \in Nat /\ BestLen \in Nat
  BY <1>2, <1>3, KeptIsRun
<1>5. Left = X!Kept
  <2>1. Left = {All[k] : k \in {j \in 1..Len(All) : All[j] \in X!Kept}}
    <3>1. \A j \in 1..Len(All) : ~(j >= trim)
      BY <1>2, <1>3
    <3> QED BY <3>1 DEF Left
  <2>2. Left \subseteq X!Kept
    BY <2>1
  <2>3. \A q \in X!Kept : \E j \in 1..Len(All) : q = All[j]
    BY <1>4 DEF Taken
  <2> QED BY <2>1, <2>2, <2>3
<1>6. X!Copies(CtrlCount) = {Ctrls[CtrlCount].Scratch} \cup Left
  BY <1>3, <1>4, <1>5 DEF X!Copies
<1>7. IsFiniteSet(Left) /\ Cardinality(Left) = BestLen
  <2>1. PICK a \in Nat, n \in Nat : a = All[BestStart] /\ n = BestLen
    BY <1>4
  <2>2. IsFiniteSet(a..(a + n - 1)) /\ Cardinality(a..(a + n - 1)) = n
    BY IntervalSize
  <2> QED BY <1>4, <1>5, <2>1, <2>2
<1>8. BestLen \in 1..BOUNCE_PAGES /\ Left \subseteq wasClear
  BY <1>2, <1>3, <1>5, <1>4 DEF SearchStays
<1> QED BY <1>2, <1>3, <1>4, <1>5, <1>6, <1>7, <1>8

(* What was asked for is found, if it is there.                            *)
LEMMA LongestIsFound == ASSUME StartInv PROVE X!BounceIsBest
<1> SUFFICES ASSUME xpc = "start" PROVE X!BounceIsBest
  BY DEF X!BounceIsBest
<1>1. /\ SearchStays /\ Ctrls[CtrlCount].BounceSize = BestLen
      /\ X!Copies(CtrlCount) = {Ctrls[CtrlCount].Scratch} \cup Left
      /\ Ctrls[CtrlCount].Scratch \notin Left /\ held \cap wasClear = Left
  BY AtStart
<1>2. held \cap wasClear = X!Copies(CtrlCount) \ {X!X.Scratch}
  BY <1>1 DEF X!X
<1>3. ASSUME BestLen < BOUNCE_PAGES, Len(All) < TRIES, NEW q \in wasClear
      PROVE  \E k \in 0..BestLen : q + k \notin {r \in wasClear : r < Low4G}
  <2>1. q \in Nat /\ \A r \in wasClear : r < Low4G => r \in Taken
    BY <1>1, <1>3 DEF SearchStays
  <2>2. PICK k \in 0..BestLen : q + k \notin Taken
    BY ZenonT(40), <1>1, <2>1 DEF SearchStays, NoneLonger
  <2> QED BY <2>1, <2>2
<1> QED BY <1>1, <1>2, <1>3 DEF X!BounceIsBest, X!X

(* How many pages the controller has for itself, and the driver for it.    *)
LEMMA ItsPages ==
  ASSUME StartInv, xpc = "start"
  PROVE  LET h == hw[Skip + 1] IN
         /\ h.dcbaap = Ctrls[CtrlCount].Dcbaa /\ h.crcr = Ctrls[CtrlCount].Cmd
         /\ h.evt = Ctrls[CtrlCount].Evt
         /\ X!Reaches(Skip + 1) = UNION {Mine[a] : a \in 1..5}
         /\ IsFiniteSet(X!Reaches(Skip + 1))
         /\ Cardinality(X!Reaches(Skip + 1)) =
              4 + (IF machine[Skip + 1] = 0 THEN 0 ELSE machine[Skip + 1] + 1)
         /\ X!Copies(CtrlCount) = Mine[6] \cup Mine[7]
         /\ Cardinality(X!Copies(CtrlCount)) = BestLen + 1
<1> DEFINE h == hw[Skip + 1]
<1>0. StartTyped /\ EachForOne /\ Written
  BY DEF StartInv
<1>1. xpc \in Bouncing /\ xpc \in Working
  BY BouncingPhases DEF Bouncing
<1>2. /\ h.dcbaap = Ctrls[CtrlCount].Dcbaa /\ h.pads = Scratchpads /\ h.crcr = Ctrls[CtrlCount].Cmd
      /\ h.evt = Ctrls[CtrlCount].Evt
      /\ IsFiniteSet(Scratchpads)
      /\ Cardinality(Scratchpads) = IF machine[Skip + 1] = 0 THEN 0 ELSE machine[Skip + 1] + 1
  BY <1>0, <1>1, BouncingPhases DEF Written
<1>3. /\ Mine[1] = {h.dcbaap} /\ Mine[2] = h.pads /\ Mine[3] = {h.crcr} /\ Mine[4] = {h.evt}
      /\ Mine[5] = {h.erst} /\ Mine[6] = {Ctrls[CtrlCount].Scratch} /\ Mine[7] = Left
  BY <1>1, <1>2, BouncingPhases DEF Mine
<1>4. X!Reaches(Skip + 1) = {h.dcbaap} \cup h.pads \cup {h.crcr} \cup {h.evt} \cup {h.erst}
  BY DEF X!Reaches
<1>5. UNION {Mine[a] : a \in 1..5} = Mine[1] \cup Mine[2] \cup Mine[3] \cup Mine[4] \cup Mine[5]
  <2>1. \A a \in 1..5 : a = 1 \/ a = 2 \/ a = 3 \/ a = 4 \/ a = 5
    OBVIOUS
  <2>2. 1 \in 1..5 /\ 2 \in 1..5 /\ 3 \in 1..5 /\ 4 \in 1..5 /\ 5 \in 1..5
    OBVIOUS
  <2> QED BY <2>1, <2>2
<1>6. X!Reaches(Skip + 1) = UNION {Mine[a] : a \in 1..5}
  BY <1>3, <1>4, <1>5
<1>7. /\ h.dcbaap \notin h.pads /\ h.crcr \notin h.pads /\ h.evt \notin h.pads /\ h.erst \notin h.pads
      /\ h.dcbaap # h.crcr /\ h.dcbaap # h.evt /\ h.dcbaap # h.erst /\ h.crcr # h.evt
      /\ h.crcr # h.erst /\ h.evt # h.erst
  <2>1. \A a, b \in 1..7 : a # b => Mine[a] \cap Mine[b] = {}
    BY <1>0 DEF EachForOne
  <2>2. /\ Mine[1] \cap Mine[2] = {} /\ Mine[3] \cap Mine[2] = {} /\ Mine[4] \cap Mine[2] = {}
        /\ Mine[5] \cap Mine[2] = {}
        /\ Mine[1] \cap Mine[3] = {} /\ Mine[1] \cap Mine[4] = {} /\ Mine[1] \cap Mine[5] = {}
        /\ Mine[3] \cap Mine[4] = {} /\ Mine[3] \cap Mine[5] = {} /\ Mine[4] \cap Mine[5] = {}
    BY <2>1
  <2> QED BY ZenonT(40), <1>3, <2>2
<1>8. IsFiniteSet(X!Reaches(Skip + 1)) /\ Cardinality(X!Reaches(Skip + 1)) = Cardinality(h.pads) + 4
  <2> DEFINE P1 == h.pads \cup {h.dcbaap}
             P2 == P1 \cup {h.crcr}
             P3 == P2 \cup {h.evt}
             P4 == P3 \cup {h.erst}
  <2>0. IsFiniteSet(h.pads) /\ Cardinality(h.pads) \in Nat
    BY <1>2, FS_CardinalityType
  <2>1. IsFiniteSet(P1) /\ Cardinality(P1) = Cardinality(h.pads) + 1
    BY ZenonT(40), <1>7, <2>0, FS_AddElement
  <2>2. IsFiniteSet(P2) /\ Cardinality(P2) = Cardinality(P1) + 1
    <3>1. h.crcr \notin P1
      BY <1>7
    <3> QED BY <2>1, <3>1, FS_AddElement
  <2>3. IsFiniteSet(P3) /\ Cardinality(P3) = Cardinality(P2) + 1
    <3>1. h.evt \notin P2
      BY <1>7
    <3> QED BY ZenonT(40), <2>2, <3>1, FS_AddElement
  <2>4. IsFiniteSet(P4) /\ Cardinality(P4) = Cardinality(P3) + 1
    <3>1. h.erst \notin P3
      BY <1>7
    <3>2. P4 = P3 \cup {h.erst}
      OBVIOUS
    <3>. HIDE DEF P3, P4
    <3> QED BY <2>3, <3>1, <3>2, FS_AddElement
  <2>5. X!Reaches(Skip + 1) = P4
    BY <1>4
  <2>6. Cardinality(P4) = Cardinality(h.pads) + 4
    <3>. HIDE DEF P1, P2, P3, P4
    <3> QED BY <2>0, <2>1, <2>2, <2>3, <2>4
  <2> QED BY ZenonT(40), <2>4, <2>5, <2>6
<1>9. Cardinality(X!Reaches(Skip + 1)) =
         4 + (IF machine[Skip + 1] = 0 THEN 0 ELSE machine[Skip + 1] + 1)
  <2>1. machine[Skip + 1] \in Nat
    BY <1>0, <1>1, StartFacts
  <2> QED BY <1>2, <1>8, <2>1
<1>10. X!Copies(CtrlCount) = Mine[6] \cup Mine[7]
  BY <1>3, AtStart
<1>11. Cardinality(X!Copies(CtrlCount)) = BestLen + 1
  <2>1. /\ X!Copies(CtrlCount) = Left \cup {Ctrls[CtrlCount].Scratch}
        /\ Ctrls[CtrlCount].Scratch \notin Left
        /\ IsFiniteSet(Left) /\ Cardinality(Left) = BestLen
    BY AtStart
  <2> QED BY <2>1, FS_AddElement
<1> QED BY <1>2, <1>6, <1>8, <1>9, <1>10, <1>11

(* The controller runs: what it reaches is committed.                      *)
LEMMA NowItRuns ==
  ASSUME StartInv, Pool, X!StartController PROVE StartInv'
<1>0. StartTyped /\ EachForOne /\ X!OnlyOwnPages
  BY DEF StartInv
<1>i. PICK i \in Nat : i = Skip + 1
  BY <1>0, StartFacts
<1>k. PICK c \in Nat : c = CtrlCount
  BY <1>0, StartFacts
<1>1. /\ xpc = "start" /\ hw' = [hw EXCEPT ![i] = [hw[i] EXCEPT !.run = TRUE]]
      /\ UNCHANGED <<machine, given, held, stage>> /\ Skip' = Skip + 1
      /\ xpc' \in {"find", "probed"}
      /\ xpc' = "find" => Skip + 1 < Len(machine) /\ Skip + 1 < MAX_CONTROLLERS
      /\ \/ CtrlCount' = CtrlCount /\ UNCHANGED Ctrls
         \/ /\ CtrlCount' = CtrlCount + 1
            /\ Ctrls' = [Ctrls EXCEPT ![CtrlCount] = [Ctrls[CtrlCount] EXCEPT !.Used = TRUE]]
  BY <1>i DEF X!StartController, X!Write, X!H, X!Set, X!GiveUp, X!NextController, X!vars
<1>2. /\ i \in 1..Len(machine) /\ CtrlCount \in 0..MAX_CONTROLLERS /\ CtrlCount \in 0..(MAX_CONTROLLERS - 1)
      /\ xpc \in Working /\ Skip \in Nat /\ CtrlCount \in Nat /\ Len(machine) \in Nat
      /\ hw[i] \in Registers /\ ~hw[i].run /\ Ctrls[CtrlCount] \in Entries /\ ~Ctrls[CtrlCount].Used
      /\ Ctrls[CtrlCount].hw = i
  <2>1. xpc \in Bouncing
    BY <1>1 DEF Bouncing
  <2>2. xpc \in {"dcbaa"} \cup HasDcbaa
    BY <2>1, BouncingPhases
  <2> QED BY <1>0, <1>i, <2>2, Same, NotYet, StartFacts, StartBounds
<1>3. /\ hw' \in [1..Len(machine) -> Registers]
      /\ \A h \in 1..Len(machine) : h # i => hw'[h] = hw[h]
      /\ hw'[i] = [hw[i] EXCEPT !.run = TRUE] /\ hw'[i].run
      /\ hw'[i].dcbaap = hw[i].dcbaap /\ hw'[i].crcr = hw[i].crcr
      /\ hw'[i].erst = hw[i].erst /\ hw'[i].evt = hw[i].evt /\ hw'[i].pads = hw[i].pads
  <2>1. [hw[i] EXCEPT !.run = TRUE] \in Registers /\ [hw[i] EXCEPT !.run = TRUE].run = TRUE
    BY ZenonT(40), <1>2 DEF Registers
  <2> QED BY ZenonT(40), <1>0, <1>1, <1>2, <2>1 DEF StartTyped, Registers
<1>4. /\ Ctrls' \in [0..MAX_CONTROLLERS -> Entries]
      /\ \A s \in 0..MAX_CONTROLLERS : s # CtrlCount => Ctrls'[s] = Ctrls[s]
      /\ \A s \in 0..MAX_CONTROLLERS :
           /\ Ctrls'[s].hw = Ctrls[s].hw /\ Ctrls'[s].Dcbaa = Ctrls[s].Dcbaa
           /\ Ctrls'[s].Cmd = Ctrls[s].Cmd /\ Ctrls'[s].Evt = Ctrls[s].Evt
           /\ Ctrls'[s].Scratch = Ctrls[s].Scratch /\ Ctrls'[s].Bounce = Ctrls[s].Bounce
           /\ Ctrls'[s].BounceSize = Ctrls[s].BounceSize
  <2>1. CASE UNCHANGED Ctrls
    BY <1>0, <2>1 DEF StartTyped
  <2>2. CASE Ctrls' = [Ctrls EXCEPT ![CtrlCount] = [Ctrls[CtrlCount] EXCEPT !.Used = TRUE]]
    <3>1. [Ctrls[CtrlCount] EXCEPT !.Used = TRUE] \in Entries
      BY ZenonT(40), <1>2 DEF Entries
    <3> QED BY ZenonT(40), <1>0, <1>2, <2>2, <3>1 DEF StartTyped, Entries
  <2> QED BY <1>1, <2>1, <2>2
<1>5. \A s \in 0..MAX_CONTROLLERS : Ctrls'[s].Used <=> s < CtrlCount'
  <2>1. CASE UNCHANGED <<Ctrls, CtrlCount>>
    BY <1>0, <2>1 DEF StartTyped
  <2>2. CASE CtrlCount' = CtrlCount + 1
    <3>1. Ctrls' = [Ctrls EXCEPT ![CtrlCount] = [Ctrls[CtrlCount] EXCEPT !.Used = TRUE]]
      BY <1>1, <1>2, <2>2
    <3>2. Ctrls'[CtrlCount] = [Ctrls[CtrlCount] EXCEPT !.Used = TRUE]
      BY <1>0, <1>2, <3>1 DEF StartTyped
    <3>3. Ctrls'[CtrlCount].Used = TRUE
      BY <1>2, <3>2 DEF Entries
    <3>4. \A s \in 0..MAX_CONTROLLERS : s # CtrlCount => (Ctrls'[s].Used <=> s < CtrlCount)
      BY <1>0, <1>4 DEF StartTyped
    <3> QED BY <1>2, <2>2, <3>3, <3>4
  <2> QED BY <1>1, <2>1, <2>2
<1>6. X!Running' = X!Running \cup {i} /\ X!Running \subseteq 1..Len(machine) /\ i \notin X!Running
  BY <1>0, <1>2, <1>3, <1>1, <1>i DEF X!Running, StartTyped
<1>7. /\ X!InUse' = X!InUse \/ X!InUse' = X!InUse \cup {c}
      /\ X!InUse \subseteq 0..MAX_CONTROLLERS /\ c \notin X!InUse /\ c \in 0..MAX_CONTROLLERS
  <2>1. X!InUse = {s \in 0..(MAX_CONTROLLERS - 1) : s < CtrlCount}
    BY <1>0, StartBounds DEF X!InUse, StartTyped
  <2>2. X!InUse' = {s \in 0..(MAX_CONTROLLERS - 1) : s < CtrlCount'}
    BY <1>5, StartBounds DEF X!InUse
  <2> QED BY <1>1, <1>2, <1>k, <2>1, <2>2, StartBounds
<1>8. \A h \in 1..Len(machine) : X!Reaches(h)' = X!Reaches(h)
  BY ZenonT(40), <1>3 DEF X!Reaches
<1>9. \A s \in 0..MAX_CONTROLLERS : X!Copies(s)' = X!Copies(s)
  BY <1>4 DEF X!Copies
<1>10. /\ \A a \in 1..7 : Mine[a] \subseteq given /\ Mine[a] \cap Committed = {}
       /\ \A a, b \in 1..7 : a # b => Mine[a] \cap Mine[b] = {}
       /\ Committed \subseteq given
  BY <1>0 DEF EachForOne
<1>11. /\ X!Reaches(i) \subseteq given /\ X!Reaches(i) \cap Committed = {}
       /\ X!Copies(c) \subseteq given /\ X!Copies(c) \cap Committed = {}
       /\ X!Copies(c) \cap X!Reaches(i) = {}
  <2>1. X!Reaches(i) = UNION {Mine[a] : a \in 1..5} /\ X!Copies(c) = Mine[6] \cup Mine[7]
    BY <1>1, <1>i, <1>k, ItsPages
  <2>2. \A a \in 1..5 : a \in 1..7 /\ a # 6 /\ a # 7
    OBVIOUS
  <2>3. 6 \in 1..7 /\ 7 \in 1..7
    OBVIOUS
  <2> QED BY <1>10, <2>1, <2>2, <2>3
<1>12. /\ Committed' \subseteq Committed \cup X!Reaches(i) \cup X!Copies(c)
  <2>1. Reached' \subseteq Reached \cup X!Reaches(i)
    BY <1>2, <1>6, <1>8 DEF Reached
  <2>2. Copied' \subseteq Copied \cup X!Copies(c)
    BY <1>7, <1>9 DEF Copied
  <2> QED BY <2>1, <2>2 DEF Committed
<1>13. xpc' \notin HasDcbaa /\ xpc' \notin {"dcbaa"} \cup HasDcbaa
       /\ xpc' \in {"unprobed", "probed"} \cup Working /\ (xpc' \in Working => xpc' = "find")
  BY <1>1 DEF Working, HasDcbaa, HasArray, HasCommands, HasEvents, HasTable, Bouncing
<1>14. (\A a \in 1..7 : Mine'[a] = {}) /\ Written' /\ Runs'
  BY <1>13, NothingIsMine
<1>15. EachForOne'
  <2>1. Committed' \subseteq given'
    BY <1>1, <1>10, <1>11, <1>12
  <2> QED BY <1>14, <2>1 DEF EachForOne
<1>16. StartTyped'
  <2>1. Skip' \in 0..Len(machine)' /\ CtrlCount' \in 0..Skip' /\ CtrlCount' <= MAX_CONTROLLERS
    <3>1. CtrlCount' \in {CtrlCount, CtrlCount + 1} /\ CtrlCount <= Skip
      BY <1>0, <1>1 DEF StartTyped
    <3> QED BY <1>1, <1>2, <1>i, <3>1, StartBounds
  <2>2. xpc' \in Working => Skip' < Len(machine) /\ CtrlCount' < MAX_CONTROLLERS /\ Skip' < MAX_CONTROLLERS
    BY <1>1, <1>2, <1>i, <1>13, <2>1, StartBounds
  <2>3. \A h \in 1..Len(machine) : hw'[h].run => h <= Skip'
    BY <1>0, <1>1, <1>2, <1>3, <1>i DEF StartTyped
  <2>4. machine' \in Machines /\ xpc' # "unprobed" /\ given' \subseteq held' /\ (\A p \in given' : p < Low4G)
        /\ stage' = "run"
    BY <1>0, <1>1, <1>2 DEF StartTyped, Working, HasDcbaa, HasArray, HasCommands, HasEvents, HasTable, Bouncing
  <2> QED BY <1>1, <1>3, <1>4, <1>5, <1>13, <2>1, <2>2, <2>3, <2>4 DEF StartTyped
<1>17. ASSUME NEW h \in X!Running' PROVE X!ReachesOwn(h)'
  <2>1. \A g \in X!Running : X!Reaches(g) \subseteq Committed
    BY CommittedHas
  <2>2. CASE h = i
    <3>1. Cardinality(X!Reaches(i)) = 4 + (IF machine[i] = 0 THEN 0 ELSE machine[i] + 1)
      BY <1>1, <1>i, <1>k, ItsPages
    <3>2. X!Reaches(i)' = X!Reaches(i) /\ X!Reaches(i) \subseteq given'
          /\ \A p \in X!Reaches(i) : p < Low4G
      BY <1>0, <1>1, <1>2, <1>8, <1>11 DEF StartTyped
    <3>3. \A g \in X!Running' \ {i} : X!Reaches(g)' \cap X!Reaches(i) = {}
      BY <1>6, <1>8, <1>11, <2>1
    <3> QED BY <1>1, <2>2, <3>1, <3>2, <3>3, SizeIsSize DEF X!ReachesOwn
  <2>3. CASE h # i
    <3>1. h \in X!Running /\ X!ReachesOwn(h) /\ X!Reaches(h)' = X!Reaches(h) /\ X!Reaches(h) \subseteq Committed
      BY <1>0, <1>6, <1>8, <2>1, <2>3 DEF X!OnlyOwnPages
    <3>2. \A g \in X!Running' \ {h} : X!Reaches(g)' \cap X!Reaches(h) = {}
      <4>1. \A g \in X!Running \ {h} : X!Reaches(g) \cap X!Reaches(h) = {}
        BY <3>1 DEF X!ReachesOwn
      <4>2. X!Reaches(i)' \cap X!Reaches(h) = {}
        BY <1>2, <1>8, <1>11, <3>1
      <4> QED BY <1>6, <1>8, <4>1, <4>2
    <3> QED BY <1>1, <3>1, <3>2 DEF X!ReachesOwn
  <2> QED BY <2>2, <2>3
<1>18. ASSUME NEW s \in X!InUse' PROVE X!CopiesOwn(s)'
  <2>1. /\ \A h \in X!Running : X!Reaches(h) \subseteq Committed
        /\ \A t \in X!InUse : X!Copies(t) \subseteq Committed
    BY CommittedHas
  <2>2. CASE s = c
    <3>1. /\ hw[i].dcbaap = Ctrls[s].Dcbaa /\ hw[i].crcr = Ctrls[s].Cmd /\ hw[i].evt = Ctrls[s].Evt
          /\ Cardinality(X!Copies(s)) = BestLen + 1
      BY <1>1, <1>i, <1>k, <2>2, ItsPages
    <3>2. Ctrls[s].BounceSize = BestLen /\ BestLen \in 1..BOUNCE_PAGES
      BY <1>1, <1>k, <2>2, AtStart
    <3>3. X!Copies(s)' = X!Copies(s) /\ X!Copies(s) \subseteq given' /\ Ctrls'[s].hw = i
          /\ Ctrls'[s].BounceSize = Ctrls[s].BounceSize
          /\ Ctrls'[s].Dcbaa = Ctrls[s].Dcbaa /\ Ctrls'[s].Cmd = Ctrls[s].Cmd /\ Ctrls'[s].Evt = Ctrls[s].Evt
      BY <1>1, <1>2, <1>4, <1>7, <1>9, <1>11, <1>k, <2>2
    <3>4. \A h \in X!Running' : X!Copies(s) \cap X!Reaches(h)' = {}
      BY <1>2, <1>6, <1>8, <1>11, <2>1, <2>2
    <3>5. \A t \in X!InUse' \ {s} : X!Copies(s) \cap X!Copies(t)' = {}
      BY <1>7, <1>9, <1>11, <2>1, <2>2
    <3>6. i \in X!Running'
      BY <1>6
    <3> QED BY ZenonT(40), <1>3, <3>1, <3>2, <3>3, <3>4, <3>5, <3>6, SizeIsSize DEF X!CopiesOwn
  <2>3. CASE s # c
    <3>1. s \in X!InUse /\ X!CopiesOwn(s) /\ X!Copies(s)' = X!Copies(s) /\ X!Copies(s) \subseteq Committed
          /\ Ctrls'[s] = Ctrls[s]
      BY ZenonT(40), <1>0, <1>4, <1>7, <1>9, <1>k, <2>1, <2>3 DEF X!OnlyOwnPages
    <3>2. Ctrls[s].hw \in X!Running /\ hw'[Ctrls[s].hw] = hw[Ctrls[s].hw] /\ Ctrls[s].hw \in X!Running'
      BY <1>3, <1>6, <3>1 DEF X!CopiesOwn
    <3>3. \A h \in X!Running' : X!Copies(s) \cap X!Reaches(h)' = {}
      <4>1. \A h \in X!Running : X!Copies(s) \cap X!Reaches(h) = {}
        BY <3>1 DEF X!CopiesOwn
      <4>2. X!Copies(s) \cap X!Reaches(i)' = {}
        BY <1>2, <1>8, <1>11, <3>1
      <4> QED BY <1>6, <1>8, <4>1, <4>2
    <3>4. \A t \in X!InUse' \ {s} : X!Copies(s) \cap X!Copies(t)' = {}
      <4>1. \A t \in X!InUse \ {s} : X!Copies(s) \cap X!Copies(t) = {}
        BY <3>1 DEF X!CopiesOwn
      <4>2. X!Copies(s) \cap X!Copies(c)' = {}
        BY <1>7, <1>9, <1>11, <3>1
      <4>3. \A t \in X!InUse' \ {s} : t \in X!InUse \ {s} \/ t = c
        BY <1>7
      <4>4. \A t \in X!InUse : X!Copies(t)' = X!Copies(t)
        BY <1>7, <1>9
      <4>5. ASSUME NEW t \in X!InUse' \ {s} PROVE X!Copies(s) \cap X!Copies(t)' = {}
        BY <4>1, <4>2, <4>3, <4>4
      <4> QED BY <4>5
    <3> QED BY <1>1, <3>1, <3>2, <3>3, <3>4 DEF X!CopiesOwn
  <2> QED BY <2>2, <2>3
<1>19. X!OnlyOwnPages'
  BY <1>17, <1>18 DEF X!OnlyOwnPages
<1>20. Written' /\ Runs'
  BY <1>14
<1> QED BY <1>15, <1>16, <1>19, <1>20 DEF StartInv

(* While nothing of the driver changes, others may change what is free.    *)
LEMMA StartStill ==
  ASSUME StartInv, UNCHANGED start, given \subseteq held', stage = "run" => stage' = "run",
         xpc \in Bouncing => UNCHANGED <<held, clear>>
  PROVE  StartInv'
<1>0. StartTyped /\ EachForOne /\ Written /\ Runs /\ X!OnlyOwnPages
  BY DEF StartInv
<1>1. UNCHANGED <<machine, xpc, Skip, CtrlCount, Ctrls, hw, Scratchpads,
           All, BestStart, BestLen, RunStart, RunLen, trim, given, wasClear>>
  BY DEF start
<1>2. StartTyped'
  BY <1>0, <1>1 DEF StartTyped
<1>3. Left' = Left /\ Taken' = Taken
  BY <1>1 DEF Left, Taken, X!Kept
<1>4. Mine' = Mine
  BY <1>1, <1>3 DEF Mine
<1>5. X!Running' = X!Running /\ X!InUse' = X!InUse
  BY <1>1 DEF X!Running, X!InUse
<1>6. (\A h : X!Reaches(h)' = X!Reaches(h)) /\ (\A s : X!Copies(s)' = X!Copies(s))
  BY <1>1 DEF X!Reaches, X!Copies
<1>7. Committed' = Committed
  BY <1>5, <1>6 DEF Committed, Reached, Copied
<1>8. EachForOne'
  BY <1>0, <1>1, <1>4, <1>7 DEF EachForOne
<1>9. Written'
  BY <1>0, <1>1 DEF Written
<1>10. X!OnlyOwnPages'
  <2>1. \A h \in X!Running : X!ReachesOwn(h)'
    BY <1>0, <1>1, <1>5, <1>6 DEF X!OnlyOwnPages, X!ReachesOwn
  <2>2. \A s \in X!InUse : X!CopiesOwn(s)'
    BY <1>0, <1>1, <1>5, <1>6 DEF X!OnlyOwnPages, X!CopiesOwn
  <2> QED BY <1>5, <2>1, <2>2 DEF X!OnlyOwnPages
<1>11. Runs'
  <2>1. Ascending' = Ascending /\ BestRun' = BestRun /\ NoneLonger' = NoneLonger
    BY <1>1, <1>3 DEF Ascending, BestRun, NoneLonger, Consecutive
  <2> QED BY <1>0, <1>1, <1>3, <2>1 DEF Runs
<1> QED BY <1>2, <1>8, <1>9, <1>10, <1>11 DEF StartInv

LEMMA PoolIs == ASSUME IInv PROVE Pool
BY DEF IInv, TypeOK, ClearInv, Pool

LEMMA OthersStep == ASSUME StartInv, X!Others PROVE StartInv'
<1>0. StartTyped
  BY DEF StartInv
<1>1. UNCHANGED start /\ xpc \in {"unprobed", "probed"} /\ xpc \notin Bouncing
  BY DEF X!Others, X!start, X!dma, start, Bouncing
<1>2. given \subseteq held
  BY <1>0 DEF StartTyped
<1>3. CASE X!InitPmm
  BY <1>1, <1>2, <1>3, StartStill
     DEF X!InitPmm, X!ScanEntry, X!PlaceBitmap, X!ClearEntry, X!MarkBitmap, X!ReserveLow, X!Enter
<1>4. ASSUME NEW p \in clear, X!AllocPage(p) PROVE StartInv'
  BY <1>1, <1>2, <1>4, StartStill DEF X!AllocPage, X!Take
<1>5. ASSUME NEW p \in held \ given, X!FreePage(p) PROVE StartInv'
  BY <1>1, <1>2, <1>5, StartStill DEF X!FreePage
<1> QED BY <1>3, <1>4, <1>5 DEF X!Others

LEMMA StartStep == ASSUME IInv, StartInv, X!StartNext PROVE StartInv'
<1>1. Pool
  BY PoolIs
<1>2. ASSUME NEW p \in clear,
             X!Dcbaa(p) \/ X!Scratchpad(p) \/ X!CommandRing(p) \/ X!EventRing(p) \/ X!SegmentTable(p)
             \/ X!ScratchPage(p) \/ X!TakePage(p)
      PROVE StartInv'
  BY <1>1, <1>2, ForTheArray, ForScratchpads, ForCommands, ForEvents, ForTheTable, ForCopying, ForBouncing
<1>3. CASE X!Probe \/ X!FindAndReset \/ X!NoDmaPage \/ X!TooMany \/ X!WriteDcbaap
           \/ X!TakenAll \/ X!Trim \/ X!Trimmed \/ X!StartController \/ X!Others
  BY <1>1, <1>3, Probing, Resetting, GivingUp, ArrayWritten, EndOfTaking, Trimming, Trimmed,
     NowItRuns, OthersStep
<1> QED BY <1>2, <1>3 DEF X!StartNext, X!XhciRescan

(* To the page allocator these are steps of its own.                       *)
LEMMA StartUsesPool == ASSUME IInv, X!StartNext PROVE IInv'
<1>1. ASSUME NEW p \in clear, stage = "run", X!Take(p) PROVE IInv'
  BY <1>1, TakeStep DEF X!Take, Take
<1>2. ASSUME NEW p \in held, X!FreePage(p) PROVE IInv'
  BY <1>2, FreeStep DEF X!FreePage, FreePage
<1>3. CASE X!InitPmm
  <2>1. InitPmm
    BY <1>3 DEF X!InitPmm, X!ScanEntry, X!PlaceBitmap, X!ClearEntry, X!MarkBitmap, X!ReserveLow, X!Enter,
         InitPmm, ScanEntry, PlaceBitmap, ClearEntry, MarkBitmap, ReserveLow, Enter,
         X!BackedRam, BackedRam, X!EfiConventionalMemory, EfiConventionalMemory,
         X!BitmapPages, BitmapPages, X!BitmapRange, BitmapRange, X!ReservedRange, ReservedRange,
         X!PagesOf, PagesOf, X!Cardinality, Cardinality
  <2> QED BY <2>1, StepInv DEF Next
<1>4. CASE UNCHANGED vars
  BY <1>4, StepInv
<1>5. ASSUME NEW p \in clear, X!AllocPage(p) \/ X!AllocPageBelow4G(p) PROVE IInv'
  BY <1>1, <1>5 DEF X!AllocPage, X!AllocPageBelow4G
<1>6. ASSUME NEW p \in clear,
             X!Dcbaa(p) \/ X!Scratchpad(p) \/ X!CommandRing(p) \/ X!EventRing(p) \/ X!SegmentTable(p)
             \/ X!ScratchPage(p) \/ X!TakePage(p)
      PROVE  IInv'
  <2>1. X!AllocPageBelow4G(p)
    BY <1>6 DEF X!Dcbaa, X!Scratchpad, X!CommandRing, X!EventRing, X!SegmentTable, X!ScratchPage, X!TakePage,
         X!DmaPage
  <2> QED BY <1>5, <2>1
<1>7. CASE X!Trim
  BY <1>2, <1>4, <1>7 DEF X!Trim, X!vars, vars, X!FreePage
<1>8. CASE X!Probe \/ X!FindAndReset \/ X!NoDmaPage \/ X!TooMany \/ X!WriteDcbaap
           \/ X!TakenAll \/ X!Trimmed \/ X!StartController
  BY ZenonT(40), <1>4, <1>8 DEF X!Probe, X!FindAndReset, X!NoDmaPage, X!TooMany, X!WriteDcbaap,
       X!TakenAll, X!Trimmed, X!StartController, X!vars, vars
<1>9. CASE X!Others
  BY <1>2, <1>3, <1>5, <1>9 DEF X!Others
<1> QED BY <1>6, <1>7, <1>8, <1>9 DEF X!StartNext, X!XhciRescan

LEMMA StartBegins == ASSUME X!DriverInit, Init PROVE StartInv
<1>1. /\ machine \in Machines /\ xpc = "unprobed" /\ Skip = 0 /\ CtrlCount = 0
      /\ Ctrls = [s \in 0..MAX_CONTROLLERS |-> X!NoController]
      /\ hw = [h \in 1..Len(machine) |-> X!AsFound] /\ given = {} /\ held = {}
  BY DEF X!DriverInit, Init
<1>2. X!NoController \in Entries /\ X!NoController.Used = FALSE
  BY DEF X!NoController, Entries
<1>3. X!AsFound \in Registers /\ X!AsFound.run = FALSE
  BY DEF X!AsFound, Registers
<1>4. xpc \notin HasDcbaa /\ xpc \notin {"dcbaa"} \cup HasDcbaa /\ xpc \notin Working
  BY <1>1 DEF Working, HasDcbaa, HasArray, HasCommands, HasEvents, HasTable, Bouncing
<1>5. Len(machine) \in Nat
  BY <1>1, StartBounds
<1>6. StartTyped
  <2>1. \A s \in 0..MAX_CONTROLLERS : ~Ctrls[s].Used /\ ~(s < CtrlCount)
    BY <1>1, <1>2, StartBounds
  <2>2. \A h \in 1..Len(machine) : ~hw[h].run
    BY <1>1, <1>3
  <2> QED BY <1>1, <1>2, <1>3, <1>4, <1>5, <2>1, <2>2, StartBounds DEF StartTyped
<1>7. X!Running = {} /\ X!InUse = {}
  BY <1>1, <1>2, <1>3, StartBounds DEF X!Running, X!InUse
<1>8. Committed = {} /\ X!OnlyOwnPages
  BY <1>7 DEF Committed, Reached, Copied, X!OnlyOwnPages
<1>9. xpc \notin Bouncing /\ xpc \notin HasTable /\ xpc \notin HasEvents /\ xpc \notin HasCommands
      /\ xpc \notin HasArray /\ xpc # "pads"
  BY <1>1 DEF HasArray, HasCommands, HasEvents, HasTable, Bouncing
<1>10. \A a \in 1..7 : Mine[a] = {}
  <2>1. Mine = <<{}, {}, {}, {}, {}, {}, {}>>
    BY <1>4, <1>9 DEF Mine
  <2>2. \A a \in 1..7 : a = 1 \/ a = 2 \/ a = 3 \/ a = 4 \/ a = 5 \/ a = 6 \/ a = 7
    OBVIOUS
  <2> QED BY <2>1, <2>2
<1>11. EachForOne /\ Written /\ Runs
  BY <1>4, <1>8, <1>9, <1>10 DEF EachForOne, Written, Runs
<1> QED BY <1>6, <1>8, <1>11 DEF StartInv

(* The arrays of DmaContiguous are large enough, also after it.            *)
InBounds == BestLen <= BOUNCE_PAGES /\ Len(All) <= TRIES

LEMMA BoundsStep == ASSUME InBounds, StartInv', X!StartNext PROVE InBounds'
<1>1. CASE UNCHANGED <<All, BestLen>>
  BY <1>1 DEF InBounds
<1>2. ASSUME NEW p \in clear, X!ScratchPage(p) \/ X!TakePage(p) PROVE InBounds'
  <2>1. xpc' \in Bouncing
    BY <1>2 DEF X!ScratchPage, X!TakePage, X!DmaPage, X!Go, Bouncing
  <2>2. BestLen' \in 0..BOUNCE_PAGES /\ Len(All') <= TRIES
    BY <2>1 DEF StartInv, Runs
  <2>3. BestLen' <= BOUNCE_PAGES
    BY <2>2, StartBounds
  <2> QED BY <2>2, <2>3 DEF InBounds
<1>3. ASSUME NEW p \in clear,
             X!Dcbaa(p) \/ X!Scratchpad(p) \/ X!CommandRing(p) \/ X!EventRing(p) \/ X!SegmentTable(p)
      PROVE  UNCHANGED <<All, BestLen>>
  BY <1>3 DEF X!Dcbaa, X!Scratchpad, X!CommandRing, X!EventRing, X!SegmentTable, X!dma
<1>4. CASE X!Probe \/ X!FindAndReset \/ X!NoDmaPage \/ X!TooMany \/ X!WriteDcbaap
           \/ X!TakenAll \/ X!Trim \/ X!Trimmed \/ X!StartController \/ X!Others
  BY ZenonT(40), <1>1, <1>4 DEF X!Probe, X!FindAndReset, X!NoDmaPage, X!TooMany, X!WriteDcbaap,
       X!TakenAll, X!Trim, X!Trimmed, X!StartController, X!Others, X!dma, X!start
<1> QED BY <1>1, <1>2, <1>3, <1>4 DEF X!StartNext, X!XhciRescan

LEMMA StartRight ==
  ASSUME StartInv, InBounds
  PROVE  X!StartTypes /\ X!OnlyOwnPages /\ X!BounceIsBest
<1>1. X!OnlyOwnPages /\ X!BounceIsBest
  BY LongestIsFound DEF StartInv
<1>2. StartTyped
  BY DEF StartInv
<1>3. \A s \in 0..MAX_CONTROLLERS : Ctrls[s].Used = (s < CtrlCount)
  <2>1. ASSUME NEW s \in 0..MAX_CONTROLLERS PROVE Ctrls[s].Used = (s < CtrlCount)
    <3>1. Ctrls[s].Used \in BOOLEAN
      BY <1>2, StartBounds DEF StartTyped, Entries
    <3>2. Ctrls[s].Used <=> s < CtrlCount
      BY <1>2 DEF StartTyped
    <3> QED BY <3>1, <3>2
  <2> QED BY <2>1
<1>4. X!StartTypes
  BY <1>2, <1>3 DEF X!StartTypes, StartTyped, InBounds
<1> QED BY <1>1, <1>4

------------------------------------------------------------------------------
(* The allocator and those who take its pages.                             *)

(* The allocator's invariant holds whoever calls it.                       *)
THEOREM PagesRight == BootSpec => []IInv
<1>1. BootInit => IInv
  BY InitInv DEF BootInit
<1>2. IInv /\ [BootNext]_all => IInv'
  <2> SUFFICES ASSUME IInv, [BootNext]_all PROVE IInv'
    OBVIOUS
  <2>1. CASE XhciOnly /\ X!StartNext
    BY <2>1, StartUsesPool
  <2>2. CASE PmmOnly /\ Next
    BY <2>2, StepInv
  <2>3. CASE UNCHANGED vars
    BY <2>3, StepInv
  <2> QED BY <2>1, <2>2, <2>3 DEF BootNext, all, LoaderOnly, CodecOnly, VerbsOnly, SearchOnly
<1> QED BY <1>1, <1>2, PTL DEF BootSpec

(* No page is handed out that is not free, usable memory, for every memory *)
(* map, also to the xHCI controllers.                                      *)
THEOREM HandedOutSafe == BootSpec => []HandedOutIsSafe
BY PagesRight, PoolIsSafe, PTL

(* InitPmm and the three calls lose no page and count none twice.          *)
THEOREM PagesCorrect == BootSpec => []PagesAccounted
BY PagesRight, PoolIsCounted, PTL

(* No xHCI controller that was told to run reaches a page that is not its  *)
(* own, and the bounce buffer is the longest run of pages there is: for    *)
(* any number of controllers, scratchpads and pages, and whichever of the  *)
(* steps of bringing one up fails.                                         *)
THEOREM PagesAreOwn ==
  BootSpec => [](part = "xhci" => X!StartTypes /\ X!OnlyOwnPages /\ X!BounceIsBest)
<1> DEFINE Inv == part = "xhci" => StartInv /\ InBounds
<1>1. BootInit => Inv
  <2>1. ASSUME X!DriverInit PROVE InBounds
    BY <2>1, StartBounds DEF X!DriverInit, InBounds
  <2> QED BY <2>1, StartBegins DEF BootInit
<1>2. IInv /\ Inv /\ [BootNext]_all => Inv'
  <2> SUFFICES ASSUME IInv, Inv, [BootNext]_all, part' = "xhci" PROVE StartInv' /\ InBounds'
    OBVIOUS
  <2>1. part = "xhci" /\ StartInv /\ InBounds
    BY DEF BootNext, all, PmmOnly, LoaderOnly, CodecOnly, VerbsOnly, SearchOnly, XhciOnly
  <2>2. CASE XhciOnly /\ X!StartNext
    BY <2>1, <2>2, StartStep, BoundsStep
  <2>3. CASE UNCHANGED all
    <3>1. UNCHANGED <<start, held, clear, stage, All, BestLen>>
      BY <2>3 DEF all, vars, start
    <3>2. given \subseteq held
      BY <2>1 DEF StartInv, StartTyped
    <3>3. given \subseteq held'
      BY <3>1, <3>2
    <3> QED BY <2>1, <3>1, <3>3, StartStill DEF InBounds
  <2> QED BY <2>1, <2>2, <2>3 DEF BootNext, PmmOnly, LoaderOnly, CodecOnly, VerbsOnly, SearchOnly
<1>3. Inv => (part = "xhci" => X!StartTypes /\ X!OnlyOwnPages /\ X!BounceIsBest)
  BY StartRight
<1> QED BY <1>1, <1>2, <1>3, PagesRight, PTL DEF BootSpec

(* The three together.                                                     *)
THEOREM ControllersAreRight == BootSpec => []ControllersRight
<1>1. /\ V!TypeOK /\ V!AnswerIsOwn /\ V!AnswersInOrder
      /\ part = "search" => P!EachFoundOnce
      /\ part = "xhci" => X!StartTypes /\ X!OnlyOwnPages /\ X!BounceIsBest
      => ControllersRight
  BY DEF ControllersRight
<1> QED BY <1>1, VerbsAnswered, ControllersFound, PagesAreOwn, PTL
==============================================================================
