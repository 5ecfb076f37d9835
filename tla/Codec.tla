-------------------------------- MODULE Codec --------------------------------
(***************************************************************************)
(* How hda.c brings up a sound codec (HdaInit): it lists the widgets,      *)
(* leads every output pin to a converter (DAC) through the widgets between *)
(* them, and sets up the stream.  Each pin is one action; nothing else     *)
(* runs meanwhile.  The codec's wiring does not change: Inputs of a widget *)
(* are the widgets it can listen to, and it listens to one of them.        *)
(***************************************************************************)
EXTENDS Naturals, Sequences, FiniteSets, FiniteSetsExt, SequencesExt

CONSTANTS
  Codecs,            (* the codecs there may be, see CodecConstants         *)
  MAX_DACS, MAX_PINS,
  DEPTH              (* how far from a pin a converter is looked for: 4     *)

CodecConstants ==
  /\ MAX_DACS \in Nat \ {0} /\ MAX_PINS \in Nat \ {0} /\ DEPTH \in Nat \ {0}
  /\ \A c \in Codecs :
       /\ \A w \in c.widgets : c.kind[w] \in {"dac", "digital", "pin", "other"}
       /\ \A w \in c.widgets : c.Inputs[w] \in Seq(c.widgets)
       /\ c.long \subseteq c.widgets       \* their lists are in the long form
       /\ c.outputs \subseteq c.widgets    \* pins that can be outputs
       /\ c.targets \subseteq c.outputs    \* and that something is wired to
       /\ c.outAmps \subseteq c.widgets /\ c.inAmps \subseteq c.widgets

VARIABLES
  codec,
  pc,                (* what HdaInit does next                              *)
  RequireTarget,     (* RouteOutputPins looks at wired pins only            *)
  p,                 (* its loop over Pins                                  *)
  Dacs, Pins,        (* what WalkWidgets listed                             *)
  Candidates,
  EnabledPins, UsedDacs,
  StreamOk,
  \* the codec
  select,            (* the input each widget listens to                    *)
  powered, driven,   (* widgets that are on; pins whose output is on        *)
  outUnmuted,        (* output amplifiers, and input amplifiers             *)
  inUnmuted,
  tagged             (* converters that play the stream                     *)

lists == <<Dacs, Pins>>
amps == <<select, powered, outUnmuted, inUnmuted>>
vars == <<codec, pc, RequireTarget, p, lists, Candidates, EnabledPins, UsedDacs, StreamOk,
          amps, driven, tagged>>

Init ==
  /\ codec \in Codecs
  /\ pc = "start" /\ RequireTarget = TRUE /\ p = 1
  /\ Dacs = <<>> /\ Pins = <<>> /\ Candidates = 0
  /\ EnabledPins = <<>> /\ UsedDacs = <<>> /\ StreamOk = FALSE
  /\ select = [w \in codec.widgets |-> 1]
  /\ powered = {} /\ driven = {} /\ outUnmuted = {} /\ inUnmuted = {} /\ tagged = {}

(* An early return: no controller, no memory, no codec, nothing to play to.*)
GiveUp ==
  /\ pc' = "failed"
  /\ UNCHANGED <<codec, RequireTarget, p, lists, Candidates, EnabledPins, UsedDacs, StreamOk,
                 amps, driven, tagged>>

(* The controller's reset, its rings and the search for the audio group.   *)
StartFails == pc = "start" /\ GiveUp

FirstOf(s, n) == SubSeq(s, 1, IF Len(s) < n THEN Len(s) ELSE n)

Listed(kind) == SetToSortSeq({w \in codec.widgets : codec.kind[w] = kind}, <)

WalkWidgets ==
  /\ pc = "start"
  /\ Dacs' = FirstOf(Listed("dac"), MAX_DACS)
  /\ Pins' = FirstOf(Listed("pin"), MAX_PINS)
  /\ pc' = IF Dacs' = <<>> THEN "failed" ELSE "route"
  /\ UNCHANGED <<codec, RequireTarget, p, Candidates, EnabledPins, UsedDacs, StreamOk,
                 amps, driven, tagged>>

------------------------------------------------------------------------------
(* ConnectPathToDac: the first way to the converter, depth first, as the   *)
(* steps it takes: a widget, and which of its inputs.                      *)

Hops(w) == IF w \in codec.long THEN <<>> ELSE codec.Inputs[w]

Way ==
  LET way[depth \in 0..DEPTH] ==
        [w \in codec.widgets, dac \in Range(Dacs) |->
          LET on(i) == IF depth < 2 THEN <<>> ELSE way[depth - 1][Hops(w)[i], dac]
              hits  == {i \in DOMAIN Hops(w) : Hops(w)[i] = dac \/ on(i) # <<>>}
          IN  IF depth = 0 \/ hits = {} THEN <<>>
              ELSE LET i == Min(hits)
                       step == <<[widget |-> w, input |-> i]>>
                   IN  IF Hops(w)[i] = dac THEN step ELSE step \o on(i)]
  IN  way[DEPTH]

(* Coming back along the way each widget is switched to the input and      *)
(* unmuted, the one nearest to the converter first.                        *)
Selected(way) == FoldRight(LAMBDA step, s : [s EXCEPT ![step.widget] = step.input], way, select)

Unmuted(ws) == {w \in ws : w \in codec.outAmps}

ConnectPathToDac(way) ==
  LET ws == {way[k].widget : k \in DOMAIN way}
  IN  /\ select' = Selected(way)
      /\ powered' = powered \cup ws
      /\ outUnmuted' = outUnmuted \cup Unmuted(ws)
      /\ inUnmuted' = inUnmuted \cup
           {<<way[k].widget, way[k].input>> : k \in {j \in DOMAIN way : way[j].widget \in codec.inAmps}}

Reachable(pin) == {d \in DOMAIN Dacs : Way[pin, Dacs[d]] # <<>>}

Wanted(pin) == pin \in (IF RequireTarget THEN codec.targets ELSE codec.outputs)

(* Mutant of MarkDacUsed: only the first converter is set up.              *)
MarkFirstDac(dac) == IF UsedDacs # <<>> THEN UsedDacs ELSE <<dac>>

MarkDacUsed(dac) == IF dac \in Range(UsedDacs) THEN UsedDacs ELSE Append(UsedDacs, dac)

(* One round of RouteOutputPins.                                           *)
RoutePin ==
  /\ pc = "route" /\ p <= Len(Pins)
  /\ p' = p + 1
  /\ LET pin == Pins[p]
     IN  \/ /\ ~Wanted(pin)
            /\ UNCHANGED <<Candidates, EnabledPins, UsedDacs, amps, driven>>
         \/ /\ Wanted(pin) /\ Reachable(pin) = {}
            /\ Candidates' = Candidates + 1
            /\ UNCHANGED <<EnabledPins, UsedDacs, amps, driven>>
         \/ /\ Wanted(pin) /\ Reachable(pin) # {}
            /\ Candidates' = Candidates + 1
            /\ LET dac == Dacs[Min(Reachable(pin))]
               IN  ConnectPathToDac(Way[pin, dac]) /\ UsedDacs' = MarkDacUsed(dac)
            /\ EnabledPins' = Append(EnabledPins, pin)
            /\ driven' = driven \cup {pin}
  /\ UNCHANGED <<codec, pc, RequireTarget, lists, StreamOk, tagged>>

(* No wired pin could be led to a converter: once more with every output.  *)
RouteAgain ==
  /\ pc = "route" /\ p > Len(Pins) /\ EnabledPins = <<>> /\ RequireTarget
  /\ RequireTarget' = FALSE /\ Candidates' = 0 /\ p' = 1
  /\ UNCHANGED <<codec, pc, lists, EnabledPins, UsedDacs, StreamOk, amps, driven, tagged>>

NoPath == pc = "route" /\ p > Len(Pins) /\ EnabledPins = <<>> /\ ~RequireTarget /\ GiveUp

ConfigureUsedDacs ==
  /\ pc = "route" /\ p > Len(Pins) /\ EnabledPins # <<>>
  /\ powered' = powered \cup Range(UsedDacs)
  /\ outUnmuted' = outUnmuted \cup Unmuted(Range(UsedDacs))
  /\ tagged' = Range(UsedDacs)
  /\ pc' = "stream"
  /\ UNCHANGED <<codec, RequireTarget, p, lists, Candidates, EnabledPins, UsedDacs, StreamOk,
                 select, inUnmuted, driven>>

(* SetupStream needs two pages.                                            *)
SetupStream ==
  /\ pc = "stream"
  /\ pc' = "done" /\ StreamOk' = TRUE
  /\ UNCHANGED <<codec, RequireTarget, p, lists, Candidates, EnabledPins, UsedDacs, amps, driven, tagged>>

StreamFails == pc = "stream" /\ GiveUp

Next ==
  StartFails \/ WalkWidgets \/ RoutePin \/ RouteAgain \/ NoPath \/ ConfigureUsedDacs
  \/ SetupStream \/ StreamFails

Spec == Init /\ [][Next]_vars

------------------------------------------------------------------------------

TypeOK ==
  /\ codec \in Codecs
  /\ pc \in {"start", "route", "stream", "done", "failed"}
  /\ p \in 1..(Len(Pins) + 1)
  /\ Len(Dacs) <= MAX_DACS /\ Len(Pins) <= MAX_PINS
  /\ Candidates \in 0..Len(Pins)
  /\ \A w \in codec.widgets : select[w] \in 1..(Len(codec.Inputs[w]) + 1)

(* What a pin hears: from widget to widget along the selected inputs, as   *)
(* many as there are.                                                      *)
Heard(pin) ==
  LET heard[k \in 0..Cardinality(codec.widgets)] ==
        IF k = 0 THEN pin
        ELSE LET w == heard[k - 1]
             IN  IF codec.kind[w] = "dac" \/ codec.Inputs[w] = <<>> THEN w
                 ELSE codec.Inputs[w][select[w]]
  IN  {heard[k] : k \in 0..Cardinality(codec.widgets)}

(* Every pin that is reported as playing is driven and hears a converter   *)
(* that plays the stream, and nothing on the way is off or muted, although *)
(* a pin that is routed later may switch widgets the way of an earlier one *)
(* goes through.                                                           *)
PinsPlay ==
  pc = "done" =>
    \A k \in DOMAIN EnabledPins :
      LET heard == Heard(EnabledPins[k])
      IN  /\ EnabledPins[k] \in driven
          /\ heard \cap tagged # {}
          /\ heard \subseteq powered
          /\ heard \cap codec.outAmps \subseteq outUnmuted
          /\ \A w \in (heard \cap codec.inAmps) \ tagged : <<w, select[w]>> \in inUnmuted

(* Sound is set up whenever some output hears a converter that is near     *)
(* enough: a wired pin, or any if no wired one does.                       *)
Near(w) ==
  LET near[k \in 0..DEPTH] ==
        IF k = 0 THEN {w} ELSE UNION {Range(Hops(v)) : v \in near[k - 1]}
  IN  UNION {near[k] : k \in 1..DEPTH}

PinsFound ==
  pc = "done" \/ (pc = "failed" /\ Dacs # <<>> /\ ~StreamOk /\ ~RequireTarget) =>
    LET able(pins) == {w \in pins : w \in Range(Pins) /\ Near(w) \cap Range(Dacs) # {}}
    IN  Range(EnabledPins) = IF able(codec.targets) # {} THEN able(codec.targets) ELSE able(codec.outputs)
==============================================================================
