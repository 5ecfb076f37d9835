------------------------------- MODULE Explorer -------------------------------
(***************************************************************************)
(* The file explorer of explorer.c: a list of entries with a selection and *)
(* a scroll position, keys and clicks, the track that plays, and what is   *)
(* redrawn of the screen.  Each round of ExplorerRun handles at most one   *)
(* key, one click and the end of a track, and then draws what was marked.  *)
(*                                                                         *)
(* Of the screen the list's rows and the line of the track are modelled.   *)
(* A name is a number; names of a tens begin with the same letter.  The    *)
(* viewer, messages, lists of more than MAX_ENTRIES and an explorer        *)
(* without any volume are left out.                                        *)
(***************************************************************************)
EXTENDS Integers, Sequences, FiniteSets, SequencesExt

CONSTANTS
  Volumes,             (* FsVolumeCount                                    *)
  Contents,            (* of each directory <<volume, path>>: its entries  *)
  Unreliable,          (* the directories that may fail to be read         *)
  Visible              (* rows of the list                                 *)

Kinds == {"dir", "wav", "file"}
Entry == [name : Nat, kind : Kinds, size : Nat, ext : Nat, hidden : BOOLEAN]

(* The directories of a volume are those that its entries lead to, and no  *)
(* two entries of one have the same name.                                  *)
ExplorerConstants ==
  /\ Volumes \in Nat \ {0} /\ Visible \in Nat /\ Visible >= 3
  /\ DOMAIN Contents \subseteq (1..Volumes) \X Seq(Nat) /\ Unreliable \subseteq DOMAIN Contents
  /\ \A v \in 1..Volumes : <<v, <<>>>> \in DOMAIN Contents
  /\ \A d \in DOMAIN Contents :
       /\ d[2] # <<>> => <<d[1], Front(d[2])>> \in DOMAIN Contents
       /\ IsFiniteSet(Contents[d])
       /\ \A e \in Contents[d] :
            /\ e \in Entry
            /\ e.kind = "dir" => <<d[1], Append(d[2], e.name)>> \in DOMAIN Contents
            /\ \A other \in Contents[d] : other.name = e.name => other = e

VARIABLES
  pc,
  view,                (* [Volume, Dir, Order, Selected, Scroll]           *)
  SortMode, ShowHidden, Autoplay,
  dirty,               (* [list, now, rows]: DF_LIST, DF_NOW, RowDirty; of *)
                       (* history [lost, stale]: a row that was to be      *)
                       (* drawn was not, a track stopped without a mark    *)
  playing,             (* [state, track]: the player, and Playing...       *)
  LastClickItem,       (* -1 also half a second after the click            *)
  clicked,             (* history: the entry of that click                 *)
  screen,              (* [rows, now]: what was drawn                      *)
  corrected            (* history: ClampScroll met a selection out of range*)

settings == <<SortMode, ShowHidden, Autoplay>>
clicks == <<LastClickItem, clicked>>
vars == <<pc, view, SortMode, ShowHidden, Autoplay, dirty, playing, LastClickItem, clicked,
          screen, corrected>>

------------------------------------------------------------------------------
(* The list. *)

NoItem == [name |-> -1, kind |-> "none", size |-> 0, ext |-> 0, hidden |-> FALSE]

Shift(v) == IF v.Dir = <<>> THEN 0 ELSE 1
ItemCount(v) == Len(v.Order) + Shift(v)

(* NoItem is the row that leads up, or none. *)
ItemEntry(v, index) ==
  IF index - Shift(v) + 1 \in DOMAIN v.Order THEN v.Order[index - Shift(v) + 1] ELSE NoItem

(* Directories come first, and go by their names in every mode. *)
EntryLess(mode, a, b) ==
  IF a.kind = "dir" \/ b.kind = "dir"
    THEN IF a.kind = b.kind THEN a.name < b.name ELSE a.kind = "dir"
  ELSE IF mode = 1 /\ a.size # b.size THEN a.size > b.size
  ELSE IF mode = 2 /\ a.ext # b.ext THEN a.ext < b.ext
  ELSE a.name < b.name

(* Each entry stands behind those that are less. *)
SortEntries(S, mode) ==
  LET Before(e) == {x \in S : EntryLess(mode, x, e)}
  IN  [k \in 1..Cardinality(S) |-> CHOOSE e \in S : Cardinality(Before(e)) = k - 1]

(* Index of the entry with a name, or -1. *)
FindItemByName(v, name) ==
  LET found == {k \in DOMAIN v.Order : v.Order[k].name = name}
  IN  IF found = {} THEN -1 ELSE (CHOOSE k \in found : TRUE) - 1 + Shift(v)

OutOfRange(v) == v.Selected < 0 \/ (ItemCount(v) > 0 /\ v.Selected >= ItemCount(v))

(* Mutant: the last row counts as visible although it is not. *)
ClampScrollLoose(v) ==
  LET scroll == IF v.Selected < v.Scroll THEN v.Selected ELSE v.Scroll
  IN  [v EXCEPT !.Scroll = IF v.Selected > scroll + Visible THEN v.Selected - Visible ELSE scroll]

ClampScroll(v) ==
  LET Count == ItemCount(v)
      MaxScroll == IF Count > Visible THEN Count - Visible ELSE 0
      sel == IF ~OutOfRange(v) THEN v.Selected ELSE IF Count > 0 THEN Count - 1 ELSE 0
      a == IF v.Scroll > MaxScroll THEN MaxScroll ELSE IF v.Scroll < 0 THEN 0 ELSE v.Scroll
      b == IF sel < a THEN sel ELSE a
  IN  [v EXCEPT !.Selected = sel,
                !.Scroll = IF sel >= b + Visible THEN sel - Visible + 1 ELSE b]

Clamped(v) == view' = ClampScroll(v) /\ corrected' = (corrected \/ OutOfRange(v))

------------------------------------------------------------------------------
(* Reading a directory. *)

(* What ListCallback is given before the reading ends, well or not.        *)
Readings(volume, dir, hidden) ==
  LET listed == {e \in Contents[<<volume, dir>>] : hidden \/ ~e.hidden}
  IN  {[ok |-> TRUE, entries |-> listed]} \cup
      IF <<volume, dir>> \in Unreliable
        THEN {[ok |-> FALSE, entries |-> S] : S \in SUBSET listed} ELSE {}

NoFocus == -1

(* Where the selection goes: to the entry named, or the first behind "..". *)
Focused(v, focus) ==
  IF focus # NoFocus THEN (IF FindItemByName(v, focus) >= 0 THEN FindItemByName(v, focus) ELSE 0)
  ELSE IF v.Dir # <<>> /\ ItemCount(v) > 1 THEN 1 ELSE 0

Load(volume, dir, mode, entries, focus) ==
  LET v == [Volume |-> volume, Dir |-> dir, Order |-> SortEntries(entries, mode),
            Selected |-> 0, Scroll |-> 0]
  IN  Clamped([v EXCEPT !.Selected = Focused(v, focus)])

NoRows == [a |-> -1, b |-> -1]
All == [list |-> TRUE, now |-> TRUE, rows |-> NoRows, lost |-> FALSE, stale |-> FALSE]

LoadDir(volume, dir, hidden, focus) ==
  /\ \E r \in Readings(volume, dir, hidden) : Load(volume, dir, SortMode, r.entries, focus)
  /\ dirty' = All

------------------------------------------------------------------------------
(* Moving the selection. *)

List(d) == [d EXCEPT !.list = TRUE]
ListAndNow(d) == [d EXCEPT !.list = TRUE, !.now = TRUE]

(* Mutant: when the list scrolls, only two rows are drawn again. *)
MarkSelectRowsOnly(v, w, d) ==
  IF w.Selected = v.Selected THEN d
  ELSE [d EXCEPT !.rows = [a |-> v.Selected, b |-> w.Selected],
                 !.lost = @ \/ d.rows # NoRows]

MarkSelect(v, w, d) ==
  IF w.Selected = v.Selected THEN d
  ELSE IF w.Scroll # v.Scroll THEN List(d)
  ELSE [d EXCEPT !.rows = [a |-> v.Selected, b |-> w.Selected],
                 !.lost = @ \/ d.rows # NoRows]

Near(index) ==
  IF index < 0 THEN 0 ELSE IF index >= ItemCount(view) THEN ItemCount(view) - 1 ELSE index

Move(index) ==
  IF ItemCount(view) = 0 \/ Near(index) = view.Selected THEN UNCHANGED <<view, corrected>>
  ELSE Clamped([view EXCEPT !.Selected = Near(index)])

Select(index) == Move(index) /\ dirty' = MarkSelect(view, view', dirty)

(* The steps to the next entry that begins with a letter. *)
StepsTo(letter) ==
  {s \in 1..ItemCount(view) :
     LET E == ItemEntry(view, (view.Selected + s) % ItemCount(view))
     IN  E # NoItem /\ E.name \div 10 = letter}

JumpToLetter(letter) ==
  IF StepsTo(letter) = {} THEN UNCHANGED <<view, corrected, dirty>>
  ELSE Select((view.Selected + Min(StepsTo(letter))) % ItemCount(view))

------------------------------------------------------------------------------
(* The track. *)

NoTrack == [Volume |-> 0, Dir |-> <<>>, name |-> -1]
Track(v, E) == [Volume |-> v.Volume, Dir |-> v.Dir, name |-> E.name]
Idle == [state |-> "idle", track |-> NoTrack]

(* StartPlay, the marks and the player so far given.  A name may be too    *)
(* long.  PlayerStart stops the track that plays, and may then fail; one   *)
(* that starts may end at once, which TakeFinished sees.                   *)
StartPlay(E, d, player) ==
  \/ playing' = player /\ dirty' = d
  \/ playing' = Idle /\ dirty' = [d EXCEPT !.stale = @ \/ player.state = "playing"]
  \/ /\ \E s \in {"playing", "ended", "broken"} :
          playing' = [state |-> s, track |-> Track(view, E)]
     /\ dirty' = ListAndNow(d)

Stop ==
  /\ playing.state = "playing"
  /\ playing' = Idle
  /\ dirty' = ListAndNow(dirty)

(* The item of the track that ended, or -1. *)
PlayingHere ==
  IF playing.track.Volume = view.Volume /\ playing.track.Dir = view.Dir
    THEN FindItemByName(view, playing.track.name) ELSE -1

WavsAfter(index) ==
  {k \in (index + 1)..(ItemCount(view) - 1) : ItemEntry(view, k).kind = "wav"}

AdvanceTrack(d) ==
  LET next == Min(WavsAfter(PlayingHere))
  IN  IF PlayingHere < 0 \/ WavsAfter(PlayingHere) = {}
        THEN playing' = Idle /\ dirty' = d /\ UNCHANGED <<view, corrected>>
      ELSE /\ Move(next)
           /\ StartPlay(ItemEntry(view, next), MarkSelect(view, view', d), Idle)

------------------------------------------------------------------------------
(* Opening and leaving directories. *)

GoUp ==
  IF view.Dir = <<>> THEN UNCHANGED <<view, corrected, dirty>>
  ELSE LoadDir(view.Volume, Front(view.Dir), ShowHidden, Last(view.Dir))

(* A directory that cannot be read is left again. *)
OpenDir(E) ==
  LET sub == Append(view.Dir, E.name)
  IN  /\ \E r \in Readings(view.Volume, sub, ShowHidden) :
           IF r.ok THEN Load(view.Volume, sub, SortMode, r.entries, NoFocus)
           ELSE \E s \in Readings(view.Volume, view.Dir, ShowHidden) :
                  Load(view.Volume, view.Dir, SortMode, s.entries, NoFocus)
      /\ dirty' = All

Blank == [rows |-> [r \in 0..(Visible - 1) |-> <<>>], now |-> <<>>]

(* ViewerRun covers the screen; the player goes on, and is asked later.    *)
OpenViewer == dirty' = All /\ screen' = Blank

Activate(index) ==
  LET E == ItemEntry(view, index)
  IN  \/ E = NoItem /\ GoUp /\ UNCHANGED <<playing, screen>>
      \/ E.kind = "dir" /\ OpenDir(E) /\ UNCHANGED <<playing, screen>>
      \/ E.kind = "wav" /\ StartPlay(E, dirty, playing) /\ UNCHANGED <<view, corrected, screen>>
      \/ E.kind = "file" /\ OpenViewer /\ UNCHANGED <<view, corrected, playing>>
      \/ \* the name or the path is too long
         E # NoItem /\ UNCHANGED <<view, corrected, dirty, playing, screen>>

SwitchVolume(index) == LoadDir(index, <<>>, ShowHidden, NoFocus)

SelectedName ==
  LET E == ItemEntry(view, view.Selected) IN IF E = NoItem THEN NoFocus ELSE E.name

Refresh(hidden) == LoadDir(view.Volume, view.Dir, hidden, SelectedName)

(* Mutant: the list is sorted under the selection. *)
ResortedStays(mode) ==
  [view EXCEPT !.Order = SortEntries(ToSet(view.Order), mode), !.Scroll = 0]

(* CycleSort goes back to the entry selected before, or to the top. *)
Resorted(mode) ==
  LET v == [view EXCEPT !.Order = SortEntries(ToSet(view.Order), mode), !.Scroll = 0]
      Found == IF SelectedName = NoFocus THEN -1 ELSE FindItemByName(v, SelectedName)
  IN  [v EXCEPT !.Selected = IF Found >= 0 THEN Found ELSE 0]

CycleSort ==
  /\ SortMode' = (SortMode + 1) % 3
  /\ Clamped(Resorted((SortMode + 1) % 3))
  /\ dirty' = List(dirty)

------------------------------------------------------------------------------
(* Keys. *)

Letters == {e.name \div 10 : e \in UNION {Contents[d] : d \in DOMAIN Contents}}

SelectKey ==
  /\ \/ \E index \in {view.Selected - 1, view.Selected + 1, view.Selected - Visible,
                      view.Selected + Visible, 0, ItemCount(view) - 1} : Select(index)
     \/ \E letter \in Letters : JumpToLetter(letter)
  /\ UNCHANGED <<settings, playing, screen>>

OpenKey ==
  /\ \/ Activate(view.Selected)                                  \* Enter
     \/ GoUp /\ UNCHANGED <<playing, screen>>                    \* Backspace, Left
     \/ /\ Volumes > 1                                           \* Tab
        /\ SwitchVolume((view.Volume % Volumes) + 1)
        /\ UNCHANGED <<playing, screen>>
  /\ UNCHANGED settings

ListKey ==
  /\ \/ CycleSort /\ UNCHANGED <<ShowHidden, Autoplay>>
     \/ /\ ShowHidden' = ~ShowHidden /\ Refresh(~ShowHidden)
        /\ UNCHANGED <<SortMode, Autoplay>>
     \/ Refresh(ShowHidden) /\ UNCHANGED settings
  /\ UNCHANGED <<playing, screen>>

ToggleAutoplay ==
  /\ Autoplay' = ~Autoplay /\ dirty' = [dirty EXCEPT !.now = TRUE]
  /\ UNCHANGED playing

PlayerControl ==
  /\ \/ Stop /\ UNCHANGED Autoplay
     \/ ToggleAutoplay
  /\ UNCHANGED <<view, corrected, SortMode, ShowHidden, screen>>

HandleKey ==
  /\ pc = "key" /\ pc' = "mouse"
  /\ SelectKey \/ OpenKey \/ ListKey \/ PlayerControl
  /\ UNCHANGED clicks

NoKey ==
  /\ pc = "key" /\ pc' = "mouse"
  /\ UNCHANGED <<view, settings, dirty, playing, clicks, screen, corrected>>

Quit ==
  /\ pc = "key" /\ pc' = "shell"
  /\ playing' = Idle
  /\ UNCHANGED <<view, settings, dirty, clicks, screen, corrected>>

------------------------------------------------------------------------------
(* Clicks. *)

ClickRow ==
  \E row \in 0..(Visible - 1) :
    LET Index == view.Scroll + row
    IN  /\ Index < ItemCount(view)
        /\ IF Index = view.Selected /\ LastClickItem = Index
             THEN LastClickItem' = -1 /\ clicked' = NoTrack /\ Activate(Index)
           ELSE /\ Select(Index)
                /\ LastClickItem' = Index /\ clicked' = Track(view, ItemEntry(view, Index))
                /\ UNCHANGED <<playing, screen>>
        /\ UNCHANGED settings

ClickScrollbar ==
  /\ ItemCount(view) > Visible
  /\ \E by \in {-Visible, Visible} :
       Clamped([view EXCEPT !.Scroll = @ + by, !.Selected = Near(@ + by)])
  /\ dirty' = List(dirty)
  /\ UNCHANGED <<settings, playing, clicks, screen>>

ClickPanel ==
  /\ \/ \E index \in 1..Volumes : SwitchVolume(index)
     \/ GoUp
  /\ UNCHANGED <<settings, playing, clicks, screen>>

HandleClick ==
  /\ pc = "mouse" /\ pc' = "poll"
  /\ \/ ClickRow
     \/ ClickScrollbar
     \/ ClickPanel
     \/ PlayerControl /\ UNCHANGED clicks

NoClick ==
  /\ pc = "mouse" /\ pc' = "poll"
  /\ UNCHANGED <<view, settings, dirty, playing, clicks, screen, corrected>>

------------------------------------------------------------------------------
(* The player and the screen. *)

PlayerPoll ==
  /\ pc = "poll" /\ pc' = "take"
  /\ \/ UNCHANGED playing
     \/ /\ playing.state = "playing"
        /\ \E s \in {"ended", "broken"} : playing' = [playing EXCEPT !.state = s]
  /\ UNCHANGED <<view, settings, dirty, clicks, screen, corrected>>

(* PlayerTakeFinished, and the line of the track once a second. *)
TakeFinished ==
  /\ pc = "take" /\ pc' = "present"
  /\ \/ /\ playing.state = "ended" /\ Autoplay
        /\ AdvanceTrack(ListAndNow(dirty))
     \/ /\ playing.state = "broken" \/ (playing.state = "ended" /\ ~Autoplay)
        /\ playing' = Idle /\ dirty' = ListAndNow(dirty)
        /\ UNCHANGED <<view, corrected>>
     \/ /\ playing.state = "playing"
        /\ \E second \in BOOLEAN : dirty' = [dirty EXCEPT !.now = @ \/ second]
        /\ UNCHANGED <<playing, view, corrected>>
     \/ playing.state = "idle" /\ UNCHANGED <<playing, dirty, view, corrected>>
  /\ UNCHANGED <<settings, clicks, screen>>

IsPlayingEntry(E) == playing.state = "playing" /\ playing.track = Track(view, E)

(* A row: the entry, whether it is marked as selected and as playing. *)
Row(index) ==
  IF index >= ItemCount(view) THEN <<>>
  ELSE LET E == ItemEntry(view, index)
       IN  <<E.name, index = view.Selected, E # NoItem /\ IsPlayingEntry(E)>>

ListRows == [r \in 0..(Visible - 1) |-> Row(view.Scroll + r)]

(* DrawRow of the two rows that were marked. *)
DrawRows ==
  [r \in 0..(Visible - 1) |->
     IF view.Scroll + r \in {dirty.rows.a, dirty.rows.b} /\ view.Scroll + r < ItemCount(view)
       THEN Row(view.Scroll + r) ELSE screen.rows[r]]

NowLine == <<IF playing.state = "playing" THEN playing.track ELSE NoTrack, Autoplay>>

(* The round ends; by the next one the last click may be too long ago.     *)
Present ==
  /\ pc = "present" /\ pc' = "key"
  /\ screen' = [rows |-> IF dirty.list THEN ListRows ELSE DrawRows,
                now |-> IF dirty.now THEN NowLine ELSE screen.now]
  /\ dirty' = [list |-> FALSE, now |-> FALSE, rows |-> NoRows,
               lost |-> dirty.lost /\ ~dirty.list,
               stale |-> dirty.stale /\ ~(dirty.list /\ dirty.now)]
  /\ UNCHANGED clicks \/ (LastClickItem' = -1 /\ clicked' = NoTrack)
  /\ UNCHANGED <<view, settings, playing, corrected>>

------------------------------------------------------------------------------
Nowhere == [Volume |-> 1, Dir |-> <<>>, Order |-> <<>>, Selected |-> 0, Scroll |-> 0]

Init ==
  /\ pc = "shell" /\ view = Nowhere
  /\ SortMode = 0 /\ ShowHidden = FALSE /\ Autoplay = TRUE
  /\ dirty = All /\ playing = Idle
  /\ LastClickItem = -1 /\ clicked = NoTrack
  /\ screen = Blank /\ corrected = FALSE

(* ExplorerRun begins at the shell's current directory. *)
ExplorerRun ==
  /\ pc = "shell" /\ pc' = "key"
  /\ SortMode' = 0 /\ ShowHidden' = FALSE /\ Autoplay' = TRUE
  /\ LastClickItem' = -1 /\ clicked' = NoTrack /\ playing' = Idle
  /\ \E d \in DOMAIN Contents : \E r \in Readings(d[1], d[2], FALSE) :
       Load(d[1], d[2], 0, r.entries, NoFocus)
  /\ dirty' = All
  /\ screen' = Blank

Next ==
  \/ ExplorerRun
  \/ HandleKey \/ NoKey \/ Quit
  \/ HandleClick \/ NoClick
  \/ PlayerPoll \/ TakeFinished \/ Present

Spec == Init /\ [][Next]_vars
------------------------------------------------------------------------------
Tracks == {NoTrack} \cup
          UNION {{[Volume |-> d[1], Dir |-> d[2], name |-> e.name] :
                    e \in {e \in Contents[d] : e.kind = "wav"}} : d \in DOMAIN Contents}

(* The variables keep their types: what plays is a WAV file on a volume,   *)
(* the list has only entries of the directory it shows.                    *)
TypeOK ==
  /\ pc \in {"shell", "key", "mouse", "poll", "take", "present"}
  /\ <<view.Volume, view.Dir>> \in DOMAIN Contents
  /\ ToSet(view.Order) \subseteq Contents[<<view.Volume, view.Dir>>]
  /\ view.Selected \in Nat /\ view.Scroll \in Nat
  /\ SortMode \in 0..2 /\ ShowHidden \in BOOLEAN /\ Autoplay \in BOOLEAN
  /\ dirty.list \in BOOLEAN /\ dirty.now \in BOOLEAN /\ dirty.lost \in BOOLEAN /\ dirty.stale \in BOOLEAN
  /\ dirty.rows.a \in Nat \cup {-1} /\ dirty.rows.b \in Nat \cup {-1}
  /\ playing.state \in {"idle", "playing", "ended", "broken"}
  /\ playing.track \in Tracks /\ (playing.state = "idle" <=> playing.track = NoTrack)
  /\ LastClickItem \in Nat \cup {-1} /\ corrected \in BOOLEAN

(* Whatever keys, clicks and lists that grow shorter come together, the    *)
(* selection is an item of the list and on the screen, the list does not   *)
(* scroll past its end, and ClampScroll's internal error E130 is never     *)
(* raised.                                                                 *)
SelectionOnScreen ==
  /\ ~corrected
  /\ view.Selected < ItemCount(view) \/ (ItemCount(view) = 0 /\ view.Selected = 0)
  /\ view.Scroll <= view.Selected /\ view.Selected < view.Scroll + Visible
  /\ view.Scroll > 0 => view.Scroll + Visible <= ItemCount(view)

(* After each round the rows and the line of the track, of which only what *)
(* was marked is drawn, are what drawing everything would show; but for    *)
(* the two rounds that mark too little: of two selections in one round     *)
(* only the second is marked, and a track stopped by one that then cannot  *)
(* be started is not.                                                      *)
ScreenCurrent ==
  pc = "key" /\ dirty # All /\ ~dirty.lost /\ ~dirty.stale =>
    screen = [rows |-> ListRows, now |-> NowLine]

(* A click that would count as the second of a double-click is on the      *)
(* entry that the first was on.                                            *)
SecondClickSameEntry ==
  LastClickItem >= 0 /\ LastClickItem = view.Selected =>
    clicked = Track(view, ItemEntry(view, LastClickItem))

(* Sorting the list and showing or hiding files keep the entry selected    *)
(* that was, as long as it is listed.                                      *)
SelectionFollows ==
  [][pc = "key" /\ (SortMode' # SortMode \/ ShowHidden' # ShowHidden)
       /\ SelectedName # NoFocus /\ (\E E \in ToSet(view'.Order) : E.name = SelectedName)
     => SelectedName' = SelectedName]_vars

(* Going up by a key selects the directory that was left, if it is listed. *)
GoUpReturns ==
  [][pc = "key" /\ view.Dir # <<>> /\ view'.Volume = view.Volume /\ view'.Dir = Front(view.Dir)
       /\ (\E E \in ToSet(view'.Order) : E.name = Last(view.Dir))
     => SelectedName' = Last(view.Dir)]_vars

(* Whatever replaces the list keeps the reader's place in it.              *)
SelectionKept == SelectionFollows /\ GoUpReturns

(* A track that starts by itself follows the one that ended: in the folder *)
(* of that one, the next of its WAV files in the order of the list, and    *)
(* only while the list shows that folder.                                  *)
AutoplayFollows ==
  [][pc = "take" /\ playing' # playing /\ playing' # Idle =>
       /\ playing.state = "ended"
       /\ playing'.track.Volume = playing.track.Volume /\ playing'.track.Dir = playing.track.Dir
       /\ LET place(t) == FindItemByName(view, t.name)
          IN  /\ 0 <= place(playing.track) /\ place(playing.track) < place(playing'.track)
              /\ \A k \in (place(playing.track) + 1)..(place(playing'.track) - 1) :
                   ItemEntry(view, k).kind # "wav"
              /\ view'.Selected = place(playing'.track)]_vars
==============================================================================
