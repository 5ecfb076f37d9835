------------------------------- MODULE MCInput -------------------------------
(***************************************************************************)
(* The input drivers and the shell that reads the keys: the ring of typed  *)
(* keys, the keyboard's decoder, the mouse, the line editor on the console. *)
(* The ring takes any keys and the editor any lines, so no two of them     *)
(* share state, and a behaviour is one of one part: `part` says which.     *)
(***************************************************************************)
EXTENDS KeyRing

CONSTANTS
  MCParts,                              (* the parts a run looks at        *)
  Board, MaxEvents,                     (* those of Keyboard               *)
  Buttons, MaxPackets, MaxLost,         (* those of Mouse                  *)
  Cols, Rows, Glyphs, LINE_MAX, HISTORY_SIZE, Prompts, Printable,
  MaxKeys, MaxPrints                    (* those of Shell                  *)

MCPrompts == {<<"a">>, <<"a", "a", "a">>}

VARIABLES
  part,
  \* Keyboard
  down, latest, keyWire, events, capsWanted, due, overlap,
  ShiftHeld, CtrlHeld, AltHeld, ExtendedPrefix, CapsLockOn, NumLockOn, ScrollLockOn, typed,
  \* Mouse
  held, mouseWire, sent, lost, pause, intact, pressed,
  PacketIndex, PacketBytes, LastButtonState,
  AccumDx, AccumDy, MouseButtons, PressedLatch, MouseDataReady,
  mousePc, dx, dy, latch, moved, reported,
  \* Shell
  console, Line, History, HistoryNext, HistoryCount, HistoryPos, command, tabTo,
  prompt, entered, keys, prints

K == INSTANCE Keyboard WITH wire <- keyWire
M == INSTANCE Mouse WITH wire <- mouseWire, pc <- mousePc
S == INSTANCE Shell

ASSUME BoardConstants == K!KeyboardConstants
ASSUME PacketConstants == M!MouseConstants
ASSUME LineConstants == S!ShellConstants

keyboard == <<down, latest, keyWire, events, capsWanted, due, overlap, ShiftHeld, CtrlHeld, AltHeld,
              ExtendedPrefix, CapsLockOn, NumLockOn, ScrollLockOn, typed>>
mouse == <<held, mouseWire, sent, lost, pause, intact, pressed, PacketIndex, PacketBytes,
           LastButtonState, AccumDx, AccumDy, MouseButtons, PressedLatch, MouseDataReady,
           mousePc, dx, dy, latch, moved, reported>>
shell == <<console, Line, History, HistoryNext, HistoryCount, HistoryPos, command, tabTo,
           prompt, entered, keys, prints>>
all == <<part, vars, keyboard, mouse, shell>>

(* The other parts carry no screen along.                                  *)
ShellOff ==
  /\ console = 0 /\ Line = 0 /\ History = 0 /\ HistoryNext = 0 /\ HistoryCount = 0
  /\ HistoryPos = 0 /\ command = 0 /\ tabTo = 0
  /\ prompt = 0 /\ entered = 0 /\ keys = 0 /\ prints = 0

InputInit ==
  /\ part \in MCParts /\ Init /\ K!Init /\ M!Init
  /\ IF part = "shell" THEN S!Init ELSE ShellOff

RingOnly == part = "ring" /\ UNCHANGED <<part, keyboard, mouse, shell>>
KeyboardOnly == part = "keyboard" /\ UNCHANGED <<part, vars, mouse, shell>>
MouseOnly == part = "mouse" /\ UNCHANGED <<part, vars, keyboard, shell>>
ShellOnly == part = "shell" /\ UNCHANGED <<part, vars, keyboard, mouse>>

InputNext ==
  \/ RingOnly /\ Next
  \/ KeyboardOnly /\ K!Next
  \/ MouseOnly /\ M!Next
  \/ ShellOnly /\ S!Next

InputSpec == InputInit /\ [][InputNext]_all

(* A command that runs goes on; nothing makes the user type.               *)
ShellFair ==
  /\ InputSpec
  /\ WF_all(ShellOnly /\ S!Tab)
  /\ WF_all(ShellOnly /\ S!CommandReturns)

------------------------------------------------------------------------------
(* The variables keep their types; KeyboardGetKey finds the key its test   *)
(* saw (see KeyRing), and no modifier is held that nobody holds down (see  *)
(* Keyboard).                                                              *)
StateSound ==
  /\ TypeOK /\ RingSound
  /\ K!TypeOK /\ K!NoStuckModifier
  /\ M!TypeOK
  /\ part = "shell" => S!TypeOK

(* The keys queued are those the typist expects (see Keyboard).            *)
TypedRight == K!TypedRight

(* The decoder finds the start of a packet again, and each motion and each *)
(* press counts at most once (see Mouse).                                  *)
MouseRight == M!Realigns /\ M!MotionOnce /\ M!ClickOnce

(* What Enter executes is what the screen shows, the screen follows the    *)
(* grid though only the rows touched are drawn, and the up key recalls     *)
(* what was entered, in order (see Shell).                                 *)
ShellRight == part = "shell" => S!LineShown /\ S!ScreenFollows /\ S!HistoryRight

(* A tab that a command prints comes to its end (see Shell).               *)
TabEnds == S!TabEnds
==============================================================================
