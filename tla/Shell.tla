-------------------------------- MODULE Shell --------------------------------
(***************************************************************************)
(* The shell's line editor and history (ShellRun and what it calls in      *)
(* shell.c) on the console.  A key is one step, as interrupts only queue   *)
(* keys.  A command prints what it likes, one call of the console a step;  *)
(* a tab goes column by column.                                            *)
(***************************************************************************)
EXTENDS Naturals, Sequences, SequencesExt

CONSTANTS
  Cols, Rows, Glyphs,
  LINE_MAX,          (* 256, the terminating zero included                 *)
  HISTORY_SIZE,      (* 16                                                 *)
  Prompts,           (* what PrintPrompt prints in some directory          *)
  Printable,         (* what commands print                                *)
  MaxKeys, MaxPrints (* bounds: keys typed, characters a command prints    *)

INSTANCE Console

(* No prompt and line together fill the screen when its last row is still  *)
(* empty: 256 and a path of at most 256 against the 2184 cells above it in *)
(* the smallest mode, 640 by 480.  Commands print no carriage return but   *)
(* for the time of a track, which is not shorter than what it overwrites.  *)
ShellConstants ==
  /\ ConsoleConstants
  /\ LINE_MAX \in Nat \ {0, 1} /\ HISTORY_SIZE \in Nat \ {0}
  /\ MaxKeys \in Nat /\ MaxPrints \in Nat
  /\ \A s \in Prompts : s \in Seq(Glyphs) /\ Len(s) + (LINE_MAX - 1) <= (Rows - 1) * Cols
  /\ Printable \subseteq Glyphs \cup {"nl", "tab"}

VARIABLES
  console,
  Line,              (* the LineLen characters typed                       *)
  History, HistoryNext, HistoryCount, HistoryPos,
  command,           (* "none", "running" or "tab"                         *)
  tabTo,             (* Next, while a tab is printed                       *)
  \* history: what was printed and entered
  prompt, entered, keys, prints

history == <<History, HistoryNext, HistoryCount>>
vars == <<console, Line, history, HistoryPos, command, tabTo, prompt, entered, keys, prints>>

Slots == 0..(HISTORY_SIZE - 1)

(* The shell has printed p as its prompt and waits for keys.               *)
Prompted(k, p) ==
  ConsoleFlush(ConsoleSetAttr(ConsolePrint(ConsoleSetAttr(k, "accent"), p), "normal"))

Init ==
  /\ Line = << >> /\ History = [i \in Slots |-> << >>]
  /\ HistoryNext = 0 /\ HistoryCount = 0 /\ HistoryPos = 0
  /\ command = "none" /\ tabTo = 0
  /\ entered = << >> /\ keys = 0 /\ prints = 0
  /\ prompt \in Prompts /\ console = Prompted(ConsoleInit, prompt)

Key ==
  /\ command = "none" /\ keys < MaxKeys /\ keys' = keys + 1

TypeChar(c) ==
  /\ Key
  /\ IF Len(Line) < LINE_MAX - 1
       THEN /\ Line' = Append(Line, c)
            /\ console' = ConsoleFlush(ConsolePutChar(console, c))
       ELSE console' = ConsoleFlush(console) /\ UNCHANGED Line
  /\ UNCHANGED <<history, HistoryPos, command, tabTo, prompt, entered, prints>>

EraseChar ==
  /\ Key
  /\ IF Len(Line) > 0
       THEN /\ Line' = Front(Line)
            /\ console' = ConsoleFlush(ConsolePutChar(console, "bs"))
       ELSE console' = ConsoleFlush(console) /\ UNCHANGED Line
  /\ UNCHANGED <<history, HistoryPos, command, tabTo, prompt, entered, prints>>

ReplaceInput(text) ==
  /\ Line' = text
  /\ console' = ConsoleFlush(ConsolePrint(
                  ConsolePrint(console, [i \in 1..Len(Line) |-> "bs"]), text))

(* The k-th last line of the history.                                      *)
Recalled(k) == History[((HistoryNext + HISTORY_SIZE) - k) % HISTORY_SIZE]

HistoryTo(pos) ==
  /\ HistoryPos' = pos
  /\ ReplaceInput(IF pos = 0 THEN << >> ELSE Recalled(pos))
  /\ UNCHANGED <<history, command, tabTo, prompt, entered, prints>>

HistoryUp ==
  /\ Key
  /\ IF HistoryPos < HistoryCount
       THEN HistoryTo(HistoryPos + 1)
       ELSE /\ console' = ConsoleFlush(console)
            /\ UNCHANGED <<Line, history, HistoryPos, command, tabTo, prompt, entered, prints>>

HistoryDown ==
  /\ Key
  /\ IF HistoryPos > 0
       THEN HistoryTo(HistoryPos - 1)
       ELSE /\ console' = ConsoleFlush(console)
            /\ UNCHANGED <<Line, history, HistoryPos, command, tabTo, prompt, entered, prints>>

(* Mutant: the last line is looked up one slot too far.                    *)
IsLastOff(line) == HistoryCount > 0 /\ History[HistoryNext] = line

IsLast(line) == HistoryCount > 0 /\ Recalled(1) = line

HistoryAdd ==
  IF Len(Line) = 0 \/ IsLast(Line)
    THEN UNCHANGED history
    ELSE /\ History' = [History EXCEPT ![HistoryNext] = Line]
         /\ HistoryNext' = (HistoryNext + 1) % HISTORY_SIZE
         /\ HistoryCount' = IF HistoryCount < HISTORY_SIZE THEN HistoryCount + 1 ELSE HistoryCount

(* What the user expects to find: no empty line, no line twice in a row.   *)
Remember(line) ==
  IF line = << >> \/ (entered # << >> /\ Last(entered) = line) THEN entered
                                                              ELSE Append(entered, line)

(* A line of blanks has no arguments, and no command runs.                 *)
NoArguments(line) == \A i \in 1..Len(line) : line[i] = "space"

NextPrompt(k) ==
  /\ prompt' \in Prompts
  /\ console' = Prompted(k, prompt')

Enter ==
  /\ Key
  /\ HistoryAdd
  /\ entered' = Remember(Line)
  /\ Line' = << >> /\ HistoryPos' = 0 /\ prints' = 0
  /\ IF NoArguments(Line)
       THEN NextPrompt(ConsolePutChar(console, "nl")) /\ UNCHANGED command
       ELSE /\ command' = "running"
            /\ console' = ConsolePutChar(console, "nl")
            /\ UNCHANGED prompt
  /\ UNCHANGED tabTo

------------------------------------------------------------------------------
(* The command. *)

CommandStays == UNCHANGED <<Line, history, HistoryPos, prompt, entered, keys>>

Prints(c) ==
  /\ command = "running" /\ prints < MaxPrints
  /\ prints' = prints + 1
  /\ IF c = "tab"
       THEN command' = "tab" /\ tabTo' = TabStop(console) /\ UNCHANGED console
       ELSE console' = ConsolePutChar(console, c) /\ UNCHANGED <<command, tabTo>>
  /\ CommandStays

(* CmdClear; the explorer draws over the screen and refreshes the console  *)
(* when it ends; play and beep flush what they say first.                  *)
Redraws ==
  /\ command = "running" /\ prints < MaxPrints
  /\ prints' = prints + 1
  /\ \/ console' = ConsoleClear(console)
     \/ console' = ConsoleRefresh(FillScreen(console, Foreign))
     \/ console' = ConsoleFlush(console)
  /\ CommandStays /\ UNCHANGED <<command, tabTo>>

Tab ==
  /\ command = "tab"
  /\ IF TabGoesOn(console, tabTo)
       THEN console' = TabStep(console) /\ UNCHANGED <<command, tabTo>>
       ELSE command' = "running" /\ tabTo' = 0 /\ UNCHANGED console
  /\ CommandStays /\ UNCHANGED prints

CommandReturns ==
  /\ command = "running"
  /\ command' = "none"
  /\ NextPrompt(console)
  /\ UNCHANGED <<Line, history, HistoryPos, tabTo, entered, keys, prints>>

Command == Redraws \/ Tab \/ CommandReturns \/ \E c \in Printable : Prints(c)

Next ==
  \/ EraseChar \/ HistoryUp \/ HistoryDown \/ Enter \/ Command
  \/ \E c \in Glyphs : TypeChar(c)

Spec == Init /\ [][Next]_vars

(* A command that runs goes on; nothing makes the user type.               *)
FairSpec == Spec /\ WF_vars(Tab) /\ WF_vars(CommandReturns)

------------------------------------------------------------------------------
TypeOK ==
  /\ console \in ConsoleType
  /\ Line \in Seq(Glyphs) /\ Len(Line) < LINE_MAX
  /\ DOMAIN History = Slots /\ \A i \in Slots : Len(History[i]) < LINE_MAX
  /\ HistoryNext \in Slots /\ HistoryCount \in 0..HISTORY_SIZE /\ HistoryPos \in 0..HistoryCount
  /\ command \in {"none", "running", "tab"}

(* The rows a flush leaves out are drawn already, and once the shell waits *)
(* for a key the whole screen shows the grid and the cursor, though        *)
(* ConsolePutChar, Backspace, ScrollUp and ConsoleFlush only keep track of *)
(* the rows they touch.                                                    *)
ScreenFollows ==
  /\ RowsFollow(console)
  /\ command = "none" => Current(console)

(* The i-th last cell before the cursor, in reading order.                 *)
Before(i) ==
  LET at == (console.row * Cols + console.col) - i
  IN console.cells[at \div Cols, at % Cols].char

(* What stands before the cursor is the prompt and the line typed, and     *)
(* nothing stands after it, whatever was typed over the end of a row,      *)
(* erased, recalled or scrolled: what Enter executes is what is shown.     *)
LineShown ==
  command = "none" =>
    LET shown == prompt \o Line
    IN /\ Len(shown) <= console.row * Cols + console.col
       /\ \A i \in 1..Len(shown) : Before(i) = shown[(Len(shown) - i) + 1]
       /\ \A x \in Grid :
            x[1] > console.row \/ (x[1] = console.row /\ x[2] >= console.col)
              => console.cells[x] = Blank

(* The slots hold the last lines entered, the k-th last k slots before     *)
(* HistoryNext, each of them as long as the ring has not come round: the   *)
(* up key recalls what was entered, in order.                              *)
HistoryRight ==
  /\ HistoryCount = IF Len(entered) < HISTORY_SIZE THEN Len(entered) ELSE HISTORY_SIZE
  /\ \A k \in 1..HistoryCount : Recalled(k) = entered[(Len(entered) - k) + 1]

(* A tab that is printed comes to its end: `cat` prints the file.          *)
TabEnds == (command = "tab") ~> (command = "running")
==============================================================================
