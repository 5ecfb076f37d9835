------------------------------- MODULE Console -------------------------------
(***************************************************************************)
(* The text console of console.c: a grid of cells, a cursor, and a picture *)
(* on the screen that ConsoleFlush brings up to date row by row.  The      *)
(* console is a record `k`; an operator takes one and returns the next.    *)
(***************************************************************************)
EXTENDS Naturals, Sequences

CONSTANTS
  Cols, Rows,        (* what ConsoleInit makes of the screen               *)
  Glyphs             (* the printable characters, the blank among them     *)

ConsoleConstants ==
  /\ Cols \in Nat \ {0, 1} /\ Rows \in Nat \ {0, 1}
  /\ "space" \in Glyphs /\ {"nl", "cr", "bs", "tab"} \cap Glyphs = {}

Grid == (0..(Rows - 1)) \X (0..(Cols - 1))
Attrs == {"normal", "accent", "error", "dim"}
Blank == [char |-> "space", attr |-> "normal"]

(* What another program left on the screen.                                *)
Foreign == [char |-> "other", attr |-> "cursor"]

ScrollUp(k) ==
  [k EXCEPT !.cells = [x \in Grid |-> IF x[1] = Rows - 1 THEN Blank ELSE k.cells[x[1] + 1, x[2]]],
            !.dirty = 0..(Rows - 1)]

NewLine(k) ==
  IF k.row + 1 < Rows THEN [k EXCEPT !.col = 0, !.row = @ + 1]
                      ELSE ScrollUp([k EXCEPT !.col = 0])

Erase(k) ==
  [k EXCEPT !.cells[<<k.row, k.col>>] = Blank, !.dirty = @ \cup {k.row}]

Backspace(k) ==
  IF k.col > 0 THEN Erase([k EXCEPT !.col = @ - 1])
  ELSE IF k.row > 0
    THEN Erase([k EXCEPT !.dirty = @ \cup {k.row}, !.row = @ - 1, !.col = Cols - 1])
    ELSE k

PutGlyph(k, c) ==
  LET put == [k EXCEPT !.cells[<<k.row, k.col>>] = [char |-> c, attr |-> k.attr],
                       !.dirty = @ \cup {k.row}, !.col = @ + 1]
  IN IF put.col >= Cols THEN NewLine(put) ELSE put

(* A tab is a loop of its own, see TabStep.                                *)
ConsolePutChar(k, c) ==
  CASE c = "nl" -> NewLine(k)
    [] c = "cr" -> [k EXCEPT !.col = 0]
    [] c = "bs" -> Backspace(k)
    [] c \in Glyphs -> PutGlyph(k, c)
    [] OTHER -> k

(* while (CurCol < Next) ConsolePutChar(' ')                               *)
TabStop(k) == ((k.col \div 4) + 1) * 4
TabGoesOn(k, next) == k.col < next
TabStep(k) == ConsolePutChar(k, "space")

ConsolePrint(k, s) ==
  LET after[n \in 0..Len(s)] == IF n = 0 THEN k ELSE ConsolePutChar(after[n - 1], s[n])
  IN  after[Len(s)]

ConsoleSetAttr(k, a) == [k EXCEPT !.attr = a]

------------------------------------------------------------------------------
(* The screen. *)

(* The cell the cursor is on is drawn in its colours whatever the cell's.  *)
DrawCell(k, x) ==
  IF x = <<k.row, k.col>> THEN [k.cells[x] EXCEPT !.attr = "cursor"] ELSE k.cells[x]

DrawRows(k, rows) ==
  [k EXCEPT !.screen = [x \in Grid |-> IF x[1] \in rows THEN DrawCell(k, x) ELSE k.screen[x]],
            !.dirty = {}, !.prev = k.row]

(* Mutant: the row the cursor has left is not drawn.                       *)
FlushMarked(k) == DrawRows(k, k.dirty \cup {k.row})

ConsoleFlush(k) == DrawRows(k, k.dirty \cup {k.row, k.prev})

FillScreen(k, cell) == [k EXCEPT !.screen = [x \in Grid |-> cell]]

ConsoleClear(k) ==
  ConsoleFlush(FillScreen(
    [k EXCEPT !.cells = [x \in Grid |-> Blank], !.dirty = 0..(Rows - 1),
              !.col = 0, !.row = 0, !.prev = 0], Blank))

ConsoleRefresh(k) ==
  ConsoleFlush([FillScreen(k, Blank) EXCEPT !.dirty = 0..(Rows - 1)])

ConsoleInit ==
  ConsoleClear([cells |-> [x \in Grid |-> Blank], dirty |-> {}, col |-> 0, row |-> 0,
                prev |-> 0, attr |-> "normal", screen |-> [x \in Grid |-> Foreign]])

------------------------------------------------------------------------------
ConsoleType ==
  [cells : [Grid -> [char : Glyphs, attr : Attrs]], dirty : SUBSET (0..(Rows - 1)),
   col : 0..(Cols - 1), row : 0..(Rows - 1), prev : 0..(Rows - 1), attr : Attrs,
   screen : [Grid -> [char : Glyphs \cup {"other"}, attr : Attrs \cup {"cursor"}]]]

(* A row that the next flush leaves out shows its cells and no cursor.     *)
RowsFollow(k) ==
  \A x \in Grid : x[1] \notin k.dirty \cup {k.row, k.prev} => k.screen[x] = k.cells[x]

Current(k) == \A x \in Grid : k.screen[x] = DrawCell(k, x)
==============================================================================
