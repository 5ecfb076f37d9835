------------------------------- MODULE Viewer -------------------------------
(***************************************************************************)
(* The text and hex viewer (viewer.c): a file of bytes cut into rows, a    *)
(* window of rows on the screen, and a search.  One iteration of           *)
(* ViewerRun's loop is three steps: a key, the mouse, and the drawing of   *)
(* what the two have marked.                                               *)
(***************************************************************************)
EXTENDS Integers, Sequences, FiniteSetsExt

CONSTANTS
  Contents,          (* the files: sequences of bytes                      *)
  Lower,             (* UiLower of a byte                                  *)
  Typed,             (* the characters typed into a search                 *)
  Rows, Cols,        (* what the screen has room for                       *)
  VIEW_MAX_BYTES,    (* 256 KB                                             *)
  VIEW_MAX_LINES,    (* 16384                                              *)
  SEARCH_MAX,        (* 48                                                 *)
  CHUNK,             (* bytes FsRead is asked for, 16384                   *)
  HEX                (* bytes in a row of the hex view, 16                 *)

(* Bytes that end or leave no cell, widen, and begin or continue a         *)
(* character of several bytes.                                             *)
Lead == [lead2 |-> 2, lead3 |-> 3]

ViewerConstants ==
  /\ Rows \in Nat /\ Rows >= 3 /\ Cols \in Nat /\ Cols >= 4
  /\ VIEW_MAX_BYTES \in Nat \ {0} /\ VIEW_MAX_LINES \in Nat \ {0}
  /\ SEARCH_MAX \in Nat \ {0, 1} /\ CHUNK \in Nat \ {0} /\ HEX \in Nat \ {0}
  /\ Typed \subseteq DOMAIN Lower /\ \A bytes \in Contents : bytes \in Seq(DOMAIN Lower)

VARIABLES
  file, Buf,         (* the file, and the Len bytes of it that were read   *)
  LineOff, LineNum, LinesTruncated,
  HexMode, Top,
  SearchText, Searching, HaveMatch, MatchStart,
  Message,           (* "none", or what Say was called with                *)
  Flags,
  pc,                (* "closed", "load", "key", "mouse" or "present"      *)
  \* history
  drawn,             (* what each part of the screen showed when drawn     *)
  edited             (* the search text was changed since the last search  *)

text == <<file, Buf, LineOff, LineNum, LinesTruncated>>
search == <<SearchText, Searching, HaveMatch, MatchStart>>
vars == <<text, HexMode, Top, search, Message, Flags, pc, drawn, edited>>

VD_ALL == {"title", "content", "hint"}

(* Bytes are counted from 0.                                               *)
Len0 == Len(Buf)
Byte(p) == Buf[p + 1]

------------------------------------------------------------------------------
(* Rows. *)

Continues(p) == p < Len0 /\ Byte(p) = "cont"

(* CharInfo: the columns the character at p takes, and where the next is.  *)
Width(p, col) == IF Byte(p) = "tab" THEN 4 - (col % 4) ELSE 1
NextChar(p) ==
  IF Byte(p) \notin DOMAIN Lead THEN p + 1
  ELSE CHOOSE e \in (p + 1)..(p + Lead[Byte(p)]) :
         /\ \A q \in (p + 1)..(e - 1) : Continues(q)
         /\ e = p + Lead[Byte(p)] \/ ~Continues(e)

(* The inner loop of BuildLines from byte p and column col on: where the   *)
(* row ends, and whether at a newline.                                     *)
RowFrom[p \in 0..VIEW_MAX_BYTES, col \in 0..(Cols + 4)] ==
  IF p >= Len0 THEN [next |-> p, newline |-> FALSE]
  ELSE IF Byte(p) = "nl" THEN [next |-> p + 1, newline |-> TRUE]
  ELSE IF Byte(p) = "cr" THEN RowFrom[p + 1, col]
  ELSE IF col + Width(p, col) > Cols /\ col > 0 THEN [next |-> p, newline |-> FALSE]
  ELSE RowFrom[NextChar(p), col + Width(p, col)]

(* Mutant: a row takes one column too many.                                *)
RowEndWide(p) ==
  LET row == RowFrom[p, 0]
  IN IF row.newline \/ row.next >= Len0 \/ Byte(row.next) = "tab" THEN row
     ELSE [row EXCEPT !.next = NextChar(@)]

RowEnd(p) == RowFrom[p, 0]

(* The outer loop: row n, with the number of the line it begins, or 0.     *)
RowAt[n \in Nat] ==
  IF n = 1 THEN [off |-> 0, num |-> 1, logical |-> 1]
  ELSE LET prev == RowAt[n - 1]
           end == RowEnd(prev.off)
       IN IF end.newline
            THEN [off |-> end.next, num |-> prev.logical + 1, logical |-> prev.logical + 1]
            ELSE [off |-> end.next, num |-> 0, logical |-> prev.logical]

LastRow(n) == n = VIEW_MAX_LINES \/ RowEnd(RowAt[n].off).next >= Len0

(* LineOff[LineCount] is the end of the text; rows are counted from 0.     *)
BuildLines(count) ==
  /\ LineOff' = [n \in 0..count |-> IF n < count THEN RowAt[n + 1].off ELSE Len0]
  /\ LineNum' = [n \in 0..(count - 1) |-> RowAt[n + 1].num]
  /\ LinesTruncated' = (RowEnd(RowAt[count].off).next < Len0)

RowsOfText == CHOOSE n \in 1..VIEW_MAX_LINES : LastRow(n) /\ \A m \in 1..(n - 1) : ~LastRow(m)

LineCount == Cardinality(DOMAIN LineNum)
LastLine == LineCount - 1

TotalRows(hex) == IF hex THEN ((Len0 + HEX) - 1) \div HEX ELSE LineCount

ClampTop(hex, top) ==
  LET total == TotalRows(hex)
      most == IF total > Rows THEN total - Rows ELSE 0
      least == IF top > most THEN most ELSE top
  IN IF least < 0 THEN 0 ELSE least

(* The binary search, from Lo to Hi.                                       *)
Search[lo \in 0..VIEW_MAX_LINES, hi \in 0..VIEW_MAX_LINES, off \in 0..VIEW_MAX_BYTES] ==
  IF lo >= hi THEN lo
  ELSE LET mid == (lo + hi + 1) \div 2
       IN IF LineOff[mid] <= off THEN Search[mid, hi, off] ELSE Search[lo, mid - 1, off]

LineForOffset(off) == Search[0, LastLine, off]

TopOffset == IF HexMode THEN Top * HEX ELSE LineOff[Top]

RowOf(hex, off) == IF hex THEN off \div HEX ELSE LineForOffset(off)

TopShowing(off) == ClampTop(HexMode, RowOf(HexMode, off) - 2)

------------------------------------------------------------------------------
(* What the parts of the screen show. *)

Lit == IF HaveMatch THEN MatchStart..(MatchStart + Len(SearchText) - 1) ELSE {}

View ==
  [title |-> [hex |-> HexMode, top |-> Top],
   content |-> [hex |-> HexMode, top |-> Top, lit |-> Lit],
   hint |-> IF Searching THEN [shows |-> "find", find |-> SearchText]
                         ELSE [shows |-> Message, find |-> << >>]]

Init ==
  /\ file \in Contents /\ Buf = << >> /\ LineOff = [n \in {0} |-> 0] /\ LineNum = << >>
  /\ LinesTruncated = FALSE /\ HexMode = FALSE /\ Top = 0
  /\ SearchText = << >> /\ Searching = FALSE /\ HaveMatch = FALSE /\ MatchStart = 0
  /\ Message = "none" /\ Flags = {} /\ pc = "load" /\ edited = FALSE
  /\ drawn = View

(* LoadFile: at most VIEW_MAX_BYTES, a chunk at a time.  FsRead may return *)
(* less than it was asked for, and nothing where the disk cannot be read.  *)
Want == Min({Len(file), VIEW_MAX_BYTES})

LoadChunk ==
  /\ pc = "load" /\ Len0 < Want
  /\ \E n \in 1..Min({Want - Len0, CHUNK}) : Buf' = SubSeq(file, 1, Len0 + n)
  /\ UNCHANGED <<file, LineOff, LineNum, LinesTruncated, HexMode, Top, search, Message, Flags,
                 pc, drawn, edited>>

(* LooksBinary: a zero, or more than one odd byte in twenty.               *)
LooksBinary ==
  \/ \E p \in 1..Len0 : Buf[p] = "nul"
  \/ Cardinality({p \in 1..Len0 : Buf[p] = "odd"}) * 20 > Len0

(* Which of the warnings ViewerRun says.                                   *)
Warning ==
  CASE Len0 < Want -> "E_FILE_READ"
    [] Len0 = Want /\ Len0 < Len(file) -> "E_FILE_TRUNCATED"
    [] Len0 = Len(file) /\ HexMode' -> "E_FILE_BINARY"
    [] Len0 = Len(file) /\ ~HexMode' /\ LinesTruncated' -> "E_VIEW_LINES"
    [] file = << >> -> "E_FILE_EMPTY"
    [] OTHER -> "none"

(* ViewerRun up to its loop.  A file none of which can be read is not      *)
(* shown; the explorer reports E_FILE_READ.                                *)
Opens ==
  /\ pc = "load" /\ (Len0 > 0 \/ Want = 0)
  /\ BuildLines(RowsOfText)
  /\ HexMode' = LooksBinary
  /\ Top' = 0
  /\ SearchText' = << >> /\ Searching' = FALSE /\ HaveMatch' = FALSE /\ MatchStart' = 0
  /\ Message' = Warning
  /\ Flags' = VD_ALL /\ pc' = "key"
  /\ UNCHANGED <<file, Buf, drawn, edited>>

ReadFails ==
  /\ pc = "load" /\ Len0 < Want
  /\ Len0 = 0
  /\ pc' = "closed"
  /\ UNCHANGED <<text, HexMode, Top, search, Message, Flags, drawn, edited>>

------------------------------------------------------------------------------
(* The keys. *)

(* Scroll.                                                                 *)
ScrollTo(top) ==
  /\ Top' = ClampTop(HexMode, top)
  /\ Flags' = IF Top' = Top THEN Flags ELSE Flags \cup {"content", "title"}
  /\ UNCHANGED <<HexMode, search, Message, edited>>

Steps == {-1, 1, -(Rows - 1), Rows - 1, -TotalRows(HexMode), TotalRows(HexMode)}

ToggleHex ==
  /\ HexMode' = ~HexMode
  /\ Top' = ClampTop(HexMode', RowOf(HexMode', TopOffset))
  /\ Flags' = VD_ALL
  /\ UNCHANGED <<search, Message, edited>>

MatchAt(p) ==
  /\ p + Len(SearchText) <= Len0
  /\ \A i \in 1..Len(SearchText) : Lower[Buf[p + i]] = Lower[SearchText[i]]

LastStart == Len0 - Len(SearchText)

(* FindText's passes: from From to the end, and from the beginning to      *)
(* before it; the first match there is, if there is one.                   *)
Passes(from) ==
  LET start == IF from > LastStart THEN 0 ELSE from
  IN <<start..LastStart, 0..(start - 1)>>

Matches(from, pass) == {p \in Passes(from)[pass] : MatchAt(p)}

Found(p) ==
  /\ HaveMatch' = TRUE /\ MatchStart' = p
  /\ Top' = TopShowing(p)
  /\ Flags' = Flags \cup {"content", "title"} \cup (IF Searching THEN {"hint"} ELSE {})
  /\ UNCHANGED Message

(* A text longer than the file is not looked for, and the rows stay as     *)
(* they were drawn.                                                        *)
TooLong == Len0 < Len(SearchText)

NotFound ==
  /\ HaveMatch' = FALSE /\ Message' = "E_TEXT_NOTFOUND"
  /\ Flags' = Flags \cup {"hint"} \cup (IF TooLong THEN {} ELSE {"content"})
  /\ UNCHANGED <<MatchStart, Top>>

(* Mutant: the second pass is left out.                                    *)
FindTextOnce(from) ==
  IF Matches(from, 1) # {} THEN Found(Min(Matches(from, 1))) ELSE NotFound

FindText(from) ==
  IF Matches(from, 1) # {} THEN Found(Min(Matches(from, 1)))
  ELSE IF Matches(from, 2) # {} THEN Found(Min(Matches(from, 2)))
  ELSE NotFound

(* HandleSearchKey.  Esc leaves the text as it is; Enter looks for it.     *)
SearchKey ==
  \/ /\ Searching' = FALSE
     /\ Flags' = Flags \cup {"hint"}
     /\ UNCHANGED <<SearchText, HaveMatch, MatchStart, Top, Message, edited>>
  \/ /\ Searching' = FALSE /\ edited' = (SearchText = << >>)
     /\ IF SearchText = << >>
          THEN /\ Flags' = Flags \cup {"hint"}
               /\ UNCHANGED <<HaveMatch, MatchStart, Top, Message>>
          ELSE FindText(IF HaveMatch THEN MatchStart ELSE TopOffset)
     /\ UNCHANGED SearchText
  \/ /\ \/ SearchText # << >> /\ SearchText' = SubSeq(SearchText, 1, Len(SearchText) - 1)
        \/ \E c \in Typed : Len(SearchText) < SEARCH_MAX - 1 /\ SearchText' = Append(SearchText, c)
     /\ Flags' = Flags \cup {"hint"} /\ edited' = TRUE
     /\ UNCHANGED <<Searching, HaveMatch, MatchStart, Top, Message>>

Slash ==
  /\ Searching' = TRUE /\ SearchText' = << >> /\ Message' = "none" /\ edited' = TRUE
  /\ Flags' = Flags \cup {"hint"}
  /\ UNCHANGED <<HexMode, Top, HaveMatch, MatchStart>>

FindNext ==
  /\ IF SearchText = << >>
       THEN /\ Searching' = TRUE /\ Flags' = Flags \cup {"hint"}
            /\ UNCHANGED <<HaveMatch, MatchStart, Top, Message, edited>>
       ELSE /\ FindText(IF HaveMatch THEN MatchStart + 1 ELSE TopOffset)
            /\ edited' = FALSE
            /\ UNCHANGED Searching
  /\ UNCHANGED <<HexMode, SearchText>>

HandleKey ==
  /\ pc = "key"
  /\ pc' = "mouse"
  /\ \/ Searching /\ SearchKey /\ UNCHANGED HexMode
     \/ ~Searching /\ \E d \in Steps : ScrollTo(Top + d)
     \/ ~Searching /\ (ToggleHex \/ Slash \/ FindNext)
  /\ UNCHANGED <<text, drawn>>

NoKey ==
  /\ pc = "key"
  /\ pc' = "mouse"
  /\ UNCHANGED <<text, HexMode, Top, search, Message, Flags, drawn, edited>>

(* Esc and its like, outside a search; the Back button.                    *)
Leaves ==
  /\ (pc = "key" /\ ~Searching) \/ pc = "mouse"
  /\ pc' = "closed"
  /\ UNCHANGED <<text, HexMode, Top, search, Message, Flags, drawn, edited>>

(* The buttons and the scroll bar work during a search, too.               *)
HandleClick ==
  /\ pc = "mouse"
  /\ pc' = "present"
  /\ \/ ToggleHex
     \/ \E d \in {-(Rows - 1), Rows - 1} : ScrollTo(Top + d)
  /\ UNCHANGED <<text, drawn>>

NoClick ==
  /\ pc = "mouse"
  /\ pc' = "present"
  /\ UNCHANGED <<text, HexMode, Top, search, Message, Flags, drawn, edited>>

(* A message is shown for 6000 ticks.                                      *)
Expires ==
  /\ pc = "present" /\ Message # "none"
  /\ Message' = "none" /\ Flags' = Flags \cup {"hint"}
  /\ UNCHANGED <<text, HexMode, Top, search, pc, drawn, edited>>

Present ==
  /\ pc = "present"
  /\ drawn' = [part \in VD_ALL |-> IF part \in Flags THEN View[part] ELSE drawn[part]]
  /\ Flags' = {} /\ pc' = "key"
  /\ UNCHANGED <<text, HexMode, Top, search, Message, edited>>

Next ==
  \/ LoadChunk \/ ReadFails \/ Opens
  \/ HandleKey \/ NoKey \/ HandleClick \/ NoClick \/ Leaves \/ Expires \/ Present

Spec == Init /\ [][Next]_vars
------------------------------------------------------------------------------
Open == pc \in {"key", "mouse", "present"}

TypeOK ==
  /\ file \in Contents /\ Len0 <= Want /\ Buf = SubSeq(file, 1, Len0)
  /\ HexMode \in BOOLEAN /\ Searching \in BOOLEAN /\ HaveMatch \in BOOLEAN
  /\ Len(SearchText) < SEARCH_MAX
  /\ Flags \subseteq VD_ALL
  /\ Open => Top = ClampTop(HexMode, Top)

(* DrawTextLine: the columns taken from byte p up to the row's end.        *)
ColumnsFrom[p \in 0..VIEW_MAX_BYTES, end \in 0..VIEW_MAX_BYTES, col \in Nat] ==
  IF p >= end THEN col
  ELSE IF Byte(p) \in {"nl", "cr"} THEN ColumnsFrom[p + 1, end, col]
  ELSE ColumnsFrom[NextChar(p), end, col + Width(p, col)]

Columns(n) == ColumnsFrom[LineOff[n], LineOff[n + 1], 0]

(* The rows are the text: one after the other without gaps, each inside    *)
(* the text area, a numbered one where a line begins, and the binary       *)
(* search finds the row a byte is in.  BuildLines wraps and DrawTextLine   *)
(* draws in two loops of their own.  A truncated view's last row goes to   *)
(* the end of the text, and may be wider than the screen.                  *)
RowsRight ==
  Open =>
    /\ LineOff[0] = 0 /\ LineOff[LineCount] = Len0
    /\ \A n \in DOMAIN LineNum :
         /\ LineOff[n] < LineOff[n + 1] \/ Len0 = 0
         /\ Columns(n) > Cols => LinesTruncated /\ n = LastLine
         /\ LineNum[n] = IF n = 0 \/ Byte(LineOff[n] - 1) = "nl"
                           THEN Cardinality({p \in 1..LineOff[n] : Buf[p] = "nl"}) + 1 ELSE 0
    /\ \A p \in 0..(Len0 - 1) :
         LET n == LineForOffset(p) IN LineOff[n] <= p /\ p < LineOff[n + 1]

(* A search reports a match when the text holds one and only then.         *)
FoundIsMatch ==
  Open /\ ~edited /\ SearchText # << >> =>
    /\ HaveMatch => MatchAt(MatchStart)
    /\ ~HaveMatch => \A p \in 0..LastStart : ~MatchAt(p)

(* Between a and b, going on from the end of the text at its beginning.    *)
Between(a, p, b) ==
  IF a < b THEN a < p /\ p < b ELSE a < p \/ p < b

(* N goes to the next match, skipping none, wherever it wraps round.       *)
SkipsNone ==
  HaveMatch /\ HaveMatch' /\ MatchStart' # MatchStart =>
    \A p \in 0..LastStart : MatchAt(p) => ~Between(MatchStart, p, MatchStart')

Shown(off) == RowOf(HexMode, off) \in Top..(Top + Rows - 1)

(* A match that was found is in the window, and so is the byte that was at *)
(* the top before the other view was chosen.                               *)
WindowFollows ==
  /\ HaveMatch' /\ MatchStart' # MatchStart => Shown(MatchStart)'
  /\ Open /\ HexMode' # HexMode => RowOf(HexMode', TopOffset) \in Top'..(Top' + Rows - 1)

(* A search finds what there is, in order, and the window follows it.      *)
SearchRight == []FoundIsMatch /\ [][SkipsNone /\ WindowFollows]_vars

(* What is not marked for drawing is on the screen as it would be drawn    *)
(* now.  The highlight of a match is left as it was while the search text  *)
(* is being changed, when the change is abandoned, and when the text is    *)
(* longer than the file.                                                   *)
ViewDrawn ==
  Open =>
    \A part \in VD_ALL \ Flags :
      IF part = "content" /\ (edited \/ TooLong)
        THEN drawn.content.hex = HexMode /\ drawn.content.top = Top
        ELSE drawn[part] = View[part]
==============================================================================
