------------------------------- MODULE MCFiles -------------------------------
(***************************************************************************)
(* From the volume to the screen: reads of a FAT32 volume, the volumes and *)
(* paths of fs.c, the explorer's list and the viewer.  Each of the models  *)
(* has what it reads as a constant, and every read may fail or fall short, *)
(* so no two share state, and a behaviour is one of one part: `part` says  *)
(* which.                                                                  *)
(***************************************************************************)
EXTENDS FatRead, TLC

CONSTANTS
  MCParts,             (* the parts a run looks at                         *)
  FsDirs, FsFiles, NameLength, Beginning, Inputs,
  MAX_COMPONENTS, FS_PATH_MAX, MAX_VOLUMES, VOLUMES_PER_PAGE, MaxParts,
                       (* those of Fs                                      *)
  Volumes, Contents, Unreliable, Visible,
                       (* those of Explorer                                *)
  Texts, Lower, Typed, Rows, Cols,
  VIEW_MAX_BYTES, VIEW_MAX_LINES, SEARCH_MAX, CHUNK, HEX
                       (* those of Viewer                                  *)

------------------------------------------------------------------------------
(* A FAT32 volume: two files and a folder whose chains interleave over two *)
(* sectors of the table, a file whose chain is shorter than its size and   *)
(* one that has no cluster.                                                *)
MCClusters == 2..7
MCFat == [c \in 2..7 |-> CASE c = 2 -> 5 [] c = 5 -> 3 [] c = 3 -> 0
                           [] c = 4 -> 6 [] c = 6 -> 0 [] c = 7 -> 0]
MCChain == [c \in {2, 4, 7} |->
  CASE c = 2 -> [i \in 0..2 |-> <<2, 5, 3>>[i + 1]]
    [] c = 4 -> [i \in 0..1 |-> <<4, 6>>[i + 1]]
    [] c = 7 -> [i \in 0..0 |-> 7]]
MCChainLast == [c \in {2, 4, 7} |-> CASE c = 2 -> 2 [] c = 4 -> 1 [] c = 7 -> 0]
FatFiles == { [first |-> 2, size |-> 11], [first |-> 7, size |-> 6], [first |-> 0, size |-> 0] }
FatDirs == { [first |-> 4, used |-> 3], [first |-> 4, used |-> 4] }

------------------------------------------------------------------------------
(* What fs.c finds: one partition with directories three deep and some     *)
(* files, one with less.                                                   *)
MCFsDirs ==
  <<{<<>>, <<"a">>, <<"ab">>, <<"a", "a">>, <<"a", "ab">>, <<"ab", "ab">>, <<"ab", "a">>,
     <<"ab", "ab", "ab">>, <<"ab", "ab", "a">>},
    {<<>>, <<"a">>, <<"a", "ab">>},
    {<<>>}>>
MCFsFiles == <<{<<"f">>, <<"a", "f">>, <<"ab", "ab", "f">>}, {<<"ab">>}, {}>>

MCNameLength == [a |-> 1, ab |-> 2, f |-> 1]
MCBeginning == [a |-> <<"a">>, ab |-> <<"a", "ab">>, f |-> <<"f">>]

(* All paths of up to three names, relative, absolute, or on a volume.     *)
MCInputs ==
  {[volume |-> v, absolute |-> b, names |-> s] :
    v \in 0..2, b \in BOOLEAN,
    s \in UNION {[1..k -> {"a", "ab", "f", "..", "."}] : k \in 0..3}}

------------------------------------------------------------------------------
(* What the explorer finds: a list longer than the screen, with a hidden   *)
(* file; an empty folder that may fail to be read; and a second volume     *)
(* with two tracks, one of the name of a file on the first.                *)
File(name, kind, size, ext, hidden) ==
  [name |-> name, kind |-> kind, size |-> size, ext |-> ext, hidden |-> hidden]

MCContents ==
  (<<1, <<>>>> :> {File(11, "dir", 0, 0, FALSE), File(30, "file", 3, 4, TRUE),
                   File(31, "file", 2, 5, FALSE), File(32, "file", 1, 5, FALSE)}) @@
  (<<1, <<11>>>> :> {}) @@
  (<<2, <<>>>> :> {File(20, "wav", 1, 5, FALSE), File(31, "wav", 2, 5, FALSE)})
MCUnreliable == {<<1, <<11>>>>}

------------------------------------------------------------------------------
(* What the viewer is given: lines of all sorts, characters of several     *)
(* bytes, whole and cut off, rows that a tab ends, more rows and more      *)
(* bytes than it takes, and two files that look binary.                    *)
MCTexts ==
  { <<>>,
    <<"a", "b", "a", "nl", "A", "nl", "b", "nl", "nl", "a", "b">>,
    <<"tab", "a", "a", "tab", "a", "nl", "a", "a", "a", "b", "a", "a">>,
    <<"lead3", "cont", "cont", "a", "lead2", "cont", "lead2", "a", "cont", "b", "cr", "nl", "a">>,
    <<"nl", "nl", "nl", "nl", "nl", "nl", "a", "nl", "b">>,
    <<"a", "nul", "b", "a", "b">>,
    <<"odd">>,
    <<"cr", "a", "b", "a", "a", "b", "cr">> }
MCLower ==
  [c \in {"a", "b", "A", "nl", "cr", "tab", "lead2", "lead3", "cont", "nul", "odd"} |->
    IF c = "A" THEN "a" ELSE c]

------------------------------------------------------------------------------
VARIABLES
  part,
  \* Fs
  Parts, PartCursor, fsVolumes, mounting, CwdVolume, CwdPathText, Status, entered,
  \* Explorer
  xpc, view, SortMode, ShowHidden, Autoplay, dirty, playing, LastClickItem, clicked, screen,
  corrected,
  \* Viewer
  vpc, vfile, Buf, LineOff, LineNum, LinesTruncated, HexMode, Top,
  SearchText, Searching, HaveMatch, MatchStart, Message, Flags, drawn, edited

F == INSTANCE Fs WITH Volumes <- fsVolumes, Dirs <- FsDirs, Files <- FsFiles
X == INSTANCE Explorer WITH pc <- xpc
V == INSTANCE Viewer WITH Contents <- Texts, pc <- vpc, file <- vfile

ASSUME TreeConstants == F!FsConstants
ASSUME ListConstants == X!ExplorerConstants
ASSUME TextConstants == V!ViewerConstants

fs == <<Parts, PartCursor, fsVolumes, mounting, CwdVolume, CwdPathText, Status, entered>>
explorer == <<xpc, view, SortMode, ShowHidden, Autoplay, dirty, playing, LastClickItem, clicked,
              screen, corrected>>
viewer == <<vpc, vfile, Buf, LineOff, LineNum, LinesTruncated, HexMode, Top,
            SearchText, Searching, HaveMatch, MatchStart, Message, Flags, drawn, edited>>
all == <<part, vars, fs, explorer, viewer>>

(* One state of the volume for the other parts, and of the viewer.         *)
FilesInit ==
  /\ part \in MCParts /\ Init /\ F!Init /\ X!Init /\ V!Init
  /\ part # "fat" => file = (CHOOSE f \in Files : TRUE) /\ dir = (CHOOSE d \in Dirs : TRUE)
  /\ part # "viewer" => vfile = CHOOSE text \in Texts : TRUE

FatOnly == part = "fat" /\ UNCHANGED <<part, fs, explorer, viewer>>
FsOnly == part = "fs" /\ UNCHANGED <<part, vars, explorer, viewer>>
ExplorerOnly == part = "explorer" /\ UNCHANGED <<part, vars, fs, viewer>>
ViewerOnly == part = "viewer" /\ UNCHANGED <<part, vars, fs, explorer>>

(* A viewer that was closed is not opened again: the other files are       *)
(* behaviours of their own.                                                *)
ViewerClosed == part = "viewer" /\ vpc = "closed" /\ UNCHANGED all

FilesNext ==
  \/ FatOnly /\ Next
  \/ FsOnly /\ F!Next
  \/ ExplorerOnly /\ X!Next
  \/ ViewerOnly /\ V!Next
  \/ ViewerClosed

(* A read of a volume goes on (see FatRead).                               *)
FilesSpec ==
  /\ FilesInit /\ [][FilesNext]_all
  /\ WF_all(FatOnly /\ (FatReadAt \/ FatListDir))

------------------------------------------------------------------------------
(* The variables keep their types; the selection is on the list and on the *)
(* screen (see Explorer), and no partition is mounted twice (see Fs).      *)
StateSound ==
  /\ part = "fat" => TypeOK
  /\ part = "fs" => F!TypeOK /\ F!VolumesDiffer
  /\ part = "explorer" => X!TypeOK /\ X!SelectionOnScreen
  /\ part = "viewer" => V!TypeOK

(* The current directory's text leads back to it, a path means what the    *)
(* tree says, and a volume's index means the same partition for good (see  *)
(* Fs).                                                                    *)
PathsRight ==
  /\ [](part = "fs" => F!CwdIsEntered /\ F!ResolvesLikeTheTree)
  /\ F!IndexesStay

(* What is not marked for drawing is on the screen as it would be drawn    *)
(* now, in the explorer and in the viewer (see there).                     *)
ScreenCurrent ==
  /\ part = "explorer" => X!ScreenCurrent
  /\ part = "viewer" => V!ViewDrawn

(* The selection stays on its entry, and the next track is the right one   *)
(* (see Explorer).                                                         *)
SelectionKept == X!SelectionKept /\ X!AutoplayFollows

(* The second click of a double click opens the entry the first one        *)
(* selected (see Explorer).                                                *)
SecondClickSameEntry == X!SecondClickSameEntry

(* The rows are the text and fit the screen (see Viewer).                  *)
RowsRight == part = "viewer" => V!RowsRight

(* A search finds what there is, in order, and the window follows (see     *)
(* Viewer).                                                                *)
SearchRight ==
  /\ [](part = "viewer" => V!FoundIsMatch)
  /\ [][part = "viewer" => V!SkipsNone /\ V!WindowFollows]_all
==============================================================================
