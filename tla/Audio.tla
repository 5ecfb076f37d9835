-------------------------------- MODULE Audio --------------------------------
(***************************************************************************)
(* The music player (player.c) over the output stream of the HDA driver    *)
(* (hda.c): a ring of pages that the main loop fills from the file while   *)
(* the codec plays it round and round, with nothing but a position         *)
(* register to tell the driver how far it is.                              *)
(*                                                                         *)
(* The hardware moves between any two steps of the main loop.  PlayActive  *)
(* and PlayStarted of the driver change together with Active and Started   *)
(* of the player, which alone calls it; one variable stands for each pair. *)
(***************************************************************************)
EXTENDS Naturals

CONSTANTS
  PlayPages,       (* pages of the ring, 32                                *)
  StartFill,       (* pages filled before the stream starts, 16            *)
  PageFrames,      (* frames in a page, 1024                               *)
  Songs,           (* files: [id, frames]                                  *)
  MaxHw,           (* bound: pages played in one run of the stream         *)
  Silence, Garbled (* a zeroed page, and one that is being written         *)

(* What a page holds that was written: frames of a song.                   *)
Written == [id : {s.id : s \in Songs}, first : Nat, count : 1..PageFrames]

AudioConstants ==
  /\ Silence \notin Written /\ Garbled \notin Written
  /\ PlayPages \in Nat \ {0, 1} /\ StartFill \in 1..PlayPages
  /\ PageFrames \in Nat \ {0} /\ MaxHw \in Nat
  /\ \A s \in Songs : s.frames \in Nat \ {0}

VARIABLES
  Active, Started, Finished, ReadFailed,
  song, FramesDone, DataPages,
  PlayFilled,        (* pages handed to the codec                          *)
  PlayHwTotal,       (* pages the driver believes were played              *)
  PlayLastHw,        (* the page it saw the codec in                       *)
  PlayRing,          (* what each page holds: [id, first, count] of frames *)
  pc, put,           (* where PlayerPoll is; frames going into the page    *)
  Lpib,              (* the codec's position in pages; PlayPages at the end *)
  HwTotal,           (* pages it has played                                *)
  \* history
  seen,              (* HwTotal when the position was last read            *)
  heard,             (* frames heard in order                              *)
  late,              (* the codec has overtaken the player                 *)
  missed             (* it has gone round the ring unseen by the driver    *)

player == <<Active, Started, Finished, ReadFailed, song, FramesDone, DataPages>>
position == <<PlayHwTotal, PlayLastHw, seen>>
codec == <<Lpib, HwTotal, heard, late, missed>>
vars == <<player, PlayFilled, position, PlayRing, pc, put, codec>>

Init ==
  /\ Active = FALSE /\ Started = FALSE /\ Finished = FALSE /\ ReadFailed = FALSE
  /\ song \in Songs /\ FramesDone = 0 /\ DataPages = 0
  /\ PlayFilled = 0 /\ PlayHwTotal = 0 /\ PlayLastHw = 0
  /\ PlayRing = [p \in 0..(PlayPages - 1) |-> Silence]
  /\ pc = "idle" /\ put = 0
  /\ Lpib = 0 /\ HwTotal = 0 /\ seen = 0 /\ heard = 0 /\ late = FALSE /\ missed = FALSE

InputDone == FramesDone >= song.frames \/ ReadFailed

FillSlot == PlayFilled % PlayPages

------------------------------------------------------------------------------
(* The codec. *)

(* One page is played; the register shows the end of the ring for a while, *)
(* or goes back to 0 at once.                                              *)
PlayPage ==
  /\ Started /\ Lpib < PlayPages /\ HwTotal < MaxHw
  /\ Lpib' \in IF Lpib = PlayPages - 1 THEN {0, PlayPages} ELSE {Lpib + 1}
  /\ HwTotal' = HwTotal + 1
  /\ late' = (late \/ (HwTotal >= PlayFilled /\ ~InputDone))
  /\ missed' = (missed \/ HwTotal + 1 - seen >= PlayPages)
  /\ heard' = IF HwTotal < PlayFilled /\ PlayRing[Lpib] \notin {Silence, Garbled}
                THEN heard + PlayRing[Lpib].count ELSE heard
  /\ UNCHANGED <<player, PlayFilled, position, PlayRing, pc, put>>

Wraps ==
  /\ Started /\ Lpib = PlayPages
  /\ Lpib' = 0
  /\ UNCHANGED <<player, PlayFilled, position, PlayRing, pc, put, HwTotal, heard, late, missed>>

Codec == PlayPage \/ Wraps

------------------------------------------------------------------------------
(* The stream of hda.c. *)

(* Mutant: the end of the ring counts as its first page. *)
HwPageWraps == IF Lpib >= PlayPages THEN 1 ELSE Lpib

HwPage == IF Lpib >= PlayPages THEN PlayPages - 1 ELSE Lpib

UpdatePlayPosition ==
  IF Started
    THEN /\ PlayHwTotal' = PlayHwTotal + ((HwPage + PlayPages - PlayLastHw) % PlayPages)
         /\ PlayLastHw' = HwPage
         /\ seen' = IF Lpib = PlayPages THEN HwTotal - 1 ELSE HwTotal
    ELSE UNCHANGED position

(* Mutant: one page more than the ring has. *)
PageFreeOneMore(played) == PlayFilled <= played + PlayPages

(* HdaStreamNextPage has a page to give. *)
PageFree(played) == PlayFilled < played + PlayPages

(* HdaStreamOpen, when it succeeds: zeroed pages, a stopped stream. *)
HdaStreamOpen ==
  /\ PlayRing' = [p \in 0..(PlayPages - 1) |-> Silence]
  /\ PlayFilled' = 0 /\ PlayHwTotal' = 0 /\ PlayLastHw' = 0 /\ seen' = 0
  /\ Lpib' = 0 /\ HwTotal' = 0 /\ heard' = 0 /\ late' = FALSE /\ missed' = FALSE

(* The codec starts at the first page; its position register has settled.  *)
HdaStreamStart ==
  /\ Started' = TRUE
  /\ PlayHwTotal' = 0 /\ PlayLastHw' = 0 /\ seen' = 0

------------------------------------------------------------------------------
(* The player. *)

(* HdaStreamClose resets the stream. *)
PlayerStop == Active' = FALSE /\ Started' = FALSE /\ Lpib' = 0

(* A file that cannot be resolved, parsed or given a stream. *)
StartFails ==
  /\ pc = "idle"
  /\ PlayerStop /\ Finished' = FALSE
  /\ UNCHANGED <<ReadFailed, song, FramesDone, DataPages, PlayFilled, position, PlayRing,
                 pc, put, HwTotal, heard, late, missed>>

PlayerStart(s) ==
  /\ pc = "idle"
  /\ HdaStreamOpen
  /\ song' = s /\ FramesDone' = 0 /\ DataPages' = 0
  /\ Active' = TRUE /\ Started' = FALSE /\ Finished' = FALSE /\ ReadFailed' = FALSE
  /\ pc' = "fill"
  /\ UNCHANGED put

UserStops ==
  /\ pc = "idle" /\ Active
  /\ PlayerStop
  /\ UNCHANGED <<Finished, ReadFailed, song, FramesDone, DataPages, PlayFilled, position,
                 PlayRing, pc, put, HwTotal, heard, late, missed>>

PlayerTakeFinished ==
  /\ pc = "idle" /\ Finished
  /\ Finished' = FALSE
  /\ UNCHANGED <<Active, Started, ReadFailed, song, FramesDone, DataPages, PlayFilled,
                 position, PlayRing, pc, put, codec>>

(* The seconds on the screen read the position as well. *)
PlayerElapsedSeconds ==
  /\ pc = "idle" /\ Active
  /\ UpdatePlayPosition
  /\ UNCHANGED <<player, PlayFilled, PlayRing, pc, put, codec>>

PollCall ==
  /\ pc = "idle" /\ Active
  /\ pc' = "fill"
  /\ UNCHANGED <<player, PlayFilled, position, PlayRing, put, codec>>

(* The loop of PlayerPoll: test and HdaStreamNextPage. *)
NextPage ==
  /\ pc = "fill"
  /\ IF InputDone THEN pc' = "tail" /\ UNCHANGED position
     ELSE /\ UpdatePlayPosition
          /\ pc' = IF PageFree(PlayHwTotal') THEN "read" ELSE "tail"
  /\ UNCHANGED <<player, PlayFilled, PlayRing, put, codec>>

(* FsRead: some of the frames wanted, or none. *)
Read ==
  /\ pc = "read"
  /\ LET left == song.frames - FramesDone
         want == IF left > PageFrames THEN PageFrames ELSE left
     IN  \/ \E got \in 1..want :
              /\ put' = got /\ pc' = "write"
              /\ PlayRing' = [PlayRing EXCEPT ![FillSlot] = Garbled]
              /\ UNCHANGED ReadFailed
         \/ ReadFailed' = TRUE /\ pc' = "tail" /\ UNCHANGED <<put, PlayRing>>
  /\ UNCHANGED <<Active, Started, Finished, song, FramesDone, DataPages, PlayFilled, position, codec>>

(* The page is converted, the rest of it zeroed, and committed. *)
Commit ==
  /\ pc = "write"
  /\ PlayRing' = [PlayRing EXCEPT ![FillSlot] = [id |-> song.id, first |-> FramesDone, count |-> put]]
  /\ PlayFilled' = PlayFilled + 1
  /\ FramesDone' = FramesDone + put /\ DataPages' = DataPages + 1
  /\ IF ~Started /\ PlayFilled' >= StartFill THEN HdaStreamStart ELSE UNCHANGED <<Started, position>>
  /\ pc' = "fill"
  /\ UNCHANGED <<Active, Finished, ReadFailed, song, put, codec>>

(* After the loop: a short file starts late, an empty one is over. *)
StartShort ==
  /\ pc = "tail" /\ ~Started /\ DataPages > 0 /\ InputDone
  /\ HdaStreamStart
  /\ UNCHANGED <<Active, Finished, ReadFailed, song, FramesDone, DataPages, PlayFilled,
                 PlayRing, pc, put, codec>>

(* Mutant: a file that could not be read is never over. *)
PollEndKeepsEmpty ==
  /\ pc = "tail" /\ ~(~Started /\ DataPages > 0 /\ InputDone)
  /\ LET empty == FALSE
         over == Started /\ InputDone /\ PlayHwTotal' >= DataPages
     IN  /\ IF Started /\ InputDone THEN UpdatePlayPosition ELSE UNCHANGED position
         /\ IF empty \/ over THEN PlayerStop /\ Finished' = TRUE
            ELSE UNCHANGED <<Active, Started, Finished, Lpib>>
  /\ pc' = "idle"
  /\ UNCHANGED <<ReadFailed, song, FramesDone, DataPages, PlayFilled, PlayRing, put,
                 HwTotal, heard, late, missed>>

PollEnd ==
  /\ pc = "tail" /\ ~(~Started /\ DataPages > 0 /\ InputDone)
  /\ LET empty == DataPages = 0 /\ InputDone
         over == Started /\ InputDone /\ PlayHwTotal' >= DataPages
     IN  /\ IF Started /\ InputDone THEN UpdatePlayPosition ELSE UNCHANGED position
         /\ IF empty \/ over THEN PlayerStop /\ Finished' = TRUE
            ELSE UNCHANGED <<Active, Started, Finished, Lpib>>
  /\ pc' = "idle"
  /\ UNCHANGED <<ReadFailed, song, FramesDone, DataPages, PlayFilled, PlayRing, put,
                 HwTotal, heard, late, missed>>

PlayerPoll == PollCall \/ NextPage \/ Read \/ Commit \/ StartShort \/ PollEnd

User == StartFails \/ (\E s \in Songs : PlayerStart(s)) \/ UserStops

Next == Codec \/ PlayerPoll \/ User \/ PlayerTakeFinished \/ PlayerElapsedSeconds

Spec == Init /\ [][Next]_vars

(* The screen loops call PlayerPoll again and again, and the codec plays.  *)
FairSpec == Spec /\ WF_vars(PlayerPoll) /\ WF_vars(Codec)

------------------------------------------------------------------------------

TypeOK ==
  /\ Active \in BOOLEAN /\ Started \in BOOLEAN /\ Finished \in BOOLEAN /\ ReadFailed \in BOOLEAN
  /\ song \in Songs /\ FramesDone \in 0..song.frames /\ DataPages \in Nat
  /\ PlayFilled \in Nat /\ PlayHwTotal \in Nat /\ PlayLastHw \in 0..(PlayPages - 1)
  /\ PlayRing \in [0..(PlayPages - 1) -> Written \cup {Silence, Garbled}]
  /\ pc \in {"idle", "fill", "read", "write", "tail"} /\ put \in 0..PageFrames
  /\ Lpib \in 0..PlayPages /\ HwTotal \in 0..MaxHw /\ seen \in 0..MaxHw
  /\ heard \in Nat /\ late \in BOOLEAN /\ missed \in BOOLEAN
  /\ Started => Active

(* The pages the driver counts are those the codec has played when it      *)
(* looked, as long as it has always looked before the ring went round      *)
(* (hda.c, UpdatePlayPosition: a difference modulo the ring).              *)
PositionExact == Started /\ ~missed => PlayHwTotal = seen

(* However seldom it looks, it never counts a page that was not played.    *)
NeverAhead == Started => PlayHwTotal <= HwTotal

(* A page is written while the codec is in it only when the codec has      *)
(* played all there was, however seldom the position is read.              *)
NotWhilePlaying ==
  pc = "write" /\ Started /\ HwTotal < PlayFilled => Lpib # FillSlot

(* What the driver believes of the ring is so.                             *)
StateSound == TypeOK /\ PositionExact /\ NeverAhead /\ NotWhilePlaying

(* What is heard is the file, frame after frame, until the player falls    *)
(* behind: no page is skipped, repeated, torn or of an earlier song.       *)
HeardInOrder ==
  [][HwTotal' = HwTotal + 1 /\ HwTotal < PlayFilled /\ ~late =>
       /\ PlayRing[Lpib] \notin {Silence, Garbled}
       /\ PlayRing[Lpib].id = song.id /\ PlayRing[Lpib].first = heard]_vars

(* The player reports a song finished (and the explorer goes on to the     *)
(* next one) only after every page was played.                             *)
FinishedIsPlayed ==
  [][~Finished /\ Finished' => InputDone /\ HwTotal >= DataPages
       /\ (~late => heard = FramesDone)]_vars

(* A song ends by itself, whatever cannot be read: unless the user starts  *)
(* songs for ever, or the driver has missed a round of the ring.           *)
PlaybackEnds == (Active ~> (~Active \/ missed)) \/ []<><<User>>_vars
==============================================================================
