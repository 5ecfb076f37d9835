------------------------------- MODULE MCAudio -------------------------------
(***************************************************************************)
(* From the block device to the loudspeaker: reads of a block device, the  *)
(* walk over a WAV file, and the player with its stream.  Each of the      *)
(* models takes what the others return as it likes, so no two share state, *)
(* and a behaviour is one of one part: `part` says which.                  *)
(***************************************************************************)
EXTENDS BlockRead

CONSTANTS
  MCParts,                                             (* the parts to look at *)
  Modulus, FileSizes, ChunkSizes, Formats, MaxChunks,  (* those of Wav         *)
  PlayPages, StartFill, PageFrames, Songs, MaxHw, Silence, Garbled,
                                                       (* those of Audio       *)
  long, short                                          (* two songs            *)

(* A legacy disk of unknown size, and drives with sectors of 512, 1024 and *)
(* 2048 bytes and one or two sectors to a transfer.                        *)
MCRegistered ==
  {[ratio |-> 1, sectors |-> 0, max |-> 2], [ratio |-> 1, sectors |-> 7, max |-> 3],
   [ratio |-> 2, sectors |-> 5, max |-> 1], [ratio |-> 4, sectors |-> 3, max |-> 2],
   [ratio |-> 8, sectors |-> 2, max |-> 1]}

MCLbas == 0..8
MCCounts == 0..7

(* Formats that are played, the last with a sub format of its own, and one *)
(* whose frames have no bytes.                                             *)
Format(tag, sub, channels, bits, align) ==
  [tag |-> tag, sub |-> sub, channels |-> channels, bits |-> bits, align |-> align]

MCFormats ==
  {Format("pcm", "none", 1, 8, 1), Format("pcm", "none", 2, 16, 4),
   Format("extensible", "pcm", 1, 24, 3), Format("pcm", "none", 0, 8, 0)}

(* One song goes round the ring, the other is shorter than what starts the *)
(* stream.  A page may get one frame only, and MaxHw lets all be played.   *)
MCSongs == {[id |-> long, frames |-> 9], [id |-> short, frames |-> 1]}

VARIABLES
  part,
  \* Wav
  FileSize, Pos, HaveFmt, Info, Status, bodies, headers,
  \* Audio
  Active, Started, Finished, ReadFailed, song, FramesDone, DataPages,
  PlayFilled, PlayHwTotal, PlayLastHw, PlayRing, playerPc, put,
  Lpib, HwTotal, seen, heard, late, missed

W == INSTANCE Wav
A == INSTANCE Audio WITH pc <- playerPc

ASSUME WalkConstants == W!WavConstants
ASSUME PlayerConstants == A!AudioConstants

wav == <<FileSize, Pos, HaveFmt, Info, Status, bodies, headers>>
player == <<Active, Started, Finished, ReadFailed, song, FramesDone, DataPages, PlayFilled,
            PlayHwTotal, PlayLastHw, PlayRing, playerPc, put, Lpib, HwTotal, seen, heard, late, missed>>
all == <<part, vars, wav, player>>

(* One state of each for the other parts.                                  *)
AudioInit ==
  /\ part \in MCParts /\ Init /\ W!Init /\ A!Init
  /\ part # "read" => D = CHOOSE some \in Registered : TRUE
  /\ part # "wav" => FileSize = CHOOSE some \in FileSizes : TRUE
  /\ part # "player" => song = CHOOSE some \in Songs : TRUE

ReadOnly == part = "read" /\ UNCHANGED <<part, wav, player>>
WavOnly == part = "wav" /\ UNCHANGED <<part, vars, player>>
PlayerOnly == part = "player" /\ UNCHANGED <<part, vars, wav>>

(* WavParse returns.                                                       *)
WavEnded == part = "wav" /\ Status \notin {"head", "walk"} /\ UNCHANGED all

AudioNext ==
  \/ ReadOnly /\ Next
  \/ WavOnly /\ W!Next
  \/ PlayerOnly /\ A!Next
  \/ WavEnded

(* Each part with its own fairness (see the modules).                      *)
AudioSpec ==
  /\ AudioInit /\ [][AudioNext]_all
  /\ WF_all(ReadOnly /\ (ReadDirect \/ ReadBounce))
  /\ WF_all(PlayerOnly /\ A!PlayerPoll) /\ WF_all(PlayerOnly /\ A!Codec)

------------------------------------------------------------------------------
(* The variables keep their types, and what the player's driver believes   *)
(* of the ring of pages is so (see Audio).                                 *)
StateSound ==
  /\ part = "read" => TypeOK
  /\ part = "wav" => W!TypeOK
  /\ part = "player" => A!StateSound

(* The data of a WAV file lies in the file, in whole frames, and no header *)
(* is read out of another chunk (see Wav).                                 *)
DataInFile == part = "wav" => W!DataInFile /\ W!HeadersAreHeaders

(* What is heard is the song, frame after frame, and a song that is        *)
(* reported as finished was played (see Audio).                            *)
PlayedRight == A!HeardInOrder /\ A!FinishedIsPlayed

(* A read of a device and a song come to their ends (see BlockRead and     *)
(* Audio).                                                                 *)
CallsReturn == ReadEnds /\ A!PlaybackEnds
==============================================================================
