--------------------------------- MODULE Wav ---------------------------------
(***************************************************************************)
(* The walk over the chunks of a WAV file (kernel/wav.c, WavParse), one    *)
(* action per turn of its loop.  Positions and sizes are 32 bits wide and  *)
(* wrap at Modulus, as they do in the code.  The position only grows, so   *)
(* no chunk header is read twice, and what a read finds is chosen when it  *)
(* is read: any file is some sequence of choices.                          *)
(***************************************************************************)
EXTENDS Integers, FiniteSets

CONSTANTS
  Modulus,       (* 2^32                                                    *)
  FileSizes,     (* the sizes of the files                                  *)
  ChunkSizes,    (* the sizes a chunk's header may give                     *)
  Formats,       (* what a "fmt " chunk may say                             *)
  MaxChunks      (* bound: headers read                                     *)

WavConstants ==
  /\ Modulus \in Nat /\ Modulus > 64
  /\ FileSizes \subseteq 0..(Modulus - 1)
  /\ ChunkSizes \subseteq 0..(Modulus - 1)
  /\ \A f \in Formats : f.channels \in Nat /\ f.bits \in Nat /\ f.align \in Nat
  /\ MaxChunks \in Nat

(* sizeof(Head), sizeof(Chunk), sizeof(Fmt), and the bytes of Fmt that a   *)
(* plain and an extended format need                                       *)
HEAD == 12
CHUNK == 8
FMT == 40
PLAIN == 16
EXTENDED == 26

VARIABLES
  FileSize,
  Pos,
  HaveFmt,
  Info,          (* Channels, BitsPerSample, BlockAlign, DataOffset, DataBytes *)
  Status,        (* "head" and "walk" while it runs, then what it returns   *)
  bodies,        (* the chunks passed: where their bodies lie               *)
  headers        (* where headers were read                                 *)

vars == <<FileSize, Pos, HaveFmt, Info, Status, bodies, headers>>

Wrapped(n) == n % Modulus

LeastOf(a, b) == IF a < b THEN a ELSE b

(* FsRead delivers all n bytes only where the file has them; a disk error  *)
(* may still cut it short.                                                 *)
Reads(at, n) == at + n <= FileSize

(* The fmt chunk is one the player can decode.                             *)
Accepted(f, want) ==
  /\ f.tag = "pcm" \/ (f.tag = "extensible" /\ want >= EXTENDED /\ f.sub = "pcm")
  /\ f.channels \in 1..8
  /\ f.bits \in {8, 16, 24, 32}
  /\ f.align = f.channels * (f.bits \div 8)

Init ==
  /\ FileSize \in FileSizes
  /\ Pos = HEAD
  /\ HaveFmt = FALSE
  /\ Info = [Channels |-> 0, BitsPerSample |-> 0, BlockAlign |-> 0, DataOffset |-> 0, DataBytes |-> 0]
  /\ Status = "head"
  /\ bodies = {}
  /\ headers = {}

(* Any read may fail, and a file may be no WAV file.                       *)
ReadHead ==
  /\ Status = "head"
  /\ \/ Status' = "notwav"
     \/ Reads(0, HEAD) /\ Status' = "walk"
  /\ UNCHANGED <<FileSize, Pos, HaveFmt, Info, bodies, headers>>

(* while (Pos + 8 <= FileSize), in the width of Pos                        *)
MoreChunks == Status = "walk" /\ Wrapped(Pos + CHUNK) <= FileSize

Body == Wrapped(Pos + CHUNK)

(* What the walk returns when it ends without data.                        *)
WithoutData(have) == IF have THEN "nodata" ELSE "format"

(* To the next header, or out of the loop when its position wrapped.       *)
Forward(size, have) ==
  LET next == Wrapped(Body + size + (size % 2))
  IN  /\ bodies' = bodies \cup {[from |-> Body, to |-> Body + size, size |-> size]}
      /\ IF next <= Pos
           THEN Status' = WithoutData(have) /\ UNCHANGED Pos
           ELSE Pos' = next /\ UNCHANGED Status

ReadFails ==
  /\ MoreChunks
  /\ Status' = "read"
  /\ UNCHANGED <<FileSize, Pos, HaveFmt, Info, bodies, headers>>

(* The header of a chunk was read.                                         *)
ReadsHeader ==
  /\ MoreChunks
  /\ Reads(Pos, CHUNK)
  /\ Cardinality(headers) < MaxChunks
  /\ headers' = headers \cup {Pos}
  /\ UNCHANGED FileSize

FmtChunk ==
  /\ ReadsHeader
  /\ \E size \in ChunkSizes, f \in Formats :
       LET want == LeastOf(size, FMT)
       IN  \/ /\ want >= PLAIN /\ Reads(Body, want) /\ Accepted(f, want)
              /\ HaveFmt' = TRUE
              /\ Info' = [Info EXCEPT !.Channels = f.channels, !.BitsPerSample = f.bits,
                                      !.BlockAlign = f.align]
              /\ Forward(size, TRUE)
           \/ /\ Status' = "format"     \* refused, or the read fails
              /\ UNCHANGED <<Pos, HaveFmt, Info, bodies>>

(* Mutant of WholeFrames: what the header says is believed.                *)
ClaimedFrames(size, avail) == size - (size % Info.BlockAlign)

(* The bytes of data in the file, in whole frames.                         *)
WholeFrames(size, avail) ==
  LET there == LeastOf(size, avail)
  IN  there - (there % Info.BlockAlign)

DataChunk ==
  /\ ReadsHeader
  /\ \E size \in ChunkSizes :
       LET bytes == WholeFrames(size, Wrapped(FileSize - Body + Modulus))
       IN  \/ ~HaveFmt /\ Status' = "format" /\ UNCHANGED Info
           \/ HaveFmt /\ bytes = 0 /\ Status' = "nodata" /\ UNCHANGED Info
           \/ /\ HaveFmt /\ bytes > 0
              /\ Info' = [Info EXCEPT !.DataOffset = Body, !.DataBytes = bytes]
              /\ Status' = "ok"
  /\ UNCHANGED <<Pos, HaveFmt, bodies>>

OtherChunk ==
  /\ ReadsHeader
  /\ \E size \in ChunkSizes : Forward(size, HaveFmt)
  /\ UNCHANGED <<HaveFmt, Info>>

NoMoreChunks ==
  /\ Status = "walk" /\ ~MoreChunks
  /\ Status' = WithoutData(HaveFmt)
  /\ UNCHANGED <<FileSize, Pos, HaveFmt, Info, bodies, headers>>

Next == ReadHead \/ ReadFails \/ FmtChunk \/ DataChunk \/ OtherChunk \/ NoMoreChunks

Spec == Init /\ [][Next]_vars

------------------------------------------------------------------------------
TypeOK ==
  /\ FileSize \in FileSizes
  /\ Pos \in 0..(Modulus - 1)
  /\ HaveFmt \in BOOLEAN
  /\ Info \in [{"Channels", "BitsPerSample", "BlockAlign", "DataOffset", "DataBytes"} -> Nat]
  /\ Status \in {"head", "walk", "ok", "notwav", "read", "format", "nodata"}
  /\ headers \subseteq 0..(Modulus - 1)

(* What WavParse hands the player lies in the file, in whole frames of at  *)
(* least a byte, and there is at least one: the player neither divides by  *)
(* zero nor reads past the end, whatever the headers claim.                *)
DataInFile ==
  Status = "ok" =>
    /\ Info.BlockAlign > 0 /\ Info.BlockAlign = Info.Channels * (Info.BitsPerSample \div 8)
    /\ Info.DataBytes > 0 /\ Info.DataBytes % Info.BlockAlign = 0
    /\ Info.DataOffset + Info.DataBytes <= FileSize

(* No header is read out of the body of another chunk, though positions    *)
(* wrap, unless that chunk claims the last bytes 32 bits can count: seven  *)
(* such sizes wrap to a place just after the header.                       *)
HeadersAreHeaders ==
  \A b \in bodies : b.size < Modulus - CHUNK =>
    \A h \in headers : ~(b.from <= h /\ h < b.to)
==============================================================================
