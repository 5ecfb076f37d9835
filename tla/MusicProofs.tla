----------------------------- MODULE MusicProofs -----------------------------
(***************************************************************************)
(* Proofs about the way from the block device to the loudspeaker, for      *)
(* every device, every read, every file, every length of the ring and of   *)
(* its pages, and however the codec and the main loop take turns.          *)
(*                                                                         *)
(* MCAudio puts three models side by side that share no state.  Each has   *)
(* an inductive invariant of its own, and every behaviour of AudioSpec is  *)
(* one of each of the three specifications (EachIsItself), so that what    *)
(* holds of a part holds of the whole.                                     *)
(*                                                                         *)
(* Reads.  What is left of a read starts where what is done ends, and both *)
(* together are what was asked for; the arithmetic of sectors within       *)
(* sectors is in two lemmas, proved for each of the four sizes.            *)
(*                                                                         *)
(* The walk over a WAV file.  Headers were read before the position and    *)
(* bodies end before it, except those of a size that wraps.                *)
(*                                                                         *)
(* The player.  The codec's place in the ring is its count modulo the      *)
(* ring, the driver's count is that of its last look, and the pages that   *)
(* were filled and not yet played hold consecutive frames of the song.     *)
(***************************************************************************)
EXTENDS MCAudio, TLAPS

------------------------------------------------------------------------------
(* Places on the ring. *)

LEMMA Remainder ==
  ASSUME NEW a \in Nat, NEW n \in Nat \ {0}
  PROVE  a % n \in 0..(n - 1)
OBVIOUS

LEMMA DivModSum ==
  ASSUME NEW a \in Int, NEW n \in Int, n > 0
  PROVE  a = n * (a \div n) + (a % n) /\ a \div n \in Int
BY Z3

LEMMA Unique ==
  ASSUME NEW n \in Nat \ {0}, NEW q \in Int, NEW r \in 0..(n - 1)
  PROVE  (n * q + r) % n = r
OBVIOUS

LEMMA Small ==
  ASSUME NEW n \in Nat \ {0}, NEW r \in 0..(n - 1)
  PROVE  r % n = r
OBVIOUS

(* A multiple of n and less than n away from it is the rest. *)
LEMMA RestIs ==
  ASSUME NEW a \in Int, NEW n \in Nat \ {0}, NEW q \in Int, NEW r \in 0..(n - 1), a = n * q + r
  PROVE  a % n = r
BY Unique

LEMMA Factor ==
  ASSUME NEW n \in Int, NEW p \in Int, NEW q \in Int
  PROVE  n * p - n * q = n * (p - q) /\ n * (p + 1) = n * p + n /\ n * (p - 1) = n * p - n
         /\ n * p \in Int /\ n * q \in Int /\ n * (p - q) \in Int
BY Z3

LEMMA AfterIs ==
  ASSUME NEW a \in Nat, NEW n \in Nat \ {0}
  PROVE  (a + 1) % n = IF (a % n) + 1 = n THEN 0 ELSE (a % n) + 1
<1> DEFINE q == a \div n
           r == a % n
<1>1. q \in Int /\ r \in 0..(n - 1) /\ a = n * q + r
  BY DivModSum, Remainder
<1> HIDE DEF q, r
<1>2. n * (q + 1) = n * q + n /\ n * q \in Int
  BY <1>1, Factor
<1>3. CASE r + 1 = n
  <2>1. a + 1 = n * (q + 1) + 0
    BY <1>1, <1>2, <1>3
  <2>2. (a + 1) % n = 0
    BY <1>1, <2>1, RestIs
  <2> QED BY <1>3, <2>2 DEF r
<1>4. CASE r + 1 # n
  <2>1. a + 1 = n * q + (r + 1) /\ r + 1 \in 0..(n - 1)
    BY <1>1, <1>2, <1>4
  <2>2. (a + 1) % n = r + 1
    BY <1>1, <2>1, RestIs
  <2> QED BY <1>4, <2>2 DEF r
<1> QED BY <1>1, <1>3, <1>4 DEF r

LEMMA BeforeIs ==
  ASSUME NEW a \in Nat \ {0}, NEW n \in Nat \ {0}, a % n = 0
  PROVE  (a - 1) % n = n - 1
<1>0. PICK b \in Nat : a = b + 1
  OBVIOUS
<1>1. (b + 1) % n = IF (b % n) + 1 = n THEN 0 ELSE (b % n) + 1
  BY AfterIs
<1>2. b % n \in 0..(n - 1) /\ a - 1 = b
  BY <1>0, Remainder
<1> QED BY <1>0, <1>1, <1>2

(* Places less than a ring apart are different. *)
LEMMA Apart ==
  ASSUME NEW n \in Nat \ {0}, NEW a \in Nat, NEW b \in Nat, a < b, b < a + n
  PROVE  a % n # b % n
<1> DEFINE p == a \div n
           q == b \div n
<1>1. p \in Int /\ q \in Int /\ a = n * p + (a % n) /\ b = n * q + (b % n)
  BY DivModSum
<1>2. a % n \in Int /\ b % n \in Int
  BY Remainder
<1> HIDE DEF p, q
<1> SUFFICES ASSUME a % n = b % n PROVE FALSE
  OBVIOUS
<1>3. n * (q - p) = b - a
  BY <1>1, <1>2, Factor
<1>4. \A d \in Int : n * d > 0 => n * d >= n
  BY Z3
<1>5. n * (q - p) > 0 => n * (q - p) >= n
  BY <1>1, <1>4
<1> QED BY <1>3, <1>5

(* The difference of two positions modulo the ring is that of the pages. *)
LEMMA Difference ==
  ASSUME NEW n \in Nat \ {0}, NEW a \in Nat, NEW b \in Nat, a <= b
  PROVE  ((b % n) + n - (a % n)) % n = (b - a) % n
<1> DEFINE p == (b - a) \div n
           q == a \div n
           t == b \div n
           r == (b - a) % n
           x == (b % n) + n - (a % n)
<1>1. /\ p \in Int /\ q \in Int /\ t \in Int /\ a = n * q + (a % n) /\ b = n * t + (b % n)
      /\ b - a = n * p + r
  BY DivModSum
<1>2. a % n \in 0..(n - 1) /\ b % n \in 0..(n - 1) /\ r \in 0..(n - 1)
  BY Remainder
<1> HIDE DEF p, q, t, r
<1>3. \A i, j, k \in Int : n * (((i + j) - k) + 1) = ((n * i + n * j) - n * k) + n
                           /\ n * i \in Int /\ n * j \in Int /\ n * k \in Int
  BY Z3
<1>4. x = n * (((p + q) - t) + 1) + r
  <2>1. n * (((p + q) - t) + 1) = ((n * p + n * q) - n * t) + n
        /\ n * p \in Int /\ n * q \in Int /\ n * t \in Int
    BY <1>1, <1>3
  <2> DEFINE pp == n * p
             qq == n * q
             tt == n * t
             ra == a % n
             rb == b % n
  <2>2. /\ a = qq + ra /\ b = tt + rb /\ b - a = pp + r
        /\ pp \in Int /\ qq \in Int /\ tt \in Int /\ ra \in Int /\ rb \in Int
    BY <1>1, <1>2, <2>1
  <2>3. x = (rb + n) - ra /\ n * (((p + q) - t) + 1) = ((pp + qq) - tt) + n
    BY <2>1
  <2> HIDE DEF pp, qq, tt, ra, rb, x
  <2> QED BY <1>2, <2>2, <2>3
<1>5. x \in Int /\ ((p + q) - t) + 1 \in Int
  BY <1>1, <1>2
<1> HIDE DEF x
<1>6. x % n = r
  BY <1>2, <1>4, <1>5, RestIs
<1> QED BY <1>6 DEF x, r

------------------------------------------------------------------------------
(* Reads of a block device.                                                *)

(* What a call has to do still, and has done. *)
LoopCorrect ==
  pc = "reading" =>
    /\ Count > 0 /\ Lba = asked.lba + Out /\ Count = asked.count - Out
    /\ D.sectors # 0 => Lba + Count <= D.sectors * D.ratio
    /\ \A j \in 0..(Out - 1) : Buffer[j] = asked.lba + j

ReadInv == TypeOK /\ LoopCorrect /\ ReadIsExact /\ NoOverrun /\ DriverLimits

------------------------------------------------------------------------------

(* Whole sectors: at least one, no more than are asked for or allowed, and *)
(* none beyond the end.                                                    *)
LEMMA WholeSectors ==
  ASSUME NEW r \in {1, 2, 4, 8}, NEW l \in Nat, NEW c \in Nat, NEW m \in Nat \ {0}, NEW s \in Nat,
         l % r = 0, c >= r
  PROVE  LET w == IF c \div r > m THEN m ELSE c \div r
         IN  /\ w \in Nat \ {0} /\ w <= m /\ w * r \in 1..c
             /\ l \div r \in Nat /\ (l \div r) * r = l
             /\ l + c <= s * r => l \div r + w <= s
<1>1. CASE r = 1 BY <1>1, SMT
<1>2. CASE r = 2 BY <1>2, SMT
<1>3. CASE r = 4 BY <1>3, SMT
<1>4. CASE r = 8 BY <1>4, SMT
<1> QED BY <1>1, <1>2, <1>3, <1>4

(* Part of a sector: at least one piece, which lies within the sector and  *)
(* within what is asked for.                                               *)
LEMMA PartSector ==
  ASSUME NEW r \in {1, 2, 4, 8}, NEW l \in Nat, NEW c \in Nat, NEW s \in Nat, c > 0
  PROVE  LET t == IF r - (l % r) > c THEN c ELSE r - (l % r)
         IN  /\ t \in 1..c
             /\ l \div r \in Nat /\ l % r \in Nat /\ (l \div r) * r + (l % r) = l
             /\ l + c <= s * r => l \div r + 1 <= s
<1>1. CASE r = 1 BY <1>1, SMT
<1>2. CASE r = 2 BY <1>2, SMT
<1>3. CASE r = 4 BY <1>3, SMT
<1>4. CASE r = 8 BY <1>4, SMT
<1> QED BY <1>1, <1>2, <1>3, <1>4

------------------------------------------------------------------------------

LEMMA ReadInvariant == Spec => []ReadInv
<1> USE BlockConstants
<1>1. Init => ReadInv
  <2> SUFFICES ASSUME Init PROVE ReadInv OBVIOUS
  <2>1. TypeOK BY DEF Init, TypeOK, Places
  <2>2. LoopCorrect BY DEF Init, LoopCorrect
  <2>3. ReadIsExact BY DEF Init, ReadIsExact
  <2>4. NoOverrun BY DEF Init, NoOverrun
  <2>5. DriverLimits
    <3>1. D.sectors \in Nat /\ D.max \in Nat \ {0} BY DEF Init
    <3> QED BY <3>1 DEF Init, DriverLimits
  <2> QED BY <2>1, <2>2, <2>3, <2>4, <2>5 DEF ReadInv
<1>2. ReadInv /\ [Next]_vars => ReadInv'
  <2> SUFFICES ASSUME ReadInv, [Next]_vars PROVE ReadInv' OBVIOUS
  <2>a. /\ D.ratio \in {1, 2, 4, 8} /\ D.sectors \in Nat /\ D.max \in Nat \ {0}
        /\ D \in Registered /\ Lba \in Nat /\ Count \in Nat /\ Out \in Nat
        /\ asked.lba \in Nat /\ asked.count \in Nat /\ asked.count <= BufferSize
        /\ Buffer \in [Places -> Nat \cup {NoData}]
    <3>1. TypeOK BY DEF ReadInv
    <3>2. D.ratio \in {1, 2, 4, 8} /\ D.sectors \in Nat /\ D.max \in Nat \ {0} BY <3>1 DEF TypeOK
    <3>3. asked.lba \in Lbas \cup {0} /\ asked.count \in Counts \cup {0} BY <3>1 DEF TypeOK
    <3>4. asked.lba \in Nat /\ asked.count \in Nat /\ asked.count <= BufferSize
      <4>0. (Lbas \cup {0}) \subseteq Nat BY SMT
      <4>1. asked.lba \in Nat BY <3>3, <4>0, Zenon
      <4>2. CASE asked.count \in Counts BY <4>1, <4>2
      <4>3. CASE asked.count = 0 BY <4>1, <4>3
      <4> QED BY <3>3, <4>2, <4>3
    <3> QED BY <3>1, <3>2, <3>4 DEF TypeOK
  <2>1. CASE BlockRemove
    BY <2>1 DEF BlockRemove, progress, ReadInv, TypeOK, LoopCorrect, ReadIsExact, NoOverrun, DriverLimits
  <2>2. ASSUME NEW lba \in Lbas, NEW count \in Counts, BlockReadFrom(lba, count) PROVE ReadInv'
    <3>1. TypeOK' BY <2>2 DEF BlockReadFrom, ReadInv, TypeOK, Places
    <3>2. LoopCorrect'
      <4> SUFFICES ASSUME pc' = "reading" PROVE LoopCorrect' BY DEF LoopCorrect
      <4>1. count # 0 /\ Within(lba, count) BY <2>2 DEF BlockReadFrom
      <4>2. lba \in Nat /\ count \in Nat OBVIOUS
      <4>3. D.sectors * D.ratio \in Nat BY <2>a
      <4>4. D.sectors # 0 => lba + count <= D.sectors * D.ratio BY <4>1, <4>2, <4>3 DEF Within
      <4>5. /\ Lba' = lba /\ Count' = count /\ Out' = 0 /\ D' = D
            /\ asked' = [lba |-> lba, count |-> count]
        BY <2>2 DEF BlockReadFrom
      <4> QED BY <4>1, <4>2, <4>4, <4>5 DEF LoopCorrect
    <3>3. ReadIsExact'
      <4> SUFFICES ASSUME pc' = "idle", ret' = "ok" PROVE ReadIsExact' BY DEF ReadIsExact
      <4>1. count = 0 BY <2>2 DEF BlockReadFrom
      <4>2. asked'.count = 0 BY <4>1, <2>2 DEF BlockReadFrom
      <4> QED BY <4>2 DEF ReadIsExact
    <3>4. NoOverrun' BY <2>2 DEF BlockReadFrom, NoOverrun
    <3>5. DriverLimits' BY <2>2 DEF BlockReadFrom, ReadInv, DriverLimits
    <3> QED BY <3>1, <3>2, <3>3, <3>4, <3>5 DEF ReadInv
  <2>3. ASSUME NEW done \in 1..Count, NEW src \in Nat, pc = "reading", Advance(done), D' = D, asked' = asked,
               src = Lba,
               Buffer' = [j \in Places |-> IF j >= Out /\ j < Out + done THEN src + (j - Out) ELSE Buffer[j]]
        PROVE  LoopCorrect' /\ ReadIsExact' /\ NoOverrun'
               /\ Lba' \in Nat /\ Count' \in Nat /\ Out' \in Nat /\ pc' \in {"idle", "reading"}
               /\ ret' \in {"ok", "offline", "beyond", "error"} /\ Buffer' \in [Places -> Nat \cup {NoData}]
    <3>1. /\ Count > 0 /\ Lba = asked.lba + Out /\ Count = asked.count - Out
          /\ D.sectors # 0 => Lba + Count <= D.sectors * D.ratio
          /\ \A j \in 0..(Out - 1) : Buffer[j] = asked.lba + j
      BY <2>3 DEF ReadInv, LoopCorrect
    <3>2. Lba' = Lba + done /\ Out' = Out + done /\ Count' = Count - done BY <2>3 DEF Advance
    <3>3. done \in Nat /\ Out + done <= asked.count /\ Count' = asked.count - Out' /\ Lba' = asked.lba + Out'
          /\ Lba' \in Nat /\ Count' \in Nat /\ Out' \in Nat
          BY <2>a, <3>1, <3>2
    <3>4. \A j \in 0..(Out' - 1) : Buffer'[j] = asked.lba + j
      <4> SUFFICES ASSUME NEW j \in 0..(Out' - 1) PROVE Buffer'[j] = asked.lba + j OBVIOUS
      <4>1. j \in Places BY <3>2, <3>3, <2>a DEF Places
      <4>2. CASE j < Out BY <4>1, <4>2, <3>1, <2>3, <2>a, <3>3
      <4>3. CASE j >= Out BY <4>1, <4>3, <3>1, <3>2, <2>3, <2>a, <3>3
      <4> QED BY <4>2, <4>3, <2>a, <3>3
    <3>5. LoopCorrect'
      <4> SUFFICES ASSUME pc' = "reading" PROVE LoopCorrect' BY DEF LoopCorrect
      <4>1. Count' # 0 BY <2>3 DEF Advance
      <4>2. Lba' + Count' = Lba + Count BY <3>2, <2>a, <3>3
      <4>3. Count' > 0 BY <4>1, <3>3
      <4>4. D'.sectors # 0 => Lba' + Count' <= D'.sectors * D'.ratio BY <4>2, <3>1, <2>3
      <4>5. Lba' = asked'.lba + Out' /\ Count' = asked'.count - Out' BY <3>3, <2>3
      <4>6. \A j \in 0..(Out' - 1) : Buffer'[j] = asked'.lba + j BY <3>4, <2>3
      <4> QED BY <4>3, <4>4, <4>5, <4>6 DEF LoopCorrect
    <3>6. ReadIsExact'
      <4> SUFFICES ASSUME pc' = "idle" PROVE ReadIsExact' BY DEF ReadIsExact
      <4>1. Count' = 0 BY <2>3 DEF Advance
      <4>2. Out' = asked.count BY <4>1, <3>3, <2>a
      <4> QED BY <4>2, <3>4, <2>3 DEF ReadIsExact
    <3>7. NoOverrun'
      <4> SUFFICES ASSUME NEW j \in Places, j >= asked.count PROVE Buffer'[j] = NoData
        BY <2>3 DEF NoOverrun
      <4>1. j \in Nat BY DEF Places
      <4>2. ~(j < Out + done) BY <4>1, <3>3, <2>a
      <4>3. Buffer[j] = NoData BY DEF ReadInv, NoOverrun
      <4> QED BY <4>2, <4>3, <2>3
    <3>8. Buffer' \in [Places -> Nat \cup {NoData}]
      <4> SUFFICES ASSUME NEW j \in Places
                   PROVE (IF j >= Out /\ j < Out + done THEN src + (j - Out) ELSE Buffer[j]) \in Nat \cup {NoData}
        BY <2>3
      <4>1. j \in Nat BY DEF Places
      <4>2. j >= Out => src + (j - Out) \in Nat BY <4>1, <2>3, <2>a
      <4> QED BY <4>2, <2>a
    <3>9. pc' \in {"idle", "reading"} /\ ret' \in {"ok", "offline", "beyond", "error"}
      BY <2>3 DEF Advance, ReadInv, TypeOK
    <3> QED BY <3>3, <3>5, <3>6, <3>7, <3>8, <3>9
  <2>4. CASE ReadDirect
    <3>1. Lba % D.ratio = 0 /\ Count >= D.ratio BY <2>4 DEF ReadDirect, Direct, Offset
    <3>2. /\ Whole \in Nat \ {0} /\ Whole <= D.max /\ Whole * D.ratio \in 1..Count
          /\ Native \in Nat /\ Native * D.ratio = Lba
          /\ Lba + Count <= D.sectors * D.ratio => Native + Whole <= D.sectors
      BY <3>1, <2>a, WholeSectors DEF Whole, Native
    <3>3. D.sectors # 0 => Native + Whole <= D.sectors BY <3>2, <2>4 DEF ReadDirect, ReadInv, LoopCorrect
    <3>4. DriverLimits' BY <3>2, <3>3, <2>4 DEF ReadDirect, DriverLimits
    <3>5. LoopCorrect' /\ ReadIsExact' /\ NoOverrun'
               /\ Lba' \in Nat /\ Count' \in Nat /\ Out' \in Nat /\ pc' \in {"idle", "reading"}
               /\ ret' \in {"ok", "offline", "beyond", "error"} /\ Buffer' \in [Places -> Nat \cup {NoData}]
      <4>1. /\ pc = "reading" /\ Advance(Whole * D.ratio) /\ D' = D /\ asked' = asked
            /\ Buffer' = [j \in Places |-> IF j >= Out /\ j < Out + Whole * D.ratio
                                          THEN Lba + (j - Out) ELSE Buffer[j]]
        BY <2>4, <3>2 DEF ReadDirect
      <4> HIDE DEF Whole
      <4> QED BY <4>1, <3>2, <2>a, <2>3
    <3>6. driver' \in [at : Nat, n : Nat] BY <3>2, <2>4 DEF ReadDirect
    <3>7. TypeOK' BY <3>5, <3>6, <2>4 DEF ReadDirect, ReadInv, TypeOK
    <3> QED BY <3>4, <3>5, <3>7 DEF ReadInv
  <2>5. CASE ReadBounce
    <3>1. Count > 0 BY <2>5 DEF ReadBounce, ReadInv, LoopCorrect
    <3>2. /\ Take \in 1..Count
          /\ Native \in Nat /\ Offset \in Nat /\ Native * D.ratio + Offset = Lba
          /\ Lba + Count <= D.sectors * D.ratio => Native + 1 <= D.sectors
      BY <3>1, <2>a, PartSector DEF Take, Native, Offset
    <3>3. D.sectors # 0 => Native + 1 <= D.sectors BY <3>2, <2>5 DEF ReadBounce, ReadInv, LoopCorrect
    <3>4. DriverLimits' BY <3>2, <3>3, <2>a, <2>5 DEF ReadBounce, DriverLimits
    <3>5. LoopCorrect' /\ ReadIsExact' /\ NoOverrun'
               /\ Lba' \in Nat /\ Count' \in Nat /\ Out' \in Nat /\ pc' \in {"idle", "reading"}
               /\ ret' \in {"ok", "offline", "beyond", "error"} /\ Buffer' \in [Places -> Nat \cup {NoData}]
      <4>1. /\ pc = "reading" /\ Advance(Take) /\ D' = D /\ asked' = asked
            /\ Buffer' = [j \in Places |-> IF j >= Out /\ j < Out + Take
                                          THEN Lba + (j - Out) ELSE Buffer[j]]
        BY <2>5, <3>2 DEF ReadBounce
      <4> QED BY <4>1, <3>2, <2>a, <2>3
    <3>6. driver' \in [at : Nat, n : Nat] BY <3>2, <2>5 DEF ReadBounce
    <3>7. Bounce' \in Nat BY <3>2, <2>5 DEF ReadBounce
    <3>8. TypeOK' BY <3>5, <3>6, <3>7, <2>5 DEF ReadBounce, ReadInv, TypeOK
    <3> QED BY <3>4, <3>5, <3>8 DEF ReadInv
  <2>6. CASE DriverFails
    <3>1. Count > 0 /\ (D.sectors # 0 => Lba + Count <= D.sectors * D.ratio)
      BY <2>6 DEF DriverFails, ReadInv, LoopCorrect
    <3>2. Direct => /\ Whole \in Nat /\ Whole <= D.max /\ Native \in Nat
                    /\ D.sectors # 0 => Native + Whole <= D.sectors
      BY <3>1, <2>a, WholeSectors DEF Direct, Offset, Whole, Native
    <3>3. Native \in Nat /\ (D.sectors # 0 => Native + 1 <= D.sectors)
      BY <3>1, <2>a, PartSector DEF Native
    <3>4. driver' \in [at : Nat, n : Nat] /\ DriverLimits'
      BY <3>2, <3>3, <2>a, <2>6 DEF DriverFails, DriverLimits
    <3>5. TypeOK' BY <3>4, <2>6 DEF DriverFails, progress, ReadInv, TypeOK
    <3>6. LoopCorrect' /\ ReadIsExact' /\ NoOverrun'
      BY <2>6 DEF DriverFails, progress, ReadInv, LoopCorrect, ReadIsExact, NoOverrun
    <3> QED BY <3>4, <3>5, <3>6 DEF ReadInv
  <2>7. CASE UNCHANGED vars
    BY <2>7 DEF vars, progress, ReadInv, TypeOK, LoopCorrect, ReadIsExact, NoOverrun, DriverLimits
  <2> QED BY <2>1, <2>2, <2>4, <2>5, <2>6, <2>7 DEF Next, ReadStep
<1> QED BY <1>1, <1>2, PTL DEF Spec


------------------------------------------------------------------------------
(* The walk over a WAV file: the headers read lie before the position, the *)
(* bodies passed behind it, and what is known of the format was accepted.  *)

FormatKnown ==
  HaveFmt =>
    /\ Info.BlockAlign > 0
    /\ Info.BlockAlign = Info.Channels * (Info.BitsPerSample \div 8)

DataFits ==
  Status = "ok" =>
    /\ HaveFmt
    /\ Info.DataBytes > 0 /\ Info.DataBytes % Info.BlockAlign = 0
    /\ Info.DataOffset + Info.DataBytes <= FileSize

HeadersBehind ==
  /\ headers \subseteq Nat
  /\ \A h \in headers : h <= Pos /\ (Status = "walk" => h < Pos)
  /\ Status = "head" => headers = {} /\ bodies = {}

(* A body that does not claim the last bytes 32 bits can count.            *)
BodiesBehind ==
  \A b \in bodies :
    /\ b.from \in Nat /\ b.to \in Nat /\ b.size \in Nat
    /\ b.size < Modulus - W!CHUNK =>
         /\ \A h \in headers : ~(b.from <= h /\ h < b.to)
         /\ Status = "walk" => b.to <= Pos

WalkInv == W!TypeOK /\ FormatKnown /\ DataFits /\ HeadersBehind /\ BodiesBehind

LEMMA WalkBounds ==
  /\ Modulus \in Nat /\ Modulus > 64 /\ W!HEAD = 12 /\ W!CHUNK = 8
  /\ FileSizes \subseteq 0..(Modulus - 1) /\ ChunkSizes \subseteq 0..(Modulus - 1)
  /\ \A f \in Formats : f.channels \in Nat /\ f.bits \in Nat /\ f.align \in Nat
BY WalkConstants DEF W!WavConstants, W!HEAD, W!CHUNK

(* What remains of fewer than two rounds.                                  *)
LEMMA OneRound ==
  ASSUME NEW n \in Nat \ {0}, NEW a \in Nat, a < 2 * n
  PROVE  a % n = IF a < n THEN a ELSE a - n
<1>1. CASE a < n
  BY <1>1, Small
<1>2. CASE a >= n
  <2>1. a - n \in 0..(n - 1) /\ n * 1 = n
    BY <1>2
  <2>2. a = n * 1 + (a - n)
    BY <1>2, <2>1
  <2> QED BY <1>2, <2>1, <2>2, RestIs
<1> QED BY <1>1, <1>2

(* Whole frames: no more bytes than there are.                             *)
LEMMA FramesFit ==
  ASSUME NEW a \in Nat, NEW n \in Nat \ {0}
  PROVE  a - (a % n) \in Nat /\ a - (a % n) <= a /\ (a - (a % n)) % n = 0
<1> DEFINE q == a \div n
           r == a % n
<1>1. a = n * q + r /\ q \in Int
  BY DivModSum
<1>2. r \in 0..(n - 1)
  BY Remainder
<1> HIDE DEF q, r
<1>3. n * q \in Int /\ a - r = n * q + 0 /\ r <= a
  <2>1. n * q \in Int
    BY <1>1, Z3
  <2>2. q >= 0
    BY <1>1, <1>2, Z3
  <2>3. n * q >= 0
    BY <2>2, <1>1, Z3
  <2> DEFINE m == n * q
  <2> HIDE DEF m
  <2>4. m \in Int /\ m >= 0 /\ a = m + r
    BY <1>1, <2>1, <2>3 DEF m
  <2>5. a - r = m + 0 /\ r <= a
    BY <1>2, <2>4
  <2> QED BY <2>1, <2>5 DEF m
<1>4. (a - r) % n = 0
  BY <1>1, <1>2, <1>3, RestIs
<1> QED BY <1>2, <1>3, <1>4 DEF r

LEMMA WalkStarts == ASSUME W!Init PROVE WalkInv
<1>1. W!TypeOK
  <2>1. Pos \in 0..(Modulus - 1) /\ headers \subseteq 0..(Modulus - 1)
    BY WalkBounds DEF W!Init
  <2>2. Info \in [{"Channels", "BitsPerSample", "BlockAlign", "DataOffset", "DataBytes"} -> Nat]
    BY DEF W!Init
  <2>3. FileSize \in FileSizes /\ HaveFmt \in BOOLEAN /\ Status = "head"
    BY DEF W!Init
  <2> QED BY <2>1, <2>2, <2>3 DEF W!TypeOK
<1>2. FormatKnown /\ DataFits /\ HeadersBehind /\ BodiesBehind
  BY DEF W!Init, FormatKnown, DataFits, HeadersBehind, BodiesBehind
<1> QED BY <1>1, <1>2 DEF WalkInv

(* Where the next header is read, and where the walk stands after a body.  *)
LEMMA HeaderRead ==
  ASSUME WalkInv, W!ReadsHeader
  PROVE  /\ Status = "walk" /\ FileSize' = FileSize /\ headers' = headers \cup {Pos}
         /\ Pos \in Nat /\ FileSize \in Nat /\ FileSize < Modulus
         /\ W!Body = Pos + 8 /\ Pos + 8 <= FileSize
<1>1. /\ Status = "walk" /\ FileSize' = FileSize /\ headers' = headers \cup {Pos}
      /\ Pos + W!CHUNK <= FileSize
  BY DEF W!ReadsHeader, W!MoreChunks, W!Reads
<1>2. Pos \in Nat /\ FileSize \in Nat /\ FileSize < Modulus
  BY WalkBounds DEF WalkInv, W!TypeOK
<1>3. Pos + 8 <= FileSize /\ Pos + 8 \in 0..(Modulus - 1)
  BY <1>1, <1>2, WalkBounds
<1>4. (Pos + 8) % Modulus = Pos + 8
  BY <1>3, WalkBounds, Small
<1> QED BY <1>1, <1>2, <1>3, <1>4, WalkBounds DEF W!Body, W!Wrapped

LEMMA GoingForward ==
  ASSUME WalkInv, W!ReadsHeader, NEW size \in ChunkSizes, NEW have \in BOOLEAN, W!Forward(size, have)
  PROVE  /\ Pos' \in 0..(Modulus - 1) /\ Pos' >= Pos
         /\ Status' \in {"walk", "nodata", "format"}
         /\ HeadersBehind' /\ BodiesBehind'
<1> DEFINE pad == size % 2
           next == W!Wrapped(W!Body + size + (size % 2))
           new == [from |-> W!Body, to |-> W!Body + size, size |-> size]
<1>0. /\ Status = "walk" /\ headers' = headers \cup {Pos} /\ Pos \in Nat /\ W!Body = Pos + 8
      /\ Pos + 8 < Modulus
  <2>1. /\ Pos + 8 <= FileSize /\ FileSize < Modulus /\ Pos \in Nat /\ FileSize \in Nat
    BY HeaderRead
  <2> QED BY <2>1, HeaderRead, WalkBounds
<1>1. size \in Nat /\ size < Modulus /\ pad \in {0, 1} /\ Modulus \in Nat \ {0} /\ W!CHUNK = 8
  BY WalkBounds
<1>2. /\ bodies' = bodies \cup {new}
      /\ IF next <= Pos THEN Status' \in {"nodata", "format"} /\ Pos' = Pos
                        ELSE Pos' = next /\ Status' = "walk"
  BY <1>0 DEF W!Forward, W!WithoutData
<1> DEFINE at == Pos + 8 + size + pad
<1>3. at \in Nat /\ next = at % Modulus
  BY <1>0, <1>1 DEF W!Wrapped
<1>4. next \in 0..(Modulus - 1)
  BY <1>1, <1>3, Remainder
<1>5. next > Pos /\ size < Modulus - 8 => next >= Pos + 8 + size
  <2> HIDE DEF pad
  <2>1. CASE at < 2 * Modulus
    <3>1. next = IF at < Modulus THEN at ELSE at - Modulus
      BY <1>1, <1>3, <2>1, OneRound
    <3>2. at < Modulus => at >= Pos + 8 + size
      BY <1>0, <1>1
    <3>3. at >= Modulus /\ size < Modulus - 8 => at - Modulus <= Pos
      BY <1>0, <1>1
    <3> HIDE DEF at, next
    <3> QED BY <1>0, <1>1, <1>3, <3>1, <3>2, <3>3
  <2>2. CASE ~(at < 2 * Modulus)
    BY <1>0, <1>1, <2>2
  <2> QED BY <2>1, <2>2
<1>6. Pos' \in 0..(Modulus - 1) /\ Pos' >= Pos /\ Status' \in {"walk", "nodata", "format"}
      /\ (Status' = "walk" => Pos' > Pos /\ Pos' = next)
  <2> HIDE DEF next
  <2>1. Pos \in 0..(Modulus - 1)
    BY <1>0, <1>1
  <2>2. CASE next <= Pos
    BY <1>0, <1>2, <2>1, <2>2
  <2>3. CASE ~(next <= Pos)
    <3>1. next > Pos /\ Pos' = next /\ Status' = "walk"
      BY <1>0, <1>2, <1>4, <2>3
    <3>2. next \in Nat /\ Pos \in Nat
      BY <1>0, <1>1, <1>4
    <3> QED BY <1>4, <3>1, <3>2
  <2> QED BY <2>2, <2>3
<1>7. HeadersBehind'
  <2>1. headers \subseteq Nat /\ \A h \in headers : h < Pos
    BY <1>0 DEF WalkInv, HeadersBehind
  <2>2. PICK p \in Nat : p = Pos'
    BY <1>6, WalkBounds
  <2>3. p >= Pos /\ (Status' = "walk" => p > Pos)
    BY <1>6, <2>2
  <2>4. \A h \in headers \cup {Pos} : h \in Nat /\ h <= p /\ (Status' = "walk" => h < p)
    BY <1>0, <2>1, <2>3
  <2> QED BY <1>0, <1>6, <2>2, <2>4 DEF HeadersBehind
<1>8. BodiesBehind'
  <2> HIDE DEF next
  <2>1. headers \subseteq Nat /\ \A h \in headers : h < Pos
    BY <1>0 DEF WalkInv, HeadersBehind
  <2>2. ASSUME NEW b \in bodies
        PROVE  /\ b.from \in Nat /\ b.to \in Nat /\ b.size \in Nat
               /\ b.size < Modulus - 8 =>
                    /\ \A h \in headers \cup {Pos} : ~(b.from <= h /\ h < b.to)
                    /\ Status' = "walk" => b.to <= Pos'
    <3>1. /\ b.from \in Nat /\ b.to \in Nat /\ b.size \in Nat
          /\ b.size < Modulus - 8 =>
               (\A h \in headers : ~(b.from <= h /\ h < b.to)) /\ b.to <= Pos
      BY <1>0, <1>1 DEF WalkInv, BodiesBehind
    <3>2. PICK p \in Nat : p = Pos'
      BY <1>6, WalkBounds
    <3>3. p >= Pos
      BY <1>6, <3>2
    <3> QED BY <1>0, <3>1, <3>2, <3>3
  <2>3. /\ new.from = Pos + 8 /\ new.to = Pos + 8 + size /\ new.size = size
    BY <1>0
  <2>4. \A h \in headers \cup {Pos} : ~(Pos + 8 <= h)
    BY <1>0, <2>1
  <2>5. size < Modulus - 8 /\ Status' = "walk" => Pos + 8 + size <= Pos'
    BY <1>0, <1>1, <1>4, <1>5, <1>6
  <2>6. ASSUME NEW b \in bodies'
        PROVE  /\ b.from \in Nat /\ b.to \in Nat /\ b.size \in Nat
               /\ b.size < Modulus - 8 =>
                    /\ \A h \in headers \cup {Pos} : ~(b.from <= h /\ h < b.to)
                    /\ Status' = "walk" => b.to <= Pos'
    <3>1. CASE b \in bodies
      BY <2>2, <3>1
    <3>2. CASE b = new
      BY <1>0, <1>1, <2>3, <2>4, <2>5, <3>2
    <3> HIDE DEF new
    <3> QED BY <1>2, <2>6, <3>1, <3>2
  <2> QED BY <1>0, <1>1, <2>6 DEF BodiesBehind
<1> QED BY <1>6, <1>7, <1>8

(* A header at which the walk ends.                                        *)
LEMMA EndingAt ==
  ASSUME WalkInv, W!ReadsHeader, Status' # "walk", Status' # "head", UNCHANGED <<Pos, bodies>>
  PROVE  HeadersBehind' /\ BodiesBehind'
<1>0. Status = "walk" /\ headers' = headers \cup {Pos} /\ Pos \in Nat
  BY HeaderRead
<1>1. headers \subseteq Nat /\ \A h \in headers : h < Pos
  BY <1>0 DEF WalkInv, HeadersBehind
<1>2. HeadersBehind'
  BY <1>0, <1>1 DEF HeadersBehind
<1>3. ASSUME NEW b \in bodies
      PROVE  /\ b.from \in Nat /\ b.to \in Nat /\ b.size \in Nat
             /\ b.size < Modulus - 8 => \A h \in headers \cup {Pos} : ~(b.from <= h /\ h < b.to)
  <2>1. /\ b.from \in Nat /\ b.to \in Nat /\ b.size \in Nat
        /\ b.size < Modulus - 8 =>
             (\A h \in headers : ~(b.from <= h /\ h < b.to)) /\ b.to <= Pos
    BY <1>0, WalkBounds DEF WalkInv, BodiesBehind
  <2> QED BY <1>0, <2>1
<1> QED BY <1>0, <1>2, <1>3, WalkBounds DEF BodiesBehind

(* Nothing is read, and the walk does not go on.                           *)
LEMMA EndingHere ==
  ASSUME WalkInv, Status' # "head", Status' = "walk" => Status = "head",
         Status' \in {"walk", "notwav", "read", "format", "nodata"},
         UNCHANGED <<FileSize, Pos, HaveFmt, Info, bodies, headers>>
  PROVE  WalkInv'
<1>1. W!TypeOK' /\ FormatKnown' /\ DataFits'
  BY DEF WalkInv, W!TypeOK, FormatKnown, DataFits
<1>2. HeadersBehind'
  BY DEF WalkInv, HeadersBehind
<1>3. BodiesBehind'
  <2>1. CASE Status' = "walk"
    <3>1. bodies' = {}
      BY <2>1 DEF WalkInv, HeadersBehind
    <3> QED BY <3>1 DEF BodiesBehind
  <2>2. CASE Status' # "walk"
    BY <2>2 DEF WalkInv, BodiesBehind
  <2> QED BY <2>1, <2>2
<1> QED BY <1>1, <1>2, <1>3 DEF WalkInv

LEMMA FmtKeeps == ASSUME WalkInv, W!FmtChunk PROVE WalkInv'
<1>0. W!ReadsHeader
  BY DEF W!FmtChunk
<1>1. /\ Status = "walk" /\ FileSize' = FileSize /\ headers' = headers \cup {Pos}
      /\ Pos \in Nat /\ Pos \in 0..(Modulus - 1)
  BY <1>0, HeaderRead DEF WalkInv, W!TypeOK
<1>2. headers' \subseteq 0..(Modulus - 1) /\ FileSize' \in FileSizes
  BY <1>1 DEF WalkInv, W!TypeOK
<1>3. CASE Status' = "format" /\ UNCHANGED <<Pos, HaveFmt, Info, bodies>>
  <2>1. W!TypeOK' /\ FormatKnown' /\ DataFits'
    BY <1>1, <1>2, <1>3 DEF WalkInv, W!TypeOK, FormatKnown, DataFits
  <2>2. HeadersBehind' /\ BodiesBehind'
    BY <1>0, <1>3, EndingAt
  <2> QED BY <2>1, <2>2 DEF WalkInv
<1>4. ASSUME NEW size \in ChunkSizes, NEW f \in Formats, NEW want, W!Accepted(f, want),
             HaveFmt' = TRUE, W!Forward(size, TRUE),
             Info' = [Info EXCEPT !.Channels = f.channels, !.BitsPerSample = f.bits,
                                  !.BlockAlign = f.align]
      PROVE  WalkInv'
  <2>1. /\ Pos' \in 0..(Modulus - 1) /\ Status' \in {"walk", "nodata", "format"}
        /\ HeadersBehind' /\ BodiesBehind'
    BY <1>0, <1>4, GoingForward
  <2>2. f.channels \in Nat /\ f.bits \in Nat /\ f.align \in Nat
    BY WalkBounds
  <2>3. Info \in [{"Channels", "BitsPerSample", "BlockAlign", "DataOffset", "DataBytes"} -> Nat]
    BY DEF WalkInv, W!TypeOK
  <2>4. /\ Info' \in [{"Channels", "BitsPerSample", "BlockAlign", "DataOffset", "DataBytes"} -> Nat]
        /\ Info'.Channels = f.channels /\ Info'.BitsPerSample = f.bits /\ Info'.BlockAlign = f.align
    BY <1>4, <2>2, <2>3
  <2>5. f.align > 0 /\ f.align = f.channels * (f.bits \div 8)
    <3>1. f.channels \in 1..8 /\ f.bits \in {8, 16, 24, 32} /\ f.align = f.channels * (f.bits \div 8)
      BY <1>4 DEF W!Accepted
    <3>2. f.bits \div 8 \in 1..4
      BY <3>1
    <3>3. ASSUME NEW c \in 1..8, NEW b \in 1..4 PROVE c * b > 0
      BY <3>3, Z3
    <3> QED BY <3>1, <3>2, <3>3
  <2>6. W!TypeOK'
    BY <1>1, <1>2, <1>4, <2>1, <2>4 DEF W!TypeOK
  <2>7. FormatKnown' /\ DataFits'
    BY <2>1, <2>4, <2>5 DEF FormatKnown, DataFits
  <2> QED BY <2>1, <2>6, <2>7 DEF WalkInv
<1> QED BY <1>3, <1>4 DEF W!FmtChunk

LEMMA DataKeeps == ASSUME WalkInv, W!DataChunk PROVE WalkInv'
<1>0. W!ReadsHeader /\ UNCHANGED <<Pos, HaveFmt, bodies>>
  BY DEF W!DataChunk
<1>1. /\ Status = "walk" /\ FileSize' = FileSize /\ headers' = headers \cup {Pos}
      /\ Pos \in 0..(Modulus - 1) /\ W!Body = Pos + 8 /\ Pos + 8 <= FileSize /\ FileSize < Modulus
      /\ Pos \in Nat /\ FileSize \in Nat
  BY <1>0, HeaderRead DEF WalkInv, W!TypeOK
<1>2. headers' \subseteq 0..(Modulus - 1) /\ FileSize' \in FileSizes
  BY <1>1 DEF WalkInv, W!TypeOK
<1>3. CASE Status' \in {"format", "nodata"} /\ UNCHANGED Info
  <2>1. W!TypeOK' /\ FormatKnown' /\ DataFits'
    BY <1>0, <1>1, <1>2, <1>3 DEF WalkInv, W!TypeOK, FormatKnown, DataFits
  <2>2. HeadersBehind' /\ BodiesBehind'
    BY <1>0, <1>3, EndingAt
  <2> QED BY <2>1, <2>2 DEF WalkInv
<1>4. ASSUME NEW size \in ChunkSizes, NEW bytes,
             bytes = W!WholeFrames(size, W!Wrapped(FileSize - W!Body + Modulus)),
             HaveFmt, bytes > 0,
             Info' = [Info EXCEPT !.DataOffset = W!Body, !.DataBytes = bytes], Status' = "ok"
      PROVE  WalkInv'
  <2>1. W!Wrapped(FileSize - W!Body + Modulus) = FileSize - (Pos + 8)
    <3>1. FileSize - (Pos + 8) \in 0..(Modulus - 1) /\ Modulus \in Nat \ {0} /\ Modulus * 1 = Modulus
      BY <1>1, WalkBounds
    <3>2. FileSize - (Pos + 8) + Modulus = Modulus * 1 + (FileSize - (Pos + 8))
      BY <1>1, <3>1
    <3>3. FileSize - (Pos + 8) + Modulus \in Int
      BY <1>1, <3>1
    <3>4. (FileSize - (Pos + 8) + Modulus) % Modulus = FileSize - (Pos + 8)
      BY <3>1, <3>2, <3>3, RestIs
    <3> QED BY <1>1, <3>4 DEF W!Wrapped
  <2>2. PICK there \in Nat : /\ there <= FileSize - (Pos + 8)
                             /\ bytes = there - (there % Info.BlockAlign)
    <3> DEFINE rest == FileSize - (Pos + 8)
    <3>1. size \in Nat /\ rest \in Nat
      BY <1>1, WalkBounds
    <3>2. W!LeastOf(size, rest) \in Nat /\ W!LeastOf(size, rest) <= rest
      BY <3>1 DEF W!LeastOf
    <3>3. bytes = W!LeastOf(size, rest) - (W!LeastOf(size, rest) % Info.BlockAlign)
      BY <1>4, <2>1 DEF W!WholeFrames
    <3> QED BY <3>2, <3>3
  <2>3. Info \in [{"Channels", "BitsPerSample", "BlockAlign", "DataOffset", "DataBytes"} -> Nat]
    BY DEF WalkInv, W!TypeOK
  <2>4. Info.BlockAlign \in Nat \ {0} /\ Info.BlockAlign = Info.Channels * (Info.BitsPerSample \div 8)
    BY <1>4, <2>3 DEF WalkInv, FormatKnown
  <2>5. bytes \in Nat /\ bytes <= there /\ bytes % Info.BlockAlign = 0
    BY <2>2, <2>4, FramesFit
  <2>6. /\ Info' \in [{"Channels", "BitsPerSample", "BlockAlign", "DataOffset", "DataBytes"} -> Nat]
        /\ Info'.Channels = Info.Channels /\ Info'.BitsPerSample = Info.BitsPerSample
        /\ Info'.BlockAlign = Info.BlockAlign /\ Info'.DataOffset = Pos + 8 /\ Info'.DataBytes = bytes
    <3>1. Pos + 8 \in Nat /\ W!Body = Pos + 8
      BY <1>1
    <3> QED BY <1>4, <2>3, <2>5, <3>1
  <2>7. Pos + 8 + bytes <= FileSize
    BY <1>1, <2>2, <2>5
  <2>8. W!TypeOK'
    BY <1>0, <1>1, <1>2, <1>4, <2>6 DEF WalkInv, W!TypeOK
  <2>9. FormatKnown'
    BY <2>4, <2>6 DEF FormatKnown
  <2>10. DataFits'
    BY <1>0, <1>1, <1>4, <2>5, <2>6, <2>7 DEF DataFits
  <2>11. HeadersBehind' /\ BodiesBehind'
    BY <1>0, <1>4, EndingAt
  <2> QED BY <2>8, <2>9, <2>10, <2>11 DEF WalkInv
<1> QED BY <1>3, <1>4 DEF W!DataChunk

LEMMA OtherKeeps == ASSUME WalkInv, W!OtherChunk PROVE WalkInv'
<1>0. W!ReadsHeader /\ UNCHANGED <<HaveFmt, Info>>
  BY DEF W!OtherChunk
<1>1. PICK size \in ChunkSizes : W!Forward(size, HaveFmt)
  BY DEF W!OtherChunk
<1>2. /\ Pos' \in 0..(Modulus - 1) /\ Status' \in {"walk", "nodata", "format"}
      /\ HeadersBehind' /\ BodiesBehind'
  BY <1>0, <1>1, GoingForward DEF WalkInv, W!TypeOK
<1>3. /\ FileSize' = FileSize /\ headers' = headers \cup {Pos} /\ Pos \in 0..(Modulus - 1)
  BY <1>0, HeaderRead DEF WalkInv, W!TypeOK
<1>4. W!TypeOK'
  BY <1>0, <1>2, <1>3 DEF WalkInv, W!TypeOK
<1>5. FormatKnown' /\ DataFits'
  BY <1>0, <1>2 DEF WalkInv, FormatKnown, DataFits
<1> QED BY <1>2, <1>4, <1>5 DEF WalkInv

LEMMA WalkKeeps == ASSUME WalkInv, [W!Next]_(W!vars) PROVE WalkInv'
<1>1. CASE W!ReadHead
  BY <1>1, EndingHere DEF W!ReadHead
<1>2. CASE W!ReadFails
  BY <1>2, EndingHere DEF W!ReadFails
<1>3. CASE W!NoMoreChunks
  BY <1>3, EndingHere DEF W!NoMoreChunks, W!WithoutData
<1>4. CASE UNCHANGED W!vars
  BY <1>4 DEF W!vars, WalkInv, W!TypeOK, FormatKnown, DataFits, HeadersBehind, BodiesBehind
<1> QED BY <1>1, <1>2, <1>3, <1>4, FmtKeeps, DataKeeps, OtherKeeps DEF W!Next

LEMMA WalkIsSound == ASSUME WalkInv PROVE W!TypeOK /\ W!DataInFile /\ W!HeadersAreHeaders
<1>1. W!DataInFile
  BY DEF WalkInv, FormatKnown, DataFits, W!DataInFile
<1>2. W!HeadersAreHeaders
  BY DEF WalkInv, BodiesBehind, W!HeadersAreHeaders
<1> QED BY <1>1, <1>2 DEF WalkInv

LEMMA WalkInvariant == W!Spec => []WalkInv
<1>1. W!Init => WalkInv
  BY WalkStarts
<1>2. WalkInv /\ [W!Next]_(W!vars) => WalkInv'
  BY WalkKeeps
<1> QED BY <1>1, <1>2, PTL DEF W!Spec

------------------------------------------------------------------------------
(* The player.                                                             *)

(* Where the player is, and what a stream that has not started is like.    *)
Control ==
  /\ A!TypeOK
  /\ DataPages = PlayFilled
  /\ playerPc # "idle" => Active
  /\ playerPc \in {"read", "write"} => ~A!InputDone
  /\ playerPc = "write" => put > 0 /\ FramesDone + put <= song.frames
  /\ Active /\ ~Started =>
       /\ HwTotal = 0 /\ Lpib = 0 /\ PlayHwTotal = 0 /\ PlayLastHw = 0 /\ seen = 0
       /\ heard = 0 /\ ~late /\ ~missed

(* The codec's place in the ring and the driver's count of its pages.      *)
Counted ==
  Started =>
    /\ HwTotal % PlayPages = IF Lpib = PlayPages THEN 0 ELSE Lpib
    /\ Lpib = PlayPages => seen < HwTotal
    /\ seen <= HwTotal /\ seen % PlayPages = PlayLastHw
    /\ PlayHwTotal <= seen
    /\ ~missed => PlayHwTotal = seen /\ HwTotal - seen < PlayPages

(* No page is filled that was not played.                                  *)
RoomLeft ==
  Active =>
    /\ PlayFilled <= HwTotal + PlayPages
    /\ playerPc \in {"read", "write"} => PlayFilled < HwTotal + PlayPages

(* The pages that were filled and not played hold frames of the song, each *)
(* those that follow the ones before.                                      *)
Page(j) == PlayRing[j % PlayPages]

Ahead == {j \in Nat : HwTotal <= j /\ j < PlayFilled}

PagesInOrder ==
  Active => \A j \in Ahead :
    /\ Page(j) \in A!Written /\ Page(j).id = song.id
    /\ Page(j).first + Page(j).count = IF j + 1 < PlayFilled THEN Page(j + 1).first ELSE FramesDone

(* What was heard are the frames before the page that is next.             *)
HeardSoFar ==
  Active /\ ~late =>
    /\ heard = IF HwTotal < PlayFilled THEN Page(HwTotal).first ELSE FramesDone
    /\ HwTotal > PlayFilled => A!InputDone

PlayerInv == Control /\ Counted /\ RoomLeft /\ PagesInOrder /\ HeardSoFar

LEMMA PlayerStarts ==
  ASSUME A!AudioConstants, A!Init
  PROVE  PlayerInv
<1>1. PlayPages \in Nat \ {0, 1} /\ MaxHw \in Nat /\ song.frames \in Nat
  BY DEF A!AudioConstants, A!Init
<1>2. 0 \in 0..(PlayPages - 1)
  BY <1>1
<1>3. PlayRing \in [0..(PlayPages - 1) -> A!Written \cup {Silence, Garbled}]
  BY DEF A!Init
<1>4. FramesDone \in 0..song.frames /\ put \in 0..PageFrames /\ Lpib \in 0..PlayPages
      /\ HwTotal \in 0..MaxHw /\ seen \in 0..MaxHw
  BY <1>1 DEF A!Init, A!AudioConstants
<1>5. A!TypeOK
  BY <1>2, <1>3, <1>4 DEF A!Init, A!TypeOK
<1>6. Control
  BY <1>5 DEF A!Init, Control
<1> QED BY <1>6 DEF A!Init, PlayerInv, Counted, RoomLeft, PagesInOrder, HeardSoFar

LEMMA PlayerFacts ==
  ASSUME A!AudioConstants, A!TypeOK
  PROVE  /\ PlayPages \in Nat \ {0} /\ PlayPages > 1 /\ StartFill \in Nat /\ PageFrames \in Nat /\ MaxHw \in Nat
         /\ song.frames \in Nat /\ FramesDone \in Nat
         /\ PlayFilled \in Nat /\ HwTotal \in Nat /\ seen \in Nat /\ PlayHwTotal \in Nat
         /\ Lpib \in 0..PlayPages /\ PlayLastHw \in 0..(PlayPages - 1) /\ put \in Nat /\ heard \in Nat
         /\ A!FillSlot \in 0..(PlayPages - 1) /\ A!HwPage \in 0..(PlayPages - 1)
<1>1. /\ PlayPages \in Nat \ {0} /\ PlayPages > 1 /\ StartFill \in Nat /\ PageFrames \in Nat /\ MaxHw \in Nat
      /\ song.frames \in Nat
  BY DEF A!AudioConstants, A!TypeOK
<1>2. /\ FramesDone \in Nat
      /\ PlayFilled \in Nat /\ HwTotal \in Nat /\ seen \in Nat /\ PlayHwTotal \in Nat
      /\ Lpib \in 0..PlayPages /\ PlayLastHw \in 0..(PlayPages - 1) /\ put \in Nat /\ heard \in Nat
  BY <1>1 DEF A!TypeOK
<1>3. A!FillSlot \in 0..(PlayPages - 1)
  BY <1>1, <1>2, Remainder DEF A!FillSlot
<1>4. A!HwPage \in 0..(PlayPages - 1)
  BY <1>1, <1>2 DEF A!HwPage
<1> QED BY <1>1, <1>2, <1>3, <1>4

(* The codec's place when the driver looks, as a count of pages.           *)
LEMMA Looked ==
  ASSUME A!AudioConstants, A!TypeOK, Counted, Started, A!UpdatePlayPosition
  PROVE  /\ PlayLastHw' = A!HwPage /\ PlayHwTotal' \in Nat
         /\ seen' \in Nat /\ seen' <= HwTotal /\ seen <= seen'
         /\ (Lpib = PlayPages => seen' < HwTotal)
         /\ HwTotal - seen' <= 1
         /\ seen' % PlayPages = A!HwPage
         /\ PlayHwTotal' <= seen'
         /\ ~missed => PlayHwTotal' = seen'
<1> USE PlayerFacts
<1>0. /\ PlayLastHw' = A!HwPage
      /\ PlayHwTotal' = PlayHwTotal + ((A!HwPage + PlayPages - PlayLastHw) % PlayPages)
      /\ seen' = IF Lpib = PlayPages THEN HwTotal - 1 ELSE HwTotal
  BY DEF A!UpdatePlayPosition
<1>1. /\ seen' \in Nat /\ seen' <= HwTotal /\ seen <= seen' /\ HwTotal - seen' <= 1
      /\ (Lpib = PlayPages => seen' < HwTotal)
  BY <1>0 DEF Counted
<1>2. seen' % PlayPages = A!HwPage
  <2>1. CASE Lpib = PlayPages
    <3>1. HwTotal \in Nat \ {0} /\ HwTotal % PlayPages = 0
      BY <2>1 DEF Counted
    <3>2. (HwTotal - 1) % PlayPages = PlayPages - 1
      BY <3>1, BeforeIs
    <3> QED BY <1>0, <2>1, <3>2 DEF A!HwPage
  <2>2. CASE Lpib # PlayPages
    BY <1>0, <2>2 DEF Counted, A!HwPage
  <2> QED BY <2>1, <2>2
<1>3. (A!HwPage + PlayPages - PlayLastHw) % PlayPages = (seen' - seen) % PlayPages
  <2>1. PlayLastHw = seen % PlayPages
    BY DEF Counted
  <2> QED BY <1>1, <1>2, <2>1, Difference
<1>4. seen' - seen \in Nat
  BY <1>1
<1>5. (seen' - seen) % PlayPages \in Nat /\ (seen' - seen) % PlayPages <= seen' - seen
  BY <1>4
<1>6. seen' - seen < PlayPages => (seen' - seen) % PlayPages = seen' - seen
  BY <1>4, Small
<1>7. PlayHwTotal <= seen /\ (~missed => PlayHwTotal = seen /\ HwTotal - seen < PlayPages)
  BY DEF Counted
<1>8. PlayHwTotal' \in Nat /\ PlayHwTotal' <= seen'
  BY <1>0, <1>1, <1>3, <1>5, <1>7
<1>9. ~missed => PlayHwTotal' = seen'
  BY <1>0, <1>1, <1>3, <1>6, <1>7
<1> QED BY <1>0, <1>1, <1>2, <1>8, <1>9

LEMMA LookKeeps ==
  ASSUME A!AudioConstants, Control, Counted, A!UpdatePlayPosition, UNCHANGED <<Started, Lpib, HwTotal, missed>>
  PROVE  /\ Counted'
         /\ PlayHwTotal' \in Nat /\ PlayLastHw' \in 0..(PlayPages - 1) /\ seen' \in 0..MaxHw
         /\ Started => PlayHwTotal' <= HwTotal
         /\ ~Started => UNCHANGED A!position
<1>1. A!TypeOK
  BY DEF Control
<1>2. CASE Started
  <2> USE <1>1, <1>2, Looked, PlayerFacts
  <2>1. seen' \in 0..MaxHw
    BY SMTT(80) DEF A!TypeOK
  <2>2. Counted'
    BY DEF Counted
  <2>3. PlayHwTotal' <= HwTotal
    OBVIOUS
  <2> QED BY <2>1, <2>2, <2>3
<1>3. CASE ~Started
  <2>1. UNCHANGED A!position
    BY <1>3 DEF A!UpdatePlayPosition
  <2> QED BY <1>1, <1>3, <2>1 DEF A!position, Counted, A!TypeOK
<1> QED BY <1>2, <1>3

(* Pages and sound are as they were where neither is touched.              *)
LEMMA PagesKept ==
  ASSUME PagesInOrder, HeardSoFar, Active' => Active, ReadFailed => ReadFailed',
         UNCHANGED <<PlayRing, PlayFilled, HwTotal, FramesDone, song, heard, late>>
  PROVE  PagesInOrder' /\ HeardSoFar'
<1>1. Ahead' = Ahead
  BY DEF Ahead
<1>2. A!InputDone => A!InputDone'
  BY DEF A!InputDone
<1>3. \A j : Page(j)' = PlayRing[j % PlayPages]
  BY DEF Page
<1>4. PagesInOrder'
  BY <1>1 DEF PagesInOrder, Page
<1>5. HeardSoFar'
  BY <1>2 DEF HeardSoFar, Page
<1> QED BY <1>4, <1>5

(* The stream is closed, or there is none.                                 *)
LEMMA PlayerStopped ==
  ASSUME A!AudioConstants, PlayerInv, A!PlayerStop, playerPc' = "idle", Finished' \in BOOLEAN,
         UNCHANGED <<ReadFailed, song, FramesDone, DataPages, PlayFilled, PlayRing, put,
                     HwTotal, heard, late, missed>>,
         PlayHwTotal' \in Nat, PlayLastHw' \in 0..(PlayPages - 1), seen' \in 0..MaxHw
  PROVE  PlayerInv'
<1>1. A!TypeOK /\ DataPages = PlayFilled
  BY DEF PlayerInv, Control
<1>2. Active' = FALSE /\ Started' = FALSE /\ Lpib' = 0 /\ Lpib' \in 0..PlayPages
  BY <1>1, PlayerFacts DEF A!PlayerStop
<1>3. A!TypeOK'
  BY <1>1, <1>2 DEF A!TypeOK
<1>4. Control'
  BY <1>1, <1>2, <1>3 DEF Control
<1> QED BY <1>2, <1>4 DEF PlayerInv, Counted, RoomLeft, PagesInOrder, HeardSoFar

LEMMA PlayPageKeeps == A!AudioConstants /\ PlayerInv /\ A!PlayPage => PlayerInv'
<1> SUFFICES ASSUME A!AudioConstants, PlayerInv, A!PlayPage PROVE PlayerInv'
  OBVIOUS
<1>1. /\ Started /\ Active /\ Lpib < PlayPages /\ HwTotal < MaxHw
      /\ Lpib' \in (IF Lpib = PlayPages - 1 THEN {0, PlayPages} ELSE {Lpib + 1})
      /\ HwTotal' = HwTotal + 1
      /\ UNCHANGED <<A!player, PlayFilled, A!position, PlayRing, playerPc, put>>
  BY DEF A!PlayPage, PlayerInv, Control, A!TypeOK
<1>2. /\ UNCHANGED <<Active, Started, Finished, ReadFailed, song, FramesDone, DataPages>>
      /\ UNCHANGED <<PlayHwTotal, PlayLastHw, seen>> /\ A!InputDone' = A!InputDone
  BY <1>1 DEF A!player, A!position, A!InputDone
<1>3. /\ late' = (late \/ (HwTotal >= PlayFilled /\ ~A!InputDone))
      /\ missed' = (missed \/ HwTotal + 1 - seen >= PlayPages)
      /\ heard' = IF HwTotal < PlayFilled /\ PlayRing[Lpib] \notin {Silence, Garbled}
                    THEN heard + PlayRing[Lpib].count ELSE heard
  BY DEF A!PlayPage
<1>f. /\ PlayPages \in Nat \ {0} /\ PlayPages > 1
      /\ song.frames \in Nat /\ FramesDone \in Nat
      /\ PlayFilled \in Nat /\ HwTotal \in Nat /\ seen \in Nat /\ PlayHwTotal \in Nat
      /\ Lpib \in Nat /\ heard \in Nat /\ MaxHw \in Nat /\ PageFrames \in Nat
  BY PlayerFacts DEF PlayerInv, Control
<1>4. HwTotal % PlayPages = Lpib
  BY <1>1, <1>f DEF PlayerInv, Counted
<1>5. (HwTotal + 1) % PlayPages = IF Lpib + 1 = PlayPages THEN 0 ELSE Lpib + 1
  BY <1>4, <1>f, AfterIs
<1>6. PlayRing[Lpib] = Page(HwTotal)
  BY <1>4 DEF Page
<1>7. HwTotal < PlayFilled =>
        /\ Page(HwTotal) \in A!Written
        /\ Page(HwTotal).id = song.id
        /\ Page(HwTotal).first + Page(HwTotal).count =
             IF HwTotal + 1 < PlayFilled THEN Page(HwTotal + 1).first ELSE FramesDone
  BY <1>1, <1>f DEF PlayerInv, PagesInOrder, Ahead
<1>8. HwTotal < PlayFilled => heard' = heard + Page(HwTotal).count /\ Page(HwTotal).count \in Nat
                              /\ Page(HwTotal).first \in Nat
  BY <1>3, <1>6, <1>7, <1>f DEF A!AudioConstants, A!Written
<1>9. late' \in BOOLEAN /\ missed' \in BOOLEAN /\ heard' \in Nat
  <2>1. late \in BOOLEAN /\ missed \in BOOLEAN
    BY DEF PlayerInv, Control, A!TypeOK
  <2>2. late' \in BOOLEAN /\ missed' \in BOOLEAN
    BY <1>3, <2>1
  <2>3. heard' \in Nat
    BY <1>3, <1>8, <1>f
  <2> QED BY <2>2, <2>3
<1>10. Lpib' \in 0..PlayPages /\ HwTotal' \in 0..MaxHw
  BY <1>1, <1>f
<1>11. A!TypeOK'
  BY <1>1, <1>2, <1>9, <1>10 DEF PlayerInv, Control, A!TypeOK
<1>12. Control'
  BY <1>1, <1>2, <1>11 DEF PlayerInv, Control
<1>13. Counted'
  <2>1. HwTotal' % PlayPages = IF Lpib' = PlayPages THEN 0 ELSE Lpib'
    BY <1>1, <1>5, <1>f
  <2>2. seen' < HwTotal' /\ seen' % PlayPages = PlayLastHw' /\ PlayHwTotal' <= seen'
    BY <1>1, <1>2, <1>f DEF PlayerInv, Counted
  <2>3. ~missed' => ~missed /\ ~(HwTotal + 1 - seen >= PlayPages)
    BY <1>3, Zenon
  <2>4. ~missed' => PlayHwTotal' = seen' /\ HwTotal' - seen' < PlayPages
    BY <1>1, <1>2, <1>f, <2>3 DEF PlayerInv, Counted
  <2> QED BY <1>1, <1>2, <1>f, <2>1, <2>2, <2>4 DEF Counted
<1>14. RoomLeft'
  BY <1>1, <1>2, <1>f DEF PlayerInv, RoomLeft
<1>15. PagesInOrder'
  <2>1. Ahead' \subseteq Ahead
    BY <1>1, <1>f DEF Ahead
  <2> QED BY <1>1, <1>2, <2>1 DEF PlayerInv, PagesInOrder, Page
<1>16. HeardSoFar'
  <2> SUFFICES ASSUME ~late' PROVE HeardSoFar'
    BY DEF HeardSoFar
  <2>0. ~late /\ ~(HwTotal >= PlayFilled /\ ~A!InputDone)
    BY <1>3, Zenon
  <2>1. ~late /\ (HwTotal < PlayFilled \/ A!InputDone)
    BY <2>0, <1>f
  <2>2. /\ heard = IF HwTotal < PlayFilled THEN Page(HwTotal).first ELSE FramesDone
        /\ HwTotal > PlayFilled => A!InputDone
    BY <1>1, <2>1 DEF PlayerInv, HeardSoFar
  <2>3. heard' = IF HwTotal + 1 < PlayFilled THEN Page(HwTotal + 1).first ELSE FramesDone
    <3>1. CASE HwTotal < PlayFilled
      BY <1>7, <1>8, <1>f, <2>2, <3>1
    <3>2. CASE HwTotal >= PlayFilled
      BY <1>3, <1>f, <2>2, <3>2
    <3> QED BY <1>f, <3>1, <3>2
  <2>4. HwTotal + 1 > PlayFilled => A!InputDone
    BY <1>f, <2>1
  <2> QED BY <1>1, <1>2, <2>3, <2>4 DEF HeardSoFar, Page
<1> QED BY <1>12, <1>13, <1>14, <1>15, <1>16 DEF PlayerInv

LEMMA WrapsKeeps == A!AudioConstants /\ PlayerInv /\ A!Wraps => PlayerInv'
<1> SUFFICES ASSUME A!AudioConstants, PlayerInv, A!Wraps PROVE PlayerInv'
  OBVIOUS
<1>1. /\ Started /\ Lpib = PlayPages /\ Lpib' = 0
      /\ UNCHANGED <<Active, Started, Finished, ReadFailed, song, FramesDone, DataPages>>
      /\ UNCHANGED <<PlayHwTotal, PlayLastHw, seen>>
      /\ UNCHANGED <<PlayFilled, PlayRing, playerPc, put, HwTotal, heard, late, missed>>
  BY DEF A!Wraps, A!player, A!position
<1>2. PlayPages > 1 /\ 0 \in 0..PlayPages /\ A!InputDone' = A!InputDone
  BY <1>1, PlayerFacts DEF PlayerInv, Control, A!InputDone
<1>3. Control'
  BY <1>1, <1>2 DEF PlayerInv, Control, A!TypeOK
<1>4. Counted'
  BY <1>1, <1>2 DEF PlayerInv, Counted
<1>5. RoomLeft'
  BY <1>1 DEF PlayerInv, RoomLeft
<1>6. PagesInOrder' /\ HeardSoFar'
  BY <1>1, PagesKept DEF PlayerInv
<1> QED BY <1>3, <1>4, <1>5, <1>6 DEF PlayerInv

LEMMA StopKeeps == A!AudioConstants /\ PlayerInv /\ (A!StartFails \/ A!UserStops) => PlayerInv'
<1> SUFFICES ASSUME A!AudioConstants, PlayerInv, A!StartFails \/ A!UserStops PROVE PlayerInv'
  OBVIOUS
<1>1. /\ A!PlayerStop /\ playerPc' = "idle"
      /\ UNCHANGED <<ReadFailed, song, FramesDone, DataPages, PlayFilled, PlayRing, put,
                     HwTotal, heard, late, missed>>
      /\ UNCHANGED <<PlayHwTotal, PlayLastHw, seen>>
  BY DEF A!StartFails, A!UserStops, A!position
<1>2. Finished' \in BOOLEAN
  BY DEF A!StartFails, A!UserStops, PlayerInv, Control, A!TypeOK
<1>3. PlayHwTotal' \in Nat /\ PlayLastHw' \in 0..(PlayPages - 1) /\ seen' \in 0..MaxHw
  BY <1>1 DEF PlayerInv, Control, A!TypeOK
<1> QED BY <1>1, <1>2, <1>3, PlayerStopped

LEMMA PlayerStartKeeps ==
  ASSUME A!AudioConstants, PlayerInv, NEW s \in Songs, A!PlayerStart(s)
  PROVE  PlayerInv'
<1>1. /\ song' = s /\ FramesDone' = 0 /\ DataPages' = 0 /\ PlayFilled' = 0
      /\ Active' = TRUE /\ Started' = FALSE /\ Finished' = FALSE /\ ReadFailed' = FALSE
      /\ playerPc' = "fill" /\ put' = put
      /\ PlayHwTotal' = 0 /\ PlayLastHw' = 0 /\ seen' = 0
      /\ Lpib' = 0 /\ HwTotal' = 0 /\ heard' = 0 /\ late' = FALSE /\ missed' = FALSE
      /\ PlayRing' = [p \in 0..(PlayPages - 1) |-> Silence]
  BY DEF A!PlayerStart, A!HdaStreamOpen
<1>2. /\ PlayPages \in Nat /\ PlayPages > 1 /\ MaxHw \in Nat /\ s.frames \in Nat
      /\ put \in 0..PageFrames
  BY DEF A!AudioConstants, PlayerInv, Control, A!TypeOK
<1>3. PlayRing' \in [0..(PlayPages - 1) -> A!Written \cup {Silence, Garbled}]
  BY <1>1
<1>4. /\ FramesDone' \in 0..song'.frames /\ put' \in 0..PageFrames /\ PlayLastHw' \in 0..(PlayPages - 1)
      /\ Lpib' \in 0..PlayPages /\ HwTotal' \in 0..MaxHw /\ seen' \in 0..MaxHw
  BY <1>1, <1>2
<1>9. A!TypeOK'
  BY <1>1, <1>3, <1>4 DEF A!TypeOK
<1>5. Control'
  BY <1>1, <1>9 DEF Control
<1>6. RoomLeft'
  BY <1>1, <1>2 DEF RoomLeft
<1>7. Ahead' = {}
  BY <1>1 DEF Ahead
<1> QED BY <1>1, <1>5, <1>6, <1>7 DEF PlayerInv, Counted, PagesInOrder, HeardSoFar

LEMMA CallsKeep == A!AudioConstants /\ PlayerInv /\ (A!PlayerTakeFinished \/ A!PollCall) => PlayerInv'
<1> SUFFICES ASSUME A!AudioConstants, PlayerInv, A!PlayerTakeFinished \/ A!PollCall PROVE PlayerInv'
  OBVIOUS
<1>1. /\ UNCHANGED <<Active, Started, ReadFailed, song, FramesDone, DataPages, PlayFilled,
                     PlayHwTotal, PlayLastHw, seen, PlayRing, put, Lpib, HwTotal, heard, late, missed>>
      /\ playerPc' = "idle" \/ (Active /\ playerPc' = "fill")
      /\ Finished' \in BOOLEAN
  BY DEF A!PlayerTakeFinished, A!PollCall, A!position, A!codec, A!player, PlayerInv, Control, A!TypeOK
<1>2. Control'
  BY <1>1 DEF PlayerInv, Control, A!TypeOK
<1>3. Counted' /\ RoomLeft'
  BY <1>1 DEF PlayerInv, Counted, RoomLeft
<1>4. PagesInOrder' /\ HeardSoFar'
  BY <1>1, PagesKept DEF PlayerInv
<1> QED BY <1>2, <1>3, <1>4 DEF PlayerInv

LEMMA LookingKeeps == A!AudioConstants /\ PlayerInv /\ (A!PlayerElapsedSeconds \/ A!NextPage) => PlayerInv'
<1> SUFFICES ASSUME A!AudioConstants, PlayerInv, A!PlayerElapsedSeconds \/ A!NextPage PROVE PlayerInv'
  OBVIOUS
<1>1. /\ UNCHANGED <<Active, Started, Finished, ReadFailed, song, FramesDone, DataPages, PlayFilled,
                     PlayRing, put, Lpib, HwTotal, heard, late, missed>>
      /\ A!UpdatePlayPosition \/ UNCHANGED <<PlayHwTotal, PlayLastHw, seen>>
  BY DEF A!PlayerElapsedSeconds, A!NextPage, A!position, A!codec, A!player
<1>2. A!InputDone' = A!InputDone
  BY <1>1 DEF A!InputDone
<1>3. /\ Active
      /\ \/ playerPc' = "idle" \/ playerPc' = "tail"
         \/ playerPc' = "read" /\ ~A!InputDone /\ A!UpdatePlayPosition /\ PlayFilled < PlayHwTotal' + PlayPages
  BY DEF A!PlayerElapsedSeconds, A!NextPage, PlayerInv, Control, A!PageFree
<1>4. /\ Counted'
      /\ PlayHwTotal' \in Nat /\ PlayLastHw' \in 0..(PlayPages - 1) /\ seen' \in 0..MaxHw
      /\ A!UpdatePlayPosition /\ Started => PlayHwTotal' <= HwTotal
      /\ ~Started => UNCHANGED <<PlayHwTotal, PlayLastHw, seen>>
  <2>1. CASE A!UpdatePlayPosition
    BY <1>1, <2>1, LookKeeps DEF PlayerInv, A!position
  <2>2. CASE UNCHANGED <<PlayHwTotal, PlayLastHw, seen>> /\ ~A!UpdatePlayPosition
    BY <1>1, <2>2 DEF PlayerInv, Counted, Control, A!TypeOK
  <2> QED BY <1>1, <2>1, <2>2
<1>9. A!TypeOK'
  BY <1>1, <1>3, <1>4 DEF PlayerInv, Control, A!TypeOK
<1>5. Control'
  <2>1. playerPc' # "write" /\ (playerPc' = "read" => ~A!InputDone')
    BY <1>2, <1>3
  <2>2. Active /\ ~Started =>
          /\ HwTotal = 0 /\ Lpib = 0 /\ PlayHwTotal' = 0 /\ PlayLastHw' = 0 /\ seen' = 0
          /\ heard = 0 /\ ~late /\ ~missed
    BY <1>4 DEF PlayerInv, Control
  <2> QED BY <1>1, <1>3, <1>9, <2>1, <2>2 DEF PlayerInv, Control
<1>6. RoomLeft'
  <2>1. playerPc' = "read" => PlayFilled < HwTotal + PlayPages
    <3> SUFFICES ASSUME playerPc' = "read" PROVE PlayFilled < HwTotal + PlayPages
      OBVIOUS
    <3>1. PlayFilled < PlayHwTotal' + PlayPages /\ A!UpdatePlayPosition
      BY <1>3
    <3>2. PlayHwTotal' <= HwTotal
      BY <1>3, <1>4, <3>1 DEF PlayerInv, Control
    <3> QED BY <1>4, <3>1, <3>2, PlayerFacts DEF PlayerInv, Control
  <2> QED BY <1>1, <1>3, <2>1 DEF PlayerInv, RoomLeft
<1>7. PagesInOrder' /\ HeardSoFar'
  BY <1>1, PagesKept DEF PlayerInv
<1> QED BY <1>4, <1>5, <1>6, <1>7 DEF PlayerInv

(* A page is written that is none of those that were filled and not played.*)
LEMMA OthersStay ==
  ASSUME A!AudioConstants, PlayerInv, playerPc \in {"read", "write"}, NEW content,
         PlayRing' = [PlayRing EXCEPT ![A!FillSlot] = content]
  PROVE  /\ \A j \in Ahead : Page(j)' = Page(j)
         /\ PlayRing'[A!FillSlot] = content
<1>1. /\ PlayPages \in Nat \ {0} /\ PlayFilled \in Nat /\ HwTotal \in Nat
      /\ PlayFilled < HwTotal + PlayPages /\ A!FillSlot \in 0..(PlayPages - 1)
  BY PlayerFacts DEF PlayerInv, Control, RoomLeft
<1>2. ASSUME NEW j \in Ahead PROVE Page(j)' = Page(j)
  <2>1. j \in Nat /\ j < PlayFilled /\ PlayFilled < j + PlayPages
    BY <1>1 DEF Ahead
  <2>2. j % PlayPages # A!FillSlot /\ j % PlayPages \in 0..(PlayPages - 1)
    BY <1>1, <2>1, Apart, Remainder DEF A!FillSlot
  <2> QED BY <2>2 DEF Page, PlayerInv, Control, A!TypeOK
<1>3. PlayRing'[A!FillSlot] = content
  BY <1>1 DEF PlayerInv, Control, A!TypeOK
<1> QED BY <1>2, <1>3

LEMMA ReadKeeps == A!AudioConstants /\ PlayerInv /\ A!Read => PlayerInv'
<1> SUFFICES ASSUME A!AudioConstants, PlayerInv, A!Read PROVE PlayerInv'
  OBVIOUS
<1>1. /\ playerPc = "read"
      /\ UNCHANGED <<Active, Started, Finished, song, FramesDone, DataPages, PlayFilled,
                     PlayHwTotal, PlayLastHw, seen, Lpib, HwTotal, heard, late, missed>>
  BY DEF A!Read, A!position, A!codec
<1>2. CASE ReadFailed' = TRUE /\ playerPc' = "tail" /\ UNCHANGED <<put, PlayRing>>
  <2>1. Control'
    BY <1>1, <1>2 DEF PlayerInv, Control, A!TypeOK
  <2>2. Counted' /\ RoomLeft'
    BY <1>1, <1>2 DEF PlayerInv, Counted, RoomLeft
  <2>3. PagesInOrder' /\ HeardSoFar'
    BY <1>1, <1>2, PagesKept DEF PlayerInv
  <2> QED BY <2>1, <2>2, <2>3 DEF PlayerInv
<1>3. CASE /\ put' \in 1..(IF song.frames - FramesDone > PageFrames THEN PageFrames ELSE song.frames - FramesDone)
           /\ playerPc' = "write" /\ PlayRing' = [PlayRing EXCEPT ![A!FillSlot] = Garbled] /\ UNCHANGED ReadFailed
  <2>f. /\ song.frames \in Nat /\ FramesDone \in Nat /\ PageFrames \in Nat
        /\ A!FillSlot \in 0..(PlayPages - 1)
    BY PlayerFacts DEF PlayerInv, Control
  <2>1. PlayRing' \in [0..(PlayPages - 1) -> A!Written \cup {Silence, Garbled}]
    BY <1>3 DEF PlayerInv, Control, A!TypeOK
  <2>2. put' \in 0..PageFrames /\ put' > 0 /\ FramesDone + put' <= song.frames
    BY <1>3, <2>f
  <2>3. A!InputDone' = A!InputDone
    BY <1>1, <1>3 DEF A!InputDone
  <2>4. A!TypeOK'
    BY <1>1, <1>3, <2>1, <2>2 DEF PlayerInv, Control, A!TypeOK
  <2>5. Control'
    BY <1>1, <1>3, <2>2, <2>3, <2>4 DEF PlayerInv, Control
  <2>6. Counted' /\ RoomLeft'
    BY <1>1, <1>3 DEF PlayerInv, Counted, RoomLeft
  <2>7. Ahead' = Ahead /\ \A j \in Ahead : Page(j)' = Page(j)
    BY <1>1, <1>3, OthersStay DEF Ahead
  <2>8. PagesInOrder'
    <3> SUFFICES ASSUME Active, NEW j \in Ahead
                 PROVE  /\ Page(j)' \in A!Written /\ Page(j)'.id = song.id
                        /\ Page(j)'.first + Page(j)'.count =
                             IF j + 1 < PlayFilled THEN Page(j + 1)'.first ELSE FramesDone
      BY <1>1, <2>7 DEF PagesInOrder, A!Written
    <3>1. j + 1 < PlayFilled => j + 1 \in Ahead
      BY PlayerFacts DEF Ahead, PlayerInv, Control
    <3> QED BY <2>7, <3>1 DEF PlayerInv, PagesInOrder
  <2>9. HeardSoFar'
    <3>1. HwTotal < PlayFilled => HwTotal \in Ahead
      BY PlayerFacts DEF Ahead, PlayerInv, Control
    <3>2. HwTotal < PlayFilled => Page(HwTotal)' = Page(HwTotal)
      BY <1>1, <2>7, <3>1 DEF Page
    <3> QED BY <1>1, <2>3, <3>2 DEF PlayerInv, HeardSoFar, Page
  <2> QED BY <2>5, <2>6, <2>8, <2>9 DEF PlayerInv
<1> QED BY <1>2, <1>3 DEF A!Read

(* The stream starts at the first page, of which nothing was played.       *)
LEMMA StreamStarts ==
  ASSUME A!AudioConstants, Control, Active, ~Started, A!HdaStreamStart, UNCHANGED <<Lpib, HwTotal, missed>>
  PROVE  /\ Started' = TRUE /\ PlayHwTotal' = 0 /\ PlayLastHw' = 0 /\ seen' = 0
         /\ Counted'
<1>1. Started' = TRUE /\ PlayHwTotal' = 0 /\ PlayLastHw' = 0 /\ seen' = 0
  BY DEF A!HdaStreamStart
<1>2. HwTotal' = 0 /\ Lpib' = 0
  BY DEF Control
<1>3. PlayPages \in Nat \ {0} /\ PlayPages > 1 /\ 0 % PlayPages = 0
  BY PlayerFacts, Small DEF Control
<1> QED BY <1>1, <1>2, <1>3 DEF Counted

LEMMA CommitKeeps == A!AudioConstants /\ PlayerInv /\ A!Commit => PlayerInv'
<1> SUFFICES ASSUME A!AudioConstants, PlayerInv, A!Commit PROVE PlayerInv'
  OBVIOUS
<1> DEFINE new == [id |-> song.id, first |-> FramesDone, count |-> put]
<1>1. /\ playerPc = "write" /\ playerPc' = "fill"
      /\ PlayRing' = [PlayRing EXCEPT ![A!FillSlot] = new]
      /\ PlayFilled' = PlayFilled + 1 /\ FramesDone' = FramesDone + put /\ DataPages' = DataPages + 1
      /\ UNCHANGED <<Active, Finished, ReadFailed, song, put, Lpib, HwTotal, heard, late, missed>>
      /\ (~Started /\ A!HdaStreamStart) \/ UNCHANGED <<Started, PlayHwTotal, PlayLastHw, seen>>
  BY DEF A!Commit, A!position, A!codec
<1>2. /\ Active /\ ~A!InputDone /\ put > 0 /\ FramesDone + put <= song.frames
      /\ PlayFilled < HwTotal + PlayPages /\ DataPages = PlayFilled /\ song \in Songs
      /\ put \in 0..PageFrames
  BY <1>1 DEF PlayerInv, Control, RoomLeft, A!TypeOK
<1>f. /\ PlayPages \in Nat \ {0} /\ PlayFilled \in Nat /\ HwTotal \in Nat /\ FramesDone \in Nat /\ put \in Nat
      /\ PlayFilled % PlayPages = A!FillSlot /\ song.frames \in Nat /\ A!FillSlot \in 0..(PlayPages - 1)
      /\ MaxHw \in Nat
  BY PlayerFacts DEF PlayerInv, Control, A!FillSlot
<1>3. new \in A!Written
  BY <1>2, <1>f DEF A!Written
<1>4. Counted'
  <2>1. CASE ~Started /\ A!HdaStreamStart
    BY <1>1, <1>2, <2>1, StreamStarts DEF PlayerInv
  <2>2. CASE UNCHANGED <<Started, PlayHwTotal, PlayLastHw, seen>>
    BY <1>1, <2>2 DEF PlayerInv, Counted
  <2> QED BY <1>1, <2>1, <2>2
<1>5. /\ Started' \in BOOLEAN /\ PlayHwTotal' \in Nat /\ PlayLastHw' \in 0..(PlayPages - 1)
      /\ seen' \in 0..MaxHw
      /\ ~Started' => PlayHwTotal' = 0 /\ PlayLastHw' = 0 /\ seen' = 0 /\ ~Started
  <2>1. CASE ~Started /\ A!HdaStreamStart
    BY <1>f, <2>1 DEF A!HdaStreamStart
  <2>2. CASE UNCHANGED <<Started, PlayHwTotal, PlayLastHw, seen>>
    BY <1>2, <2>2 DEF PlayerInv, Control, A!TypeOK
  <2> QED BY <1>1, <2>1, <2>2
<1>6. PlayRing' \in [0..(PlayPages - 1) -> A!Written \cup {Silence, Garbled}]
  BY <1>1, <1>3 DEF PlayerInv, Control, A!TypeOK
<1>7. PlayFilled' \in Nat /\ DataPages' \in Nat /\ FramesDone' \in 0..song'.frames
  BY <1>1, <1>2, <1>f
<1>8. A!TypeOK'
  BY <1>1, <1>2, <1>5, <1>6, <1>7 DEF PlayerInv, Control, A!TypeOK
<1>9. Control'
  BY <1>1, <1>2, <1>5, <1>8 DEF PlayerInv, Control
<1>10. RoomLeft'
  BY <1>1, <1>2, <1>f DEF RoomLeft
<1>11. /\ \A j \in Ahead : Page(j)' = Page(j)
       /\ PlayRing'[PlayFilled % PlayPages] = new
  BY <1>1, <1>f, OthersStay
<1>12. PagesInOrder'
  <2> SUFFICES ASSUME NEW j \in Nat, HwTotal <= j, j < PlayFilled + 1
               PROVE  /\ Page(j)' \in A!Written /\ Page(j)'.id = song.id
                      /\ Page(j)'.first + Page(j)'.count =
                           IF j + 1 < PlayFilled + 1 THEN Page(j + 1)'.first ELSE FramesDone + put
    BY <1>1 DEF PagesInOrder, Ahead, A!Written
  <2>1. CASE j = PlayFilled
    <3>1. Page(j)' = new
      BY <1>1, <1>11, <2>1 DEF Page
    <3> QED BY <1>3, <1>f, <2>1, <3>1
  <2>2. CASE j < PlayFilled
    <3>1. j \in Ahead
      BY <2>2 DEF Ahead
    <3>2. /\ Page(j)' = Page(j) /\ Page(j) \in A!Written /\ Page(j).id = song.id
          /\ Page(j).first + Page(j).count = IF j + 1 < PlayFilled THEN Page(j + 1).first ELSE FramesDone
      BY <1>2, <1>11, <3>1 DEF PlayerInv, PagesInOrder
    <3>3. CASE j + 1 < PlayFilled
      <4>1. j + 1 \in Ahead
        BY <1>f, <3>3 DEF Ahead
      <4>2. Page(j + 1)' = Page(j + 1)
        BY <1>11, <4>1
      <4> QED BY <1>f, <3>2, <3>3, <4>2
    <3>4. CASE j + 1 = PlayFilled
      <4>1. Page(j + 1)' = new
        BY <1>11, <3>4 DEF Page
      <4> QED BY <1>f, <3>2, <3>4, <4>1
    <3> QED BY <1>f, <2>2, <3>3, <3>4
  <2> QED BY <1>f, <2>1, <2>2
<1>13. HeardSoFar'
  <2> SUFFICES ASSUME ~late
               PROVE  heard = Page(HwTotal)'.first /\ HwTotal <= PlayFilled
    BY <1>1, <1>f DEF HeardSoFar, Page
  <2>1. /\ heard = IF HwTotal < PlayFilled THEN Page(HwTotal).first ELSE FramesDone
        /\ HwTotal <= PlayFilled
    BY <1>2, <1>f DEF PlayerInv, HeardSoFar
  <2>2. CASE HwTotal < PlayFilled
    <3>1. HwTotal \in Ahead
      BY <1>f, <2>2 DEF Ahead
    <3>2. Page(HwTotal)' = Page(HwTotal)
      BY <1>1, <1>11, <3>1 DEF Page
    <3> QED BY <1>f, <2>1, <2>2, <3>2
  <2>3. CASE HwTotal = PlayFilled
    <3>1. Page(HwTotal)' = new
      BY <1>1, <1>11, <2>3 DEF Page
    <3> QED BY <1>f, <2>1, <2>3, <3>1
  <2> QED BY <1>f, <2>1, <2>2, <2>3
<1> QED BY <1>4, <1>9, <1>10, <1>12, <1>13 DEF PlayerInv

LEMMA StartShortKeeps == A!AudioConstants /\ PlayerInv /\ A!StartShort => PlayerInv'
<1> SUFFICES ASSUME A!AudioConstants, PlayerInv, A!StartShort PROVE PlayerInv'
  OBVIOUS
<1>1. /\ ~Started /\ A!HdaStreamStart /\ playerPc = "tail"
      /\ UNCHANGED <<Active, Finished, ReadFailed, song, FramesDone, DataPages, PlayFilled,
                     PlayRing, playerPc, put, Lpib, HwTotal, heard, late, missed>>
  BY DEF A!StartShort, A!codec
<1>2. Active /\ MaxHw \in Nat /\ PlayPages \in Nat /\ PlayPages > 1
  BY <1>1, PlayerFacts DEF PlayerInv, Control
<1>3. Started' = TRUE /\ PlayHwTotal' = 0 /\ PlayLastHw' = 0 /\ seen' = 0 /\ Counted'
  BY <1>1, <1>2, StreamStarts DEF PlayerInv
<1>4. PlayLastHw' \in 0..(PlayPages - 1) /\ seen' \in 0..MaxHw
  BY <1>2, <1>3
<1>5. A!TypeOK'
  BY <1>1, <1>2, <1>3, <1>4 DEF PlayerInv, Control, A!TypeOK
<1>6. Control'
  BY <1>1, <1>2, <1>3, <1>5 DEF PlayerInv, Control
<1>7. RoomLeft'
  BY <1>1 DEF PlayerInv, RoomLeft
<1>8. PagesInOrder' /\ HeardSoFar'
  BY <1>1, PagesKept DEF PlayerInv
<1> QED BY <1>3, <1>6, <1>7, <1>8 DEF PlayerInv

(* A poll ends the song, or goes on with it.                               *)
LEMMA PollEndCases ==
  ASSUME A!AudioConstants, PlayerInv, A!PollEnd
  PROVE  /\ playerPc = "tail" /\ playerPc' = "idle" /\ Active
         /\ UNCHANGED <<ReadFailed, song, FramesDone, DataPages, PlayFilled, PlayRing, put,
                        HwTotal, heard, late, missed>>
         /\ PlayHwTotal' \in Nat /\ PlayLastHw' \in 0..(PlayPages - 1) /\ seen' \in 0..MaxHw
         /\ Started => PlayHwTotal' <= HwTotal
         /\ A!UpdatePlayPosition \/ UNCHANGED <<PlayHwTotal, PlayLastHw, seen>>
         /\ \/ /\ A!PlayerStop /\ Finished' = TRUE /\ A!InputDone
               /\ (Started /\ PlayHwTotal' >= DataPages) \/ DataPages = 0
            \/ UNCHANGED <<Active, Started, Finished, Lpib>>
<1>1. /\ playerPc = "tail" /\ playerPc' = "idle" /\ Active
      /\ UNCHANGED <<ReadFailed, song, FramesDone, DataPages, PlayFilled, PlayRing, put,
                        HwTotal, heard, late, missed>>
      /\ A!UpdatePlayPosition \/ UNCHANGED <<PlayHwTotal, PlayLastHw, seen>>
      /\ \/ /\ A!PlayerStop /\ Finished' = TRUE /\ A!InputDone
            /\ (Started /\ PlayHwTotal' >= DataPages) \/ DataPages = 0
         \/ UNCHANGED <<Active, Started, Finished, Lpib>>
  BY DEF A!PollEnd, A!position, PlayerInv, Control
<1>2. CASE A!UpdatePlayPosition /\ Started
  <2>1. PlayHwTotal' \in Nat /\ seen' \in Nat /\ seen' <= HwTotal /\ PlayHwTotal' <= seen' /\ PlayLastHw' = A!HwPage
    BY <1>2, Looked DEF PlayerInv, Control
  <2>2. HwTotal \in 0..MaxHw /\ A!HwPage \in 0..(PlayPages - 1) /\ MaxHw \in Nat
    BY PlayerFacts DEF PlayerInv, Control, A!TypeOK
  <2>3. PlayLastHw' \in 0..(PlayPages - 1) /\ seen' \in 0..MaxHw /\ PlayHwTotal' <= HwTotal
    BY <2>1, <2>2
  <2> QED BY <1>1, <2>1, <2>3
<1>3. CASE UNCHANGED <<PlayHwTotal, PlayLastHw, seen>>
  <2>1. PlayHwTotal \in Nat /\ PlayLastHw \in 0..(PlayPages - 1) /\ seen \in 0..MaxHw
    BY DEF PlayerInv, Control, A!TypeOK
  <2>2. Started => PlayHwTotal <= HwTotal
    BY PlayerFacts DEF PlayerInv, Control, Counted
  <2> QED BY <1>1, <1>3, <2>1, <2>2
<1>4. ~Started /\ A!UpdatePlayPosition => UNCHANGED <<PlayHwTotal, PlayLastHw, seen>>
  BY DEF A!UpdatePlayPosition, A!position
<1> QED BY <1>1, <1>2, <1>3, <1>4

LEMMA PollEndKeeps == A!AudioConstants /\ PlayerInv /\ A!PollEnd => PlayerInv'
<1> SUFFICES ASSUME A!AudioConstants, PlayerInv, A!PollEnd PROVE PlayerInv'
  OBVIOUS
<1>1. CASE A!PlayerStop /\ Finished' = TRUE
  BY <1>1, PollEndCases, PlayerStopped
<1>2. CASE UNCHANGED <<Active, Started, Finished, Lpib>>
  <2>1. /\ playerPc' = "idle" /\ Active
        /\ UNCHANGED <<ReadFailed, song, FramesDone, DataPages, PlayFilled, PlayRing, put,
                       HwTotal, heard, late, missed>>
        /\ PlayHwTotal' \in Nat /\ PlayLastHw' \in 0..(PlayPages - 1) /\ seen' \in 0..MaxHw
        /\ A!UpdatePlayPosition \/ UNCHANGED <<PlayHwTotal, PlayLastHw, seen>>
    BY PollEndCases
  <2>2. Counted' /\ (~Started => UNCHANGED <<PlayHwTotal, PlayLastHw, seen>>)
    <3>1. CASE A!UpdatePlayPosition
      BY <1>2, <2>1, <3>1, LookKeeps DEF PlayerInv, A!position
    <3>2. CASE UNCHANGED <<PlayHwTotal, PlayLastHw, seen>>
      BY <1>2, <2>1, <3>2 DEF PlayerInv, Counted
    <3> QED BY <2>1, <3>1, <3>2
  <2>3. Control'
    <3>1. A!TypeOK'
      BY <1>2, <2>1 DEF PlayerInv, Control, A!TypeOK
    <3> QED BY <1>2, <2>1, <2>2, <3>1 DEF PlayerInv, Control
  <2>4. RoomLeft'
    BY <1>2, <2>1 DEF PlayerInv, RoomLeft
  <2>5. PagesInOrder' /\ HeardSoFar'
    BY <1>2, <2>1, PagesKept DEF PlayerInv
  <2> QED BY <2>2, <2>3, <2>4, <2>5 DEF PlayerInv
<1> QED BY <1>1, <1>2, PollEndCases

LEMMA PlayerKeeps == A!AudioConstants /\ PlayerInv /\ [A!Next]_(A!vars) => PlayerInv'
<1> SUFFICES ASSUME A!AudioConstants, PlayerInv, [A!Next]_(A!vars) PROVE PlayerInv'
  OBVIOUS
<1>1. CASE A!Next
  BY <1>1, PlayPageKeeps, WrapsKeeps, StopKeeps, PlayerStartKeeps, CallsKeep, LookingKeeps,
     ReadKeeps, CommitKeeps, StartShortKeeps, PollEndKeeps DEF A!Next, A!Codec, A!PlayerPoll, A!User
<1>2. CASE UNCHANGED A!vars
  <2>1. /\ UNCHANGED <<Active, Started, Finished, ReadFailed, song, FramesDone, DataPages>>
        /\ UNCHANGED <<PlayFilled, PlayHwTotal, PlayLastHw, seen, PlayRing, playerPc, put>>
        /\ UNCHANGED <<Lpib, HwTotal, heard, late, missed>>
    BY <1>2 DEF A!vars, A!player, A!position, A!codec
  <2>2. A!InputDone' = A!InputDone
    BY <2>1 DEF A!InputDone
  <2>3. Control'
    BY <2>1, <2>2 DEF PlayerInv, Control, A!TypeOK
  <2>4. Counted' /\ RoomLeft'
    BY <2>1 DEF PlayerInv, Counted, RoomLeft
  <2>5. PagesInOrder' /\ HeardSoFar'
    BY <2>1, PagesKept DEF PlayerInv
  <2> QED BY <2>3, <2>4, <2>5 DEF PlayerInv
<1> QED BY <1>1, <1>2

LEMMA Invariance == A!AudioConstants => (A!Spec => []PlayerInv)
<1> SUFFICES ASSUME A!AudioConstants PROVE A!Spec => []PlayerInv
  OBVIOUS
<1>1. A!Init => PlayerInv
  BY PlayerStarts
<1>2. PlayerInv /\ [A!Next]_(A!vars) => PlayerInv'
  BY PlayerKeeps
<1> QED BY <1>1, <1>2, PTL DEF A!Spec

(* What the driver believes of the ring is so: its count of the pages that *)
(* were played is exact until it was away for a whole ring and is never    *)
(* ahead, and it does not write the page the codec is in.                  *)
LEMMA RingIsSound == A!AudioConstants => (A!Spec => []A!StateSound)
<1> SUFFICES ASSUME A!AudioConstants PROVE A!Spec => []A!StateSound
  OBVIOUS
<1>1. PlayerInv => A!StateSound
  <2> SUFFICES ASSUME PlayerInv PROVE A!StateSound
    OBVIOUS
  <2>f. /\ PlayPages \in Nat \ {0} /\ PlayFilled \in Nat /\ HwTotal \in Nat /\ Lpib \in 0..PlayPages
        /\ seen \in Nat /\ PlayHwTotal \in Nat /\ A!FillSlot \in 0..(PlayPages - 1)
    BY PlayerFacts DEF PlayerInv, Control
  <2>1. A!PositionExact /\ A!NeverAhead
    BY <2>f DEF PlayerInv, Counted, A!PositionExact, A!NeverAhead
  <2>2. A!NotWhilePlaying
    <3> SUFFICES ASSUME playerPc = "write", Started, HwTotal < PlayFilled PROVE Lpib # A!FillSlot
      BY DEF A!NotWhilePlaying
    <3>1. Active /\ PlayFilled < HwTotal + PlayPages
      BY DEF PlayerInv, Control, A!TypeOK, RoomLeft
    <3>2. HwTotal % PlayPages # A!FillSlot
      BY <2>f, <3>1, Apart DEF A!FillSlot
    <3>3. Lpib # PlayPages => HwTotal % PlayPages = Lpib
      BY DEF PlayerInv, Counted
    <3> QED BY <2>f, <3>2, <3>3
  <2> QED BY <2>1, <2>2 DEF A!StateSound, PlayerInv, Control
<1> QED BY <1>1, Invariance, PTL

(* What is heard is the file, frame after frame, until the player falls    *)
(* behind the codec: HdaStreamNextPage and PlayerPoll neither skip, repeat *)
(* nor tear a page, and no earlier song is heard.                          *)
LEMMA SongIsHeard == A!AudioConstants => (A!Spec => A!HeardInOrder)
<1> SUFFICES ASSUME A!AudioConstants PROVE A!Spec => A!HeardInOrder
  OBVIOUS
<1> DEFINE Heard ==
      HwTotal' = HwTotal + 1 /\ HwTotal < PlayFilled /\ ~late =>
        /\ PlayRing[Lpib] \notin {Silence, Garbled}
        /\ PlayRing[Lpib].id = song.id /\ PlayRing[Lpib].first = heard
<1>1. PlayerInv /\ [A!Next]_(A!vars) => [Heard]_(A!vars)
  <2> SUFFICES ASSUME PlayerInv, [A!Next]_(A!vars), HwTotal' = HwTotal + 1, HwTotal < PlayFilled, ~late
               PROVE  /\ PlayRing[Lpib] \notin {Silence, Garbled}
                      /\ PlayRing[Lpib].id = song.id /\ PlayRing[Lpib].first = heard
    OBVIOUS
  <2>1. HwTotal \in Nat
    BY PlayerFacts DEF PlayerInv, Control
  <2>2. A!PlayPage
    BY <2>1 DEF A!Next, A!Codec, A!Wraps, A!PlayerPoll, A!PollCall, A!NextPage, A!Read, A!Commit, A!StartShort, A!PollEnd,
                A!User, A!StartFails, A!PlayerStart, A!HdaStreamOpen, A!UserStops, A!PlayerTakeFinished,
                A!PlayerElapsedSeconds, A!codec, A!vars
  <2>3. Started /\ Active /\ Lpib < PlayPages
    BY <2>2 DEF A!PlayPage, PlayerInv, Control, A!TypeOK
  <2>4. HwTotal % PlayPages = Lpib
    BY <2>3, PlayerFacts DEF PlayerInv, Control, Counted
  <2>5. PlayRing[Lpib] = Page(HwTotal)
    BY <2>4 DEF Page
  <2>6. HwTotal \in Ahead
    BY <2>1 DEF Ahead
  <2>7. Page(HwTotal) \in A!Written /\ Page(HwTotal).id = song.id
    BY <2>3, <2>6 DEF PlayerInv, PagesInOrder
  <2>8. Page(HwTotal).first = heard
    BY <2>3 DEF PlayerInv, HeardSoFar
  <2> QED BY <2>5, <2>7, <2>8 DEF A!AudioConstants
<1> QED BY <1>1, Invariance, PTL DEF A!Spec, A!HeardInOrder

(* A song is reported as finished only after every page of it was played,  *)
(* and then all of it was heard unless the player had fallen behind.       *)
LEMMA FinishedWasPlayed == A!AudioConstants => (A!Spec => A!FinishedIsPlayed)
<1> SUFFICES ASSUME A!AudioConstants PROVE A!Spec => A!FinishedIsPlayed
  OBVIOUS
<1> DEFINE Over ==
      ~Finished /\ Finished' =>
        A!InputDone /\ HwTotal >= DataPages /\ (~late => heard = FramesDone)
<1>1. PlayerInv /\ [A!Next]_(A!vars) => [Over]_(A!vars)
  <2> SUFFICES ASSUME PlayerInv, [A!Next]_(A!vars), ~Finished, Finished'
               PROVE  A!InputDone /\ HwTotal >= DataPages /\ (~late => heard = FramesDone)
    OBVIOUS
  <2>1. A!PollEnd
    BY DEF A!Next, A!Codec, A!PlayPage, A!Wraps, A!PlayerPoll, A!PollCall, A!NextPage, A!Read, A!Commit, A!StartShort,
           A!User, A!StartFails, A!PlayerStart, A!UserStops, A!PlayerTakeFinished, A!PlayerElapsedSeconds,
           A!player, A!vars
  <2>2. /\ DataPages = PlayFilled /\ PlayFilled \in Nat /\ HwTotal \in Nat
        /\ PlayHwTotal' \in Nat /\ (Started => PlayHwTotal' <= HwTotal)
        /\ Active /\ A!InputDone /\ ((Started /\ PlayHwTotal' >= DataPages) \/ DataPages = 0)
    BY <2>1, PollEndCases, PlayerFacts DEF PlayerInv, Control
  <2>3. HwTotal >= PlayFilled
    BY <2>2
  <2>4. ~late => heard = FramesDone
    BY <2>2, <2>3 DEF PlayerInv, HeardSoFar
  <2> QED BY <2>2, <2>3, <2>4
<1> QED BY <1>1, Invariance, PTL DEF A!Spec, A!FinishedIsPlayed

------------------------------------------------------------------------------
(* The whole.                                                              *)

(* Every behaviour of the composition is a behaviour of each part.         *)
LEMMA EachIsItself == AudioSpec => Spec /\ W!Spec /\ A!Spec
<1>1. AudioInit => Init /\ W!Init /\ A!Init
  BY DEF AudioInit
<1>2. [AudioNext]_all => [Next]_vars /\ [W!Next]_(W!vars) /\ [A!Next]_(A!vars)
  <2> SUFFICES ASSUME [AudioNext]_all
               PROVE  [Next]_vars /\ [W!Next]_(W!vars) /\ [A!Next]_(A!vars)
    OBVIOUS
  <2>1. UNCHANGED wav => UNCHANGED W!vars
    BY DEF wav, W!vars
  <2>2. UNCHANGED player => UNCHANGED A!vars
    BY DEF player, A!vars, A!player, A!position, A!codec
  <2>3. CASE ReadOnly /\ Next
    BY <2>1, <2>2, <2>3 DEF ReadOnly
  <2>4. CASE WavOnly /\ W!Next
    BY <2>2, <2>4 DEF WavOnly
  <2>5. CASE PlayerOnly /\ A!Next
    BY <2>1, <2>5 DEF PlayerOnly
  <2>6. CASE UNCHANGED all
    BY <2>1, <2>2, <2>6 DEF all
  <2> QED BY <2>3, <2>4, <2>5, <2>6 DEF AudioNext, WavEnded
<1> QED BY <1>1, <1>2, PTL DEF AudioSpec, Spec, W!Spec, A!Spec

(* A read that reports success has put exactly the sectors asked for at    *)
(* their places, for every size of sector, start and length                *)
(* (BlockReadFrom).                                                        *)
THEOREM ReadCorrect == AudioSpec => []ReadIsExact
<1>1. ReadInv => ReadIsExact
  BY DEF ReadInv
<1> QED BY <1>1, EachIsItself, ReadInvariant, PTL

(* BlockReadFrom writes nothing beyond the caller's buffer, and asks no    *)
(* driver for more than it can read at once or than its device has.        *)
THEOREM NothingElseTouched == AudioSpec => []NothingElse
<1>1. ReadInv => NothingElse
  BY DEF ReadInv, NothingElse
<1> QED BY <1>1, EachIsItself, ReadInvariant, PTL

(* The data WavParse finds lies in the file in whole frames, and it takes  *)
(* no part of a chunk's body for a header, whatever the headers claim.     *)
THEOREM DataIsInFile == AudioSpec => []DataInFile
<1>1. WalkInv => DataInFile
  BY WalkIsSound DEF DataInFile
<1> QED BY <1>1, EachIsItself, WalkInvariant, PTL

(* The variables keep their types, and what the player's driver believes   *)
(* of the ring is so: its count of the pages played is exact until it was  *)
(* away for a whole ring and never ahead, and it does not write the page   *)
(* the codec is in.                                                        *)
THEOREM AudioIsSound == AudioSpec => []StateSound
<1>1. ReadInv /\ WalkInv /\ A!StateSound => StateSound
  BY WalkIsSound DEF StateSound, ReadInv
<1>2. A!Spec => []A!StateSound
  BY RingIsSound, PlayerConstants
<1> QED BY <1>1, <1>2, EachIsItself, ReadInvariant, WalkInvariant, PTL

(* What is heard is the song, frame after frame, until the player falls    *)
(* behind, and a song is reported as finished only after all of it was     *)
(* played.                                                                 *)
THEOREM SongPlayedRight == AudioSpec => PlayedRight
<1>1. A!Spec => A!HeardInOrder /\ A!FinishedIsPlayed
  BY SongIsHeard, FinishedWasPlayed, PlayerConstants
<1>2. A!HeardInOrder /\ A!FinishedIsPlayed => PlayedRight
  BY DEF PlayedRight
<1> QED BY <1>1, <1>2, EachIsItself
==============================================================================
