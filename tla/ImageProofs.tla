---------------------------- MODULE ImageProofs ----------------------------
(***************************************************************************)
(* Proofs about Jpeg and JpegCruncher: the growing buffer for every size of *)
(* allocation and output, and the pixels read for every size of image; and  *)
(* about PreviewImage, which uses them: the level that is chosen, the bytes *)
(* that are taken for it out of any file, the pixels that are mixed and the *)
(* image that is put.                                                       *)
(***************************************************************************)
EXTENDS PreviewImage, SequenceTheorems, FiniteSetTheorems, WellFoundedInduction, TLAPS

-----------------------------------------------------------------------------
(* The buffer of the destination.                                           *)

Bytes == 0 .. MaxOutput

\* While libjpeg writes: the next byte goes behind those written, one at least is free.
Filling ==
  phase = "compressing" =>
    /\ Len(buffer) = size
    /\ free \in 1 .. Allocation
    /\ size = written + free /\ next = written + 1
    /\ \A k \in 1 .. written : buffer[k] = k

\* The place of libjpeg's next byte is in the buffer.
NextInBuffer == phase = "compressing" => next \in 1 .. Len(buffer)

Unwritten == phase \in {"empty", "raw", "failed"} => written = 0

IInv == JpegTypeOK /\ Unwritten /\ Filling /\ BufferHoldsOutput

LEMMA FreshType ==
  ASSUME NEW n \in Nat, MaxOutput \in Nat
  PROVE  Fresh(n) \in Seq(Bytes) /\ Len(Fresh(n)) = n
<1>1. Fresh(n) \in [1 .. n -> Bytes]
  BY DEF Fresh, Garbage, Bytes
<1>2. Fresh(n) \in Seq(Bytes)
  BY <1>1, SeqDef
<1> QED
  BY <1>1, <1>2

LEMMA InitIInv ==
  ASSUME JpegAssumption, JpegInit
  PROVE  IInv
<1>1. <<>> \in Seq(Bytes)
  OBVIOUS
<1> QED
  BY <1>1 DEF JpegAssumption, JpegInit, IInv, JpegTypeOK, Unwritten, Filling, BufferHoldsOutput, Bytes

LEMMA InitialiseIInv ==
  ASSUME JpegAssumption, IInv, InitialiseDestination
  PROVE  IInv'
<1>1. Fresh(Allocation) \in Seq(Bytes) /\ Len(Fresh(Allocation)) = Allocation
  BY FreshType DEF JpegAssumption
<1> QED
  BY <1>1 DEF JpegAssumption, InitialiseDestination, IInv, JpegTypeOK, Unwritten, Filling,
              BufferHoldsOutput, Bytes

LEMMA WriteByteIInv ==
  ASSUME JpegAssumption, IInv, WriteByte
  PROVE  IInv'
<1> DEFINE bytes == [buffer EXCEPT ![next] = written + 1]
<1>1. /\ phase = "compressing" /\ phase' = "compressing"
      /\ written \in Nat /\ written + 1 \in Bytes /\ written' = written + 1
      /\ size \in Nat /\ free \in 1 .. Allocation /\ Allocation \in Nat \ {0}
      /\ size = written + free /\ next = written + 1
      /\ buffer \in Seq(Bytes) /\ Len(buffer) = size
      /\ \A k \in 1 .. written : buffer[k] = k
  BY DEF JpegAssumption, WriteByte, IInv, JpegTypeOK, Filling, Bytes
<1>2. /\ bytes \in Seq(Bytes) /\ Len(bytes) = size
      /\ \A k \in 1 .. (written + 1) : bytes[k] = k
  <2>1. next \in 1 .. Len(buffer)
    BY <1>1
  <2>2. bytes \in Seq(Bytes) /\ Len(bytes) = size
    BY <1>1, <2>1, ExceptSeq
  <2>3. \A k \in 1 .. Len(buffer) : bytes[k] = IF k = next THEN written + 1 ELSE buffer[k]
    BY <1>1, <2>1, ExceptSeq
  <2> QED
    BY <1>1, <2>1, <2>2, <2>3
<1>3. CASE free = 1
  <2>1. /\ buffer' = bytes \o Fresh(Allocation) /\ size' = size + Allocation
        /\ next' = size + 1 /\ free' = Allocation
    BY <1>3 DEF WriteByte, Flushed
  <2>2. Fresh(Allocation) \in Seq(Bytes) /\ Len(Fresh(Allocation)) = Allocation
    BY <1>1, FreshType DEF JpegAssumption
  <2>3. /\ buffer' \in Seq(Bytes) /\ Len(buffer') = size + Allocation
        /\ \A k \in 1 .. size : buffer'[k] = bytes[k]
    <3> HIDE DEF bytes
    <3> DEFINE tail == Fresh(Allocation)
    <3>1. tail \in Seq(Bytes) /\ Len(tail) = Allocation
      BY <2>2
    <3> HIDE DEF tail
    <3>2. /\ bytes \o tail \in Seq(Bytes) /\ Len(bytes \o tail) = Len(bytes) + Len(tail)
          /\ \A k \in 1 .. Len(bytes) : (bytes \o tail)[k] = bytes[k]
      BY <1>2, <3>1
    <3>3. buffer' = bytes \o tail
      BY <2>1 DEF tail
    <3> QED
      BY <1>2, <3>1, <3>2, <3>3
  <2>4. Filling'
    BY <1>1, <1>2, <1>3, <2>1, <2>3 DEF Filling
  <2>5. JpegTypeOK'
    BY <1>1, <2>1, <2>3 DEF JpegTypeOK, Bytes
  <2> QED
    BY <1>1, <2>4, <2>5 DEF IInv, Unwritten, BufferHoldsOutput
<1>4. CASE free # 1
  <2>1. buffer' = bytes /\ next' = next + 1 /\ free' = free - 1 /\ size' = size
    BY <1>4 DEF WriteByte
  <2>2. Filling'
    BY <1>1, <1>2, <1>4, <2>1 DEF Filling
  <2>3. JpegTypeOK'
    BY <1>1, <1>2, <1>4, <2>1 DEF JpegTypeOK, Bytes
  <2> QED
    BY <1>1, <2>2, <2>3 DEF IInv, Unwritten, BufferHoldsOutput
<1> QED
  BY <1>3, <1>4

LEMMA TerminateIInv ==
  ASSUME JpegAssumption, IInv, TerminateDestination
  PROVE  IInv'
<1>1. /\ size \in Nat /\ free \in 1 .. Allocation /\ Allocation \in Nat \ {0}
      /\ size = written + free /\ written \in Nat /\ Len(buffer) = size
      /\ \A k \in 1 .. written : buffer[k] = k
  BY DEF JpegAssumption, TerminateDestination, IInv, JpegTypeOK, Filling
<1>2. /\ size' = written /\ phase' = "compressed"
      /\ UNCHANGED <<buffer, next, free, written>>
  BY <1>1 DEF TerminateDestination
<1>3. BufferHoldsOutput' /\ Filling'
  BY <1>1, <1>2 DEF BufferHoldsOutput, Filling
<1>4. JpegTypeOK'
  BY <1>1, <1>2 DEF IInv, JpegTypeOK
<1> QED
  BY <1>2, <1>3, <1>4 DEF IInv, Unwritten

LEMMA ReleaseIInv ==
  ASSUME JpegAssumption, IInv, Release
  PROVE  IInv'
<1>1. <<>> \in Seq(Bytes)
  OBVIOUS
<1> QED
  BY <1>1 DEF JpegAssumption, Release, IInv, JpegTypeOK, Unwritten, Filling, BufferHoldsOutput, Bytes

LEMMA OtherIInv ==
  ASSUME IInv,
         \/ CompressFails
         \/ \E width, height, components \in Nat : FromRawBytes(width, height, components)
         \/ UNCHANGED jpegVars
  PROVE  IInv'
<1>1. /\ UNCHANGED <<buffer, size, next, free, written>>
      /\ \/ phase' = phase
         \/ phase = "empty" /\ phase' \in {"raw", "failed", "empty"}
  BY DEF CompressFails, FromRawBytes, jpegVars
<1> QED
  BY <1>1 DEF IInv, JpegTypeOK, Unwritten, Filling, BufferHoldsOutput

LEMMA IInvHolds ==
  ASSUME JpegAssumption
  PROVE  JpegSpec => []IInv
<1>1. JpegInit => IInv
  BY InitIInv
<1>2. IInv /\ [JpegNext]_jpegVars => IInv'
  BY InitialiseIInv, WriteByteIInv, TerminateIInv, ReleaseIInv, OtherIInv
     DEF JpegNext, Compress
<1> QED
  BY <1>1, <1>2, PTL DEF JpegSpec

\* The indices and counters of the destination keep their type: none becomes
\* negative, and libjpeg's next byte always has a place in the buffer (flushOutputBuffer).
THEOREM JpegTypeCorrect ==
  ASSUME JpegAssumption
  PROVE  JpegSpec => [](JpegTypeOK /\ NextInBuffer)
<1>1. IInv => JpegTypeOK /\ NextInBuffer
  BY DEF JpegAssumption, IInv, JpegTypeOK, Filling, NextInBuffer
<1> QED
  BY <1>1, IInvHolds, PTL

\* For every size of allocation and of output compressedData() hands over exactly
\* what libjpeg wrote.
THEOREM BufferIsOutput ==
  ASSUME JpegAssumption
  PROVE  JpegSpec => []BufferHoldsOutput
<1>1. IInv => BufferHoldsOutput
  BY DEF IInv
<1> QED
  BY <1>1, IInvHolds, PTL

-----------------------------------------------------------------------------
(* The pixels that are read.                                                *)

LEMMA Quotient ==
  ASSUME NEW a \in Nat, NEW b \in Nat \ {0}
  PROVE  a \div b \in Nat /\ (a \div b) * b <= a
OBVIOUS

LEMMA TruncatedBelow ==
  ASSUME NEW a \in Nat, NEW b \in Nat \ {0}, NEW t \in Truncated(a, b)
  PROVE  t \in Nat /\ t <= a \div b
<1>1. a \div b \in Nat
  BY Quotient
<1> QED
  BY <1>1 DEF Truncated

\* The column left of the last one of the target, and the next, are in the source.
LEMMA QuotientBelow ==
  ASSUME NEW given \in Nat, given > 1, NEW wanted \in Nat \ {0},
         NEW x \in 0 .. wanted - 1
  PROVE  ((given - 1) * x) \div wanted + 1 <= given - 1
<1> DEFINE n == given - 1
           q == (n * x) \div wanted
<1>1. n \in Nat \ {0} /\ x \in Nat /\ x < wanted
  OBVIOUS
<1>2. n * x \in Nat /\ n * x < n * wanted
  BY <1>1
<1>3. q \in Nat /\ q * wanted <= n * x
  BY <1>2, Quotient
<1>4. q * wanted < n * wanted
  BY <1>1, <1>2, <1>3
<1>5. q < n
  <2> SUFFICES ASSUME q >= n PROVE FALSE
    BY <1>1, <1>3
  <2>1. q * wanted >= n * wanted
    BY <1>1, <1>3
  <2> QED
    BY <1>1, <1>3, <1>4, <2>1
<1> QED
  BY <1>1, <1>3, <1>5

LEMMA TapType ==
  ASSUME NEW given \in Nat, given > 1, NEW wanted \in Nat, NEW x \in 0 .. wanted - 1,
         NEW tap \in Tap(x, given, wanted)
  PROVE  tap \in Nat
<1>1. (given - 1) * x \in Nat /\ wanted \in Nat \ {0}
  OBVIOUS
<1> QED
  BY <1>1, TruncatedBelow DEF Tap

\* Along a side of two pixels or more rescaleBuffer() reads nothing past the end,
\* whether it reduces or enlarges, and however a whole number is rounded.
THEOREM TapsStayInside ==
  ASSUME NEW given \in Nat, given > 1, NEW wanted \in Nat
  PROVE  TapsInside(given, wanted)
<1> SUFFICES ASSUME NEW x \in 0 .. wanted - 1, NEW tap \in Tap(x, given, wanted)
             PROVE  0 <= tap /\ tap + 1 <= given - 1
  BY DEF TapsInside
<1>1. wanted \in Nat \ {0} /\ x \in Nat
  OBVIOUS
<1>2. CASE x = 0
  BY <1>2 DEF Tap
<1>3. CASE x # 0
  <2>1. tap \in Truncated((given - 1) * x, wanted)
    BY <1>3 DEF Tap
  <2>2. (given - 1) * x \in Nat
    BY <1>1
  <2>3. tap \in Nat /\ tap <= ((given - 1) * x) \div wanted
    BY <1>1, <2>1, <2>2, TruncatedBelow
  <2>4. ((given - 1) * x) \div wanted + 1 <= given - 1
    BY <1>1, QuotientBelow
  <2>5. ((given - 1) * x) \div wanted \in Nat
    BY <1>1, <2>2, Quotient
  <2> QED
    BY <2>3, <2>4, <2>5
<1> QED
  BY <1>2, <1>3

\* The three bytes of a pixel of three components or more are its own.
LEMMA PixelStaysInside ==
  ASSUME NEW width \in Nat, NEW height \in Nat, NEW components \in Nat, components >= 3,
         NEW x \in 0 .. width - 1, NEW y \in 0 .. height - 1
  PROVE  PixelInside(x, y, width, height, components)
<1> DEFINE first == y * width + x
           rest  == width - x
<1>1. x \in Nat /\ y \in Nat /\ y * width \in Nat /\ first \in Nat /\ rest \in Nat \ {0}
  OBVIOUS
<1>2. (y + 1) * width + 0 = first + rest
  <2>1. (y + 1) * width = y * width + width
    BY <1>1
  <2> QED
    BY <1>1, <2>1
<1> HIDE DEF first, rest
<1>3. (first + rest) * components = first * components + rest * components
  BY <1>1
<1>4. rest * components >= components /\ rest * components \in Nat /\ first * components \in Nat
  <2>1. rest - 1 \in Nat /\ rest = (rest - 1) + 1
    BY <1>1
  <2>2. ((rest - 1) + 1) * components = (rest - 1) * components + components
    BY <2>1
  <2>3. (rest - 1) * components \in Nat
    BY <2>1
  <2> QED
    BY <1>1, <2>1, <2>2, <2>3
<1>5. Index(x, y, width, components) = first * components
  BY DEF Index, first
<1>6. Index(0, y + 1, width, components) = (first + rest) * components
  BY <1>2 DEF Index
<1> QED
  BY <1>1, <1>3, <1>4, <1>5, <1>6 DEF PixelInside

\* So of an image of three components or more, two pixels or more each way, rescaleBuffer()
\* uses bytes of the source only, and writes bytes of the target only.
LEMMA BytesStayInside ==
  ASSUME NEW width \in Nat, NEW height \in Nat, width > 1, height > 1,
         NEW components \in Nat, components >= 3,
         NEW t, t[1] \in Nat, t[2] \in Nat
  PROVE  BytesInside(width, height, components, t)
<1> SUFFICES ASSUME NEW x \in 0 .. t[1] - 1, NEW y \in 0 .. t[2] - 1
             PROVE  /\ \A column \in Tap(x, width, t[1]), row \in Tap(y, height, t[2]),
                          right, below \in {0, 1} :
                         PixelInside(column + right, row + below, width, height, components)
                    /\ PixelInside(x, y, t[1], t[2], components)
  BY DEF BytesInside
<1>1. ASSUME NEW column \in Tap(x, width, t[1]), NEW row \in Tap(y, height, t[2]),
             NEW right \in {0, 1}, NEW below \in {0, 1}
      PROVE  PixelInside(column + right, row + below, width, height, components)
  <2>1. TapsInside(width, t[1]) /\ TapsInside(height, t[2])
    BY TapsStayInside
  <2>2. column \in Nat /\ row \in Nat
    BY TapType
  <2>3. column + 1 <= width - 1 /\ row + 1 <= height - 1
    BY <2>1 DEF TapsInside
  <2>4. column + right \in 0 .. width - 1 /\ row + below \in 0 .. height - 1
    BY <2>2, <2>3
  <2> QED
    BY <2>4, PixelStaysInside
<1>2. PixelInside(x, y, t[1], t[2], components)
  BY PixelStaysInside
<1> QED
  BY <1>1, <1>2

-----------------------------------------------------------------------------
(* The level.                                                               *)

\* The first position that SelectInSeq finds.
LEMMA Least ==
  ASSUME NEW S \in SUBSET Nat, S # {}
  PROVE  \E m \in S : \A k \in S : m <= k
<1> DEFINE R == OpToRel(<, Nat)
<1>1. IsWellFoundedOn(R, Nat)
  BY NatLessThanWellFounded
<1>2. \A x, y \in Nat : x < y => <<x, y>> \in R
  BY DEF OpToRel
<1> HIDE DEF R
<1>3. PICK x \in S : \A y \in S : <<y, x>> \notin R
  BY <1>1, WFMin
<1>4. ASSUME NEW y \in S PROVE x <= y
  <2>1. x \in Nat /\ y \in Nat /\ ~(y < x)
    BY <1>2, <1>3
  <2> QED
    BY <2>1
<1> QED
  BY <1>4

LEMMA MinIsLeast ==
  ASSUME NEW S \in SUBSET Nat, S # {}
  PROVE  Min(S) \in S /\ \A k \in S : Min(S) <= k
  BY Least DEF Min

Longer(k) == Longest < Dimension(k)

LEMMA ClosestIsLonger ==
  ASSUME closestLevelToDimension(Longest) # 0
  PROVE  \E first \in 1 .. Len(rows) :
           /\ closestLevelToDimension(Longest) = rows[first] /\ Longer(rows[first])
           /\ \A k \in 1 .. Len(rows) : Longer(rows[k]) => first <= k
<1> DEFINE I == {i \in 1 .. Len(rows) : Longest < Dimension(rows[i])}
           first == SelectInSeq(rows, LAMBDA k : Longest < Dimension(k))
<1>1. first = IF I # {} THEN Min(I) ELSE 0
  BY DEF SelectInSeq
<1>2. first # 0 /\ closestLevelToDimension(Longest) = rows[first]
  BY DEF closestLevelToDimension
<1>3. I # {} /\ first = Min(I)
  BY <1>1, <1>2
<1>4. I \subseteq Nat
  OBVIOUS
<1> HIDE DEF I
<1>5. first \in I /\ \A k \in I : first <= k
  BY <1>3, <1>4, MinIsLeast
<1> QED
  BY <1>2, <1>5 DEF I, Longer

-----------------------------------------------------------------------------
(* PreviewImage.                                                            *)

Decoded == (1 .. MaxSide) \X (1 .. MaxSide) \X Components

\* What a level, an image and its target are once they are known.
Listed == rows \in Seq(Nat)

Chosen ==
  pc = "header" =>
    \E first \in 1 .. Len(rows) :
      /\ level = rows[first] /\ Longer(level)
      /\ \A k \in 1 .. Len(rows) : Longer(rows[k]) => first <= k

Measured ==
  /\ pc \in {"scale", "encode", "put"} => source \in Decoded
  /\ pc \in {"encode", "put"} => target \in Targets(Longest, source[1], source[2])

\* The target of reencodeJpeg() is untouched until it is given pixels; without them
\* it gets no further than compress().
Refused == target[1] = 0 \/ target[2] = 0 \/ source[3] # 3
Encoding ==
  /\ pc \notin {"encode", "put", "failed"} => phase = "empty"
  /\ pc = "encode" => phase \in {"empty", "raw", "compressing"}
  /\ pc = "encode" /\ phase # "empty" => ~Refused
  /\ pc = "put" => phase = "compressed" /\ ~Refused
  /\ phase = "compressed" => written > 0

ImageInv == IInv /\ Measured /\ Encoding

LEMMA InitImage == ASSUME Init PROVE ImageInv
<1>1. IInv
  BY ImageAssumption, InitIInv DEF Init
<1> QED
  BY <1>1 DEF Init, JpegInit, ImageInv, Measured, Encoding

\* The steps before there is an image.
LEMMA QuietKeeps ==
  ASSUME ImageInv, UNCHANGED <<jpegVars, source, target>>,
         pc \notin {"encode", "put", "failed"}, pc' \notin {"scale", "encode", "put"}
  PROVE  ImageInv'
<1>1. IInv'
  BY OtherIInv DEF ImageInv
<1> QED
  BY <1>1 DEF ImageInv, Measured, Encoding, jpegVars

LEMMA WalkKeeps ==
  ASSUME ImageInv, Open \/ OpenFails \/ Choose \/ Extract
  PROVE  ImageInv'
<1>1. UNCHANGED <<jpegVars, source, target>>
  BY DEF Open, OpenFails, Choose, Extract, ReadHeader, SkipLevel, TakeLevel, LevelMissing, NoNumber
<1>2. pc \in {"open", "choose", "header", "walk"}
  BY DEF Open, OpenFails, Choose, Extract, ReadHeader, SkipLevel, TakeLevel, LevelMissing,
         NoNumber, Goto
<1>3. pc' \in {"choose", "failed", "header", "walk", "decode", "absent"}
  BY DEF Open, OpenFails, Choose, Extract, ReadHeader, SkipLevel, TakeLevel, LevelMissing,
         NoNumber, Goto
<1> QED
  BY <1>1, <1>2, <1>3, QuietKeeps

LEMMA ForgetKeeps == ASSUME ImageInv, Release, pc' = "open" PROVE ImageInv'
<1>1. IInv'
  BY ImageAssumption, ReleaseIInv DEF ImageInv
<1> QED
  BY <1>1 DEF ImageInv, Measured, Encoding, Release

LEMMA DecodeKeeps == ASSUME ImageInv, Decode PROVE ImageInv'
<1>1. IInv'
  BY OtherIInv DEF ImageInv, Decode
<1>2. source' \in Decoded /\ pc = "decode" /\ pc' = "scale" /\ UNCHANGED jpegVars
  BY DEF Decode, Goto, Decoded
<1> QED
  BY <1>1, <1>2 DEF ImageInv, Measured, Encoding, jpegVars

LEMMA ShortenedType ==
  ASSUME NEW short \in Nat \ {0}, NEW long \in Nat \ {0}, NEW t \in Shortened(Longest, short, long)
  PROVE  t \in Nat
<1>1. Longest * short \in Nat /\ Longest \in Nat
  BY ImageAssumption
<1> QED
  BY <1>1, TruncatedBelow DEF Shortened

LEMMA DecodedType == ASSUME NEW image \in Decoded 
  PROVE  image[1] \in Nat \ {0} /\ image[2] \in Nat \ {0} /\ image[3] \in Nat \ {0}
  BY ImageAssumption DEF Decoded, Components, MaxSide, Dimension

LEMMA TargetsType ==
  ASSUME NEW image \in Decoded, NEW t \in Targets(Longest, image[1], image[2])
  PROVE  t[1] \in Nat /\ t[2] \in Nat
<1>1. image[1] \in Nat \ {0} /\ image[2] \in Nat \ {0} /\ Longest \in Nat
  BY DecodedType, ImageAssumption
<1>2. CASE image[1] >= image[2]
  <2>1. t \in {Longest} \X Shortened(Longest, image[2], image[1])
    BY <1>2 DEF Targets
  <2> QED
    BY <1>1, <2>1, ShortenedType
<1>3. CASE ~(image[1] >= image[2])
  <2>1. t \in Shortened(Longest, image[1], image[2]) \X {Longest}
    BY <1>3 DEF Targets
  <2> QED
    BY <1>1, <2>1, ShortenedType
<1> QED
  BY <1>2, <1>3

LEMMA ScaleKeeps == ASSUME ImageInv, Scale PROVE ImageInv'
<1>1. source \in Decoded /\ source' = source /\ pc = "scale" /\ pc' = "encode"
  BY DEF ImageInv, Measured, Scale, Goto
<1>2. target' \in Targets(Longest, source[1], source[2]) /\ FromRawBytes(target'[1], target'[2], source[3])
  BY DEF Scale
<1>3. target'[1] \in Nat /\ target'[2] \in Nat /\ source[3] \in Nat
  BY <1>1, <1>2, TargetsType, DecodedType
<1>4. IInv'
  BY <1>2, <1>3, OtherIInv DEF ImageInv
<1>5. phase' \in {"empty", "raw"} /\ (phase' # "empty" => ~Refused')
  BY <1>1, <1>2, <1>3 DEF FromRawBytes, Refused
<1> QED
  BY <1>1, <1>2, <1>4, <1>5 DEF ImageInv, Measured, Encoding

LEMMA EncodeKeeps == ASSUME ImageInv, Encode PROVE ImageInv'
<1>1. pc = "encode" /\ UNCHANGED <<source, target>>
  BY DEF Encode
<1>2. IInv'
  BY ImageAssumption, InitialiseIInv, WriteByteIInv, TerminateIInv, OtherIInv
     DEF ImageInv, Encode, Compress
<1>3. /\ phase' \in {"failed", "compressing", "compressed"}
      /\ phase' # "failed" => phase # "empty"
      /\ phase' = "compressed" => written' > 0
  BY DEF Encode, Compress, CompressFails, InitialiseDestination, WriteByte, TerminateDestination
<1>4. pc' = IF phase' = "failed" THEN "failed" ELSE IF phase' = "compressed" THEN "put" ELSE "encode"
  BY DEF Encode
<1>5. Measured'
  BY <1>1, <1>4 DEF ImageInv, Measured
<1>6. Encoding'
  BY <1>1, <1>3, <1>4 DEF ImageInv, Encoding, Refused
<1> QED
  BY <1>2, <1>5, <1>6 DEF ImageInv

LEMMA ImageStep == ASSUME ImageInv, [Next]_vars PROVE ImageInv'
<1>1. CASE UNCHANGED vars
  <2>1. IInv'
    BY <1>1, OtherIInv DEF ImageInv, vars
  <2> QED
    BY <1>1, <2>1 DEF ImageInv, Measured, Encoding, Refused, vars, jpegVars
<1>2. CASE DecoderExits \/ Overruns \/ Done
  BY <1>2, ForgetKeeps DEF DecoderExits, Overruns, Done, Forget, Goto
<1> QED
  BY <1>1, <1>2, WalkKeeps, DecodeKeeps, ScaleKeeps, EncodeKeeps DEF Next

LEMMA ImageInvariance == Spec => []ImageInv
  BY InitImage, ImageStep, PTL DEF Spec

\* Of an image with one side of one pixel that is reduced, a side of the target is 0.
LEMMA ThinIsRefused ==
  ASSUME NEW long \in Nat, long > Longest, NEW t \in Shortened(Longest, 1, long)
  PROVE  t = 0
<1>1. Longest \in Nat \ {0} /\ Longest * 1 = Longest /\ long # 1
  BY ImageAssumption
<1>2. Longest \div long = 0
  BY <1>1
<1>3. t \in Truncated(Longest, long)
  BY <1>1 DEF Shortened
<1> QED
  BY <1>2, <1>3 DEF Truncated

LEMMA ThickSides ==
  ASSUME NEW image \in Decoded, NEW t \in Targets(Longest, image[1], image[2]),
         image[1] > Longest \/ image[2] > Longest \/ (image[1] > 1 /\ image[2] > 1),
         t[1] > 0, t[2] > 0
  PROVE  image[1] > 1 /\ image[2] > 1
<1>1. image[1] \in Nat \ {0} /\ image[2] \in Nat \ {0} /\ Longest \in Nat \ {0}
  BY DecodedType, ImageAssumption
<1>2. CASE image[1] = 1
  <2>1. image[2] > Longest /\ ~(image[1] >= image[2])
    BY <1>1, <1>2
  <2>2. t[1] \in Shortened(Longest, 1, image[2])
    BY <1>2, <2>1 DEF Targets
  <2> QED
    BY <1>1, <2>1, <2>2, ThinIsRefused
<1>3. CASE image[2] = 1
  <2>1. image[1] > Longest /\ image[1] >= image[2]
    BY <1>1, <1>3
  <2>2. t[2] \in Shortened(Longest, 1, image[1])
    BY <1>3, <2>1 DEF Targets
  <2> QED
    BY <1>1, <2>1, <2>2, ThinIsRefused
<1> QED
  BY <1>1, <1>2, <1>3

\* Whatever image of three components or more a file holds: when it is reduced, or
\* enlarged from two pixels or more each way, the bytes rescaleBuffer() uses are in the
\* source, in the rows they belong to, and those it writes in the target.
THEOREM ImageTapsAreInside == Spec => []TapsAreInside
<1>1. ASSUME ImageInv PROVE TapsAreInside
  <2> DEFINE wide == source[1]  high == source[2]  components == source[3]
  <2> SUFFICES ASSUME pc \in {"encode", "put"}, components >= 3,
                      wide > Longest \/ high > Longest \/ (wide > 1 /\ high > 1)
               PROVE  BytesInside(wide, high, components, target)
    BY DEF TapsAreInside
  <2>1. source \in Decoded /\ target \in Targets(Longest, wide, high)
    BY <1>1 DEF ImageInv, Measured
  <2>2. /\ wide \in Nat /\ high \in Nat /\ components \in Nat
        /\ target[1] \in Nat /\ target[2] \in Nat
    BY <2>1, DecodedType, TargetsType
  <2>3. CASE target[1] > 0 /\ target[2] > 0
    <3>1. wide > 1 /\ high > 1
      BY <2>1, <2>3, ThickSides
    <3> QED
      BY <2>2, <3>1, BytesStayInside
  <2>4. CASE target[1] = 0 \/ target[2] = 0
    <3>1. 0 .. target[1] - 1 = {} \/ 0 .. target[2] - 1 = {}
      BY <2>2, <2>4
    <3> QED
      BY <3>1 DEF BytesInside
  <2> QED
    BY <2>2, <2>3, <2>4
<1> QED
  BY <1>1, ImageInvariance, PTL

\* For every image and every size of buffer: what the request is given was compressed,
\* is not empty, and has two sides and three components (reencodeJpeg, fromRawBytes,
\* compress).
THEOREM ImagePutIsAnImage == Spec => []PutIsAnImage
<1>1. ASSUME ImageInv PROVE PutIsAnImage
  <2> SUFFICES ASSUME pc = "put"
               PROVE  /\ phase = "compressed" /\ size > 0
                      /\ target[1] > 0 /\ target[2] > 0 /\ source[3] = 3
    BY DEF PutIsAnImage
  <2>1. phase = "compressed" /\ ~Refused /\ written > 0
    BY <1>1 DEF ImageInv, Encoding
  <2>2. size = written
    BY <1>1, <2>1 DEF ImageInv, IInv, BufferHoldsOutput
  <2>3. target[1] \in Nat /\ target[2] \in Nat
    BY <1>1, TargetsType DEF ImageInv, Measured
  <2> QED
    BY <2>1, <2>2, <2>3 DEF Refused
<1> QED
  BY <1>1, ImageInvariance, PTL

LEMMA NoRows == <<>> \in Seq(Nat)
  OBVIOUS

LEMMA ListedStep == ASSUME Listed, [Next]_vars PROVE Listed'
<1>1. CASE Open
  <2>1. PICK n \in 1 .. MaxLevels : rows' \in SetToSeqs(1 .. n)
    BY <1>1 DEF Open
  <2>2. n \in Nat /\ Cardinality(1 .. n) = n
    BY <2>1, FS_Interval, ImageAssumption
  <2>3. rows' \in [1 .. n -> 1 .. n]
    BY <2>1, <2>2 DEF SetToSeqs
  <2>4. rows' \in [1 .. n -> Nat]
    BY <2>3
  <2> QED
    BY <2>2, <2>4, SeqDef DEF Listed
<1>2. CASE rows' \in {rows, <<>>}
  BY <1>2, NoRows DEF Listed
<1>3. ASSUME [Next]_vars, ~Open PROVE rows' \in {rows, <<>>}
  BY <1>3 DEF Next, vars, entryVars, OpenFails, Choose, Extract, ReadHeader, SkipLevel, TakeLevel,
     LevelMissing, NoNumber, Decode, DecoderExits, Scale, Overruns, Encode, Done, Forget
<1> QED
  BY <1>1, <1>2, <1>3

\* For any levels in any order: the one chosen is longer than wanted, and if they come
\* by size, it is the smallest of those (closestLevelToDimension).
THEOREM ImageLevelIsClosest == Spec => []LevelIsClosest
<1>1. Init => Listed /\ Chosen
  BY NoRows DEF Init, Chosen, Listed
<1>2. ASSUME Chosen, [Next]_vars PROVE Chosen'
  <2>1. CASE Choose /\ pc' = "header"
    <3>1. level' = closestLevelToDimension(Longest) /\ level' # 0 /\ rows' = rows
      BY <2>1 DEF Choose, Goto
    <3> QED
      BY <3>1, ClosestIsLonger DEF Chosen
  <2>2. CASE UNCHANGED vars
    BY <1>2, <2>2 DEF Chosen, vars, entryVars
  <2>3. CASE Next /\ ~(Choose /\ pc' = "header")
    BY <2>3 DEF Next, Open, OpenFails, Choose, Extract, ReadHeader, SkipLevel, TakeLevel,
       LevelMissing, NoNumber, Decode, DecoderExits, Scale, Overruns, Encode, Done, Forget, Goto, Chosen
  <2> QED
    BY <1>2, <2>1, <2>2, <2>3
<1>3. ASSUME Listed, Chosen PROVE LevelIsClosest
  <2> SUFFICES ASSUME pc = "header"
               PROVE  /\ Dimension(level) > Longest
                      /\ (\A k \in DOMAIN rows : rows[k] = k) =>
                           \A k \in DOMAIN rows : Dimension(k) > Longest => level <= k
    BY DEF LevelIsClosest
  <2>1. DOMAIN rows = 1 .. Len(rows)
    BY <1>3 DEF Listed
  <2> QED
    BY <1>3, <2>1, ImageAssumption DEF Chosen, Longer, Dimension
<1> QED
  BY <1>1, <1>2, <1>3, ListedStep, PTL DEF Spec

-----------------------------------------------------------------------------
(* The fields of a file.  A block is made of five parts and a file of blocks:  *)
(* where each of them lies follows from their lengths, whatever these are.    *)

\* What a field of a file is.
Field == {<<"fill">>} \cup {<<"word", n>> : n \in Nat}
         \cup {<<"name", x>> : x \in Nat \cup {"header"}}
         \cup {<<"image", k, i>> : k \in Nat, i \in Nat}

\* r is m places from s and behind them n from t.
Placed(r, s, t, m, n) ==
  /\ Len(r) = m + n
  /\ \A i \in 1 .. m : r[i] = s[i]
  /\ \A i \in 1 .. n : r[m + i] = t[i]

LEMMA PlacedWhere ==
  ASSUME NEW S, NEW s \in Seq(S), NEW t \in Seq(S), NEW m \in Nat, NEW n \in Nat,
         Len(s) = m, Len(t) = n
  PROVE  s \o t \in Seq(S) /\ Placed(s \o t, s, t, m, n)
<1>1. PICK r \in Seq(S) : r = s \o t
  BY ConcatProperties
<1>2. /\ Len(r) = m + n
      /\ \A i \in 1 .. m + n : r[i] = IF i <= m THEN s[i] ELSE t[i - m]
  BY <1>1, ConcatProperties
<1>3. \A i \in 1 .. m : r[i] = s[i]
  BY <1>2
<1>4. ASSUME NEW i \in 1 .. n PROVE r[m + i] = t[i]
  <2>1. m + i \in 1 .. m + n /\ ~(m + i <= m) /\ (m + i) - m = i
    OBVIOUS
  <2> QED
    BY <1>2, <2>1
<1> QED
  BY <1>1, <1>2, <1>3, <1>4 DEF Placed

LEMMA FillFields ==
  ASSUME NEW n \in Nat
  PROVE  L!Fill(n) \in Seq(Field) /\ Len(L!Fill(n)) = n
<1>1. L!Fill(n) \in [1 .. n -> Field]
  BY DEF L!Fill, Field
<1>2. L!Fill(n) \in Seq(Field)
  BY <1>1, SeqDef
<1> QED
  BY <1>1, <1>2

LEMMA ImageFields ==
  ASSUME NEW k \in Nat, NEW n \in Nat
  PROVE  /\ L!Image(k, n) \in Seq(Field) /\ Len(L!Image(k, n)) = n
         /\ \A i \in 1 .. n : L!Image(k, n)[i] = <<"image", k, i>>
<1>1. L!Image(k, n) \in [1 .. n -> Field]
  BY DEF L!Image, Field
<1>2. L!Image(k, n) \in Seq(Field)
  BY <1>1, SeqDef
<1>3. \A i \in 1 .. n : L!Image(k, n)[i] = <<"image", k, i>>
  BY DEF L!Image
<1> QED
  BY <1>1, <1>2, <1>3

\* b is a block of these words and this body.
Boxed(b, words, body, n, p) ==
  /\ Len(b) = 7 + n + p /\ b[4] = words[2] /\ b[6] = words[4] /\ b[7] = words[5]
  /\ \A i \in 1 .. n : b[7 + i] = body[i]

LEMMA BlockOf ==
  ASSUME NEW S, NEW mark \in Seq(S), NEW words \in Seq(S), NEW body \in Seq(S), NEW fill \in Seq(S),
         NEW n \in Nat, NEW p \in Nat, Len(mark) = 2, Len(words) = 5, Len(body) = n, Len(fill) = p
  PROVE  /\ mark \o words \o body \o fill \in Seq(S)
         /\ Boxed(mark \o words \o body \o fill, words, body, n, p)
<1> DEFINE h == mark \o words
           f == h \o body
           b == f \o fill
<1>0. 2 \in Nat /\ 5 \in Nat /\ 7 \in Nat /\ 7 + n \in Nat
  OBVIOUS
<1>1. h \in Seq(S) /\ Placed(h, mark, words, 2, 5)
  BY <1>0, PlacedWhere
<1> HIDE DEF h
<1>2. Len(h) = 7 /\ h[4] = words[2] /\ h[6] = words[4] /\ h[7] = words[5]
  BY <1>1 DEF Placed
<1>3. f \in Seq(S) /\ Placed(f, h, body, 7, n)
  BY <1>0, <1>1, <1>2, PlacedWhere
<1> HIDE DEF f
<1>4. /\ Len(f) = 7 + n /\ f[4] = words[2] /\ f[6] = words[4] /\ f[7] = words[5]
      /\ \A i \in 1 .. n : f[7 + i] = body[i]
  BY <1>2, <1>3 DEF Placed
<1>5. b \in Seq(S) /\ Placed(b, f, fill, 7 + n, p)
  BY <1>0, <1>3, <1>4, PlacedWhere
<1> HIDE DEF b
<1>6. /\ Len(b) = 7 + n + p /\ b[4] = words[2] /\ b[6] = words[4] /\ b[7] = words[5]
      /\ \A i \in 1 .. n : b[7 + i] = body[i]
  BY <1>4, <1>5 DEF Placed
<1> QED
  BY <1>5, <1>6 DEF b, f, h, Boxed
LEMMA WordsFields ==
  ASSUME NEW name \in Nat \cup {"header"}, NEW n \in Nat, NEW pad \in Nat
  PROVE  LET words == <<L!Word(0), L!Word(n), L!Word(0), L!Word(pad), <<"name", name>>>>
         IN  /\ words \in Seq(Field) /\ Len(words) = 5
             /\ words[2] = <<"word", n>> /\ words[4] = <<"word", pad>> /\ words[5] = <<"name", name>>
<1>1. /\ <<"word", 0>> \in Field /\ <<"word", n>> \in Field /\ <<"word", pad>> \in Field
      /\ <<"name", name>> \in Field
  BY DEF Field
<1> QED
  BY <1>1 DEF L!Word

\* A block has a name, n fields and padding.
Blocked(b, name, n, body, pad) ==
  /\ Len(b) = 7 + n + pad
  /\ b[4] = <<"word", n>> /\ b[6] = <<"word", pad>> /\ b[7] = <<"name", name>>
  /\ \A i \in 1 .. n : b[7 + i] = body[i]

LEMMA BlockFields ==
  ASSUME NEW name \in Nat \cup {"header"}, NEW n \in Nat, NEW body \in Seq(Field), Len(body) = n,
         NEW pad \in Nat
  PROVE  L!Block(name, body, pad) \in Seq(Field) /\ Blocked(L!Block(name, body, pad), name, n, body, pad)
<1> DEFINE words == <<L!Word(0), L!Word(n), L!Word(0), L!Word(pad), <<"name", name>>>>
           mark  == L!Fill(2)
           fill  == L!Fill(pad)
           block == mark \o words \o body \o fill
<1>1. block = L!Block(name, body, pad)
  BY DEF L!Block
<1>2. words \in Seq(Field) /\ Len(words) = 5
  BY WordsFields
<1>3. words[2] = <<"word", n>> /\ words[4] = <<"word", pad>> /\ words[5] = <<"name", name>>
  BY WordsFields
<1>4. mark \in Seq(Field) /\ Len(mark) = 2 /\ fill \in Seq(Field) /\ Len(fill) = pad
  BY FillFields
<1> HIDE DEF words, mark, fill
<1>5. block \in Seq(Field) /\ Boxed(block, words, body, n, pad)
  BY <1>2, <1>4, BlockOf
<1> HIDE DEF block
<1> QED
  BY <1>1, <1>3, <1>5 DEF Boxed, Blocked

\* f[i] is the first i of the sequences, one after the other (FlattenSeq's helper).
Joined(seqs, f) ==
  \A i \in 1 .. Len(seqs) : f[i] = IF i = 1 THEN seqs[i] ELSE f[i - 1] \o seqs[i]

LEMMA JoinExists ==
  ASSUME NEW S, NEW seqs \in Seq(Seq(S))
  PROVE  \E f \in [1 .. Len(seqs) -> Seq(S)] : Joined(seqs, f)
<1> DEFINE T == Seq(S)
           n == Len(seqs)
           Good(k, f) == \A i \in 1 .. k : f[i] = IF i = 1 THEN seqs[i] ELSE f[i - 1] \o seqs[i]
           Bad == {k \in 0 .. n : \A f \in [1 .. n -> T] : ~Good(k, f)}
<1>1. n \in Nat /\ \A i \in 1 .. n : seqs[i] \in T
  BY LenProperties, ElementOfSeq
<1>2. \A s \in T, t \in T : s \o t \in T
  BY ConcatProperties
<1>3. <<>> \in T
  OBVIOUS
<1> HIDE DEF n, T
<1>4. 0 \notin Bad
  <2>1. [i \in 1 .. n |-> <<>>] \in [1 .. n -> T]
    BY <1>3
  <2>2. Good(0, [i \in 1 .. n |-> <<>>])
    OBVIOUS
  <2> QED
    BY <2>1, <2>2
<1>5. ASSUME NEW m \in Bad, \A k \in Bad : m <= k PROVE FALSE
  <2>1. m \in 1 .. n /\ m - 1 \in 0 .. n
    BY <1>1, <1>4
  <2> HIDE DEF Bad
  <2>2. m - 1 \notin Bad
    BY <1>5, <2>1
  <2>3. PICK f \in [1 .. n -> T] : Good(m - 1, f)
    BY <2>1, <2>2 DEF Bad
  <2> DEFINE last == IF m = 1 THEN seqs[m] ELSE f[m - 1] \o seqs[m]
             g    == [f EXCEPT ![m] = last]
  <2>4. last \in T
    <3>1. CASE m = 1
      BY <1>1, <2>1, <3>1
    <3>2. CASE m # 1
      <4>1. f[m - 1] \in T /\ seqs[m] \in T
        BY <1>1, <2>1, <3>2
      <4> QED
        BY <1>2, <3>2, <4>1
    <3> QED
      BY <3>1, <3>2
  <2> HIDE DEF last
  <2>5. g \in [1 .. n -> T] /\ g[m] = last /\ \A i \in 1 .. n : i # m => g[i] = f[i]
    BY <2>1, <2>4
  <2> HIDE DEF g
  <2>6. ASSUME NEW i \in 1 .. m PROVE g[i] = IF i = 1 THEN seqs[i] ELSE g[i - 1] \o seqs[i]
    <3>1. CASE i = m
      <4>1. i # 1 => g[i - 1] = f[i - 1]
        BY <1>1, <2>1, <2>5, <3>1
      <4> QED
        BY <2>5, <3>1, <4>1 DEF last
    <3>2. CASE i # m
      <4>1. i \in 1 .. m - 1
        BY <2>1, <3>2
      <4>2. f[i] = IF i = 1 THEN seqs[i] ELSE f[i - 1] \o seqs[i]
        BY <2>3, <4>1
      <4>3. g[i] = f[i] /\ (i # 1 => g[i - 1] = f[i - 1])
        BY <1>1, <2>1, <2>5, <4>1
      <4> QED
        BY <4>2, <4>3
    <3> QED
      BY <3>1, <3>2
  <2>7. Good(m, g)
    BY <2>6
  <2> QED
    BY <2>5, <2>7 DEF Bad
<1>6. Bad = {}
  <2>1. Bad \in SUBSET Nat
    BY <1>1
  <2> HIDE DEF Bad
  <2> QED
    BY <1>5, <2>1, Least
<1>7. n \notin Bad
  BY <1>6
<1> QED
  BY <1>1, <1>7 DEF Joined, n, T

LEMMA FlattenIsJoined ==
  ASSUME NEW S, NEW seqs \in Seq(Seq(S)), seqs # <<>>
  PROVE  \E f \in [1 .. Len(seqs) -> Seq(S)] : Joined(seqs, f) /\ FlattenSeq(seqs) = f[Len(seqs)]
<1> DEFINE n == Len(seqs)
           flatten == CHOOSE h : h = [i \in 1 .. n |-> IF i = 1 THEN seqs[i] ELSE h[i - 1] \o seqs[i]]
<1>1. PICK f \in [1 .. n -> Seq(S)] : Joined(seqs, f)
  BY JoinExists
<1>2. f = [i \in 1 .. n |-> IF i = 1 THEN seqs[i] ELSE f[i - 1] \o seqs[i]]
  BY <1>1 DEF Joined
<1>3. flatten = [i \in 1 .. n |-> IF i = 1 THEN seqs[i] ELSE flatten[i - 1] \o seqs[i]]
  BY <1>2
<1>4. n \in Nat /\ n # 0
  OBVIOUS
<1>5. FlattenSeq(seqs) = flatten[n]
  BY <1>4 DEF FlattenSeq
<1> HIDE DEF flatten
<1>6. \A i \in 1 .. n : flatten[i] = IF i = 1 THEN seqs[i] ELSE flatten[i - 1] \o seqs[i]
  BY <1>3
<1> DEFINE Differ == {i \in 1 .. n : flatten[i] # f[i]}
<1>7. ASSUME NEW m \in Differ, \A k \in Differ : m <= k PROVE FALSE
  <2>1. m = 1 \/ (m - 1 \in 1 .. n /\ m - 1 \notin Differ)
    BY <1>4, <1>7
  <2>2. m = 1 \/ flatten[m - 1] = f[m - 1]
    BY <2>1
  <2>3. flatten[m] = IF m = 1 THEN seqs[m] ELSE flatten[m - 1] \o seqs[m]
    BY <1>6
  <2>4. f[m] = IF m = 1 THEN seqs[m] ELSE f[m - 1] \o seqs[m]
    BY <1>1 DEF Joined
  <2> QED
    BY <2>2, <2>3, <2>4
<1>8. Differ = {}
  <2>1. Differ \in SUBSET Nat
    BY <1>4
  <2> HIDE DEF Differ
  <2> QED
    BY <1>7, <2>1, Least
<1> QED
  BY <1>1, <1>4, <1>5, <1>8


\* In r the k-th of the sequences ends at e[k].
Lined(r, seqs, e) ==
  /\ e[0] = 0 /\ e[Len(seqs)] = Len(r)
  /\ \A k \in 1 .. Len(seqs) :
       /\ e[k] = e[k - 1] + Len(seqs[k])
       /\ \A i \in 1 .. Len(seqs[k]) : r[e[k - 1] + i] = seqs[k][i]

LEMMA PartsLie ==
  ASSUME NEW S, NEW seqs \in Seq(Seq(S)), seqs # <<>>
  PROVE  /\ FlattenSeq(seqs) \in Seq(S)
         /\ \E e \in [0 .. Len(seqs) -> Nat] : Lined(FlattenSeq(seqs), seqs, e)
<1> DEFINE n == Len(seqs)
           T == Seq(S)
<1>1. PICK f \in [1 .. n -> T] : Joined(seqs, f) /\ FlattenSeq(seqs) = f[n]
  BY FlattenIsJoined
<1> DEFINE e == [k \in 0 .. n |-> IF k = 0 THEN 0 ELSE Len(f[k])]
           l(k) == Len(seqs[k])
<1>2. n \in Nat \ {0}
  OBVIOUS
<1>3. ASSUME NEW k \in 1 .. n
      PROVE  f[k] \in T /\ seqs[k] \in T /\ e[k] = Len(f[k]) /\ e[k] \in Nat /\ l(k) \in Nat
  <2>1. f[k] \in T /\ seqs[k] \in T
    BY <1>1, ElementOfSeq
  <2>2. Len(f[k]) \in Nat /\ Len(seqs[k]) \in Nat
    BY <2>1, LenProperties
  <2>3. e[k] = Len(f[k])
    BY <1>2
  <2> QED
    BY <2>1, <2>2, <2>3
<1>4. e[0] = 0 /\ DOMAIN e = 0 .. n /\ e \in [0 .. n -> Nat]
  <2>1. e[0] = 0
    BY <1>2
  <2>2. \A k \in 0 .. n : e[k] \in Nat
    BY <1>2, <1>3, <2>1
  <2> QED
    BY <2>1, <2>2
<1> HIDE DEF n, T, e, l
<1>5. f[1] = seqs[1] /\ e[1] = e[0] + l(1)
  <2>1. 1 \in 1 .. n
    BY <1>2
  <2>2. f[1] = seqs[1]
    BY <1>1, <2>1 DEF Joined, n
  <2> QED
    BY <1>3, <1>4, <2>1, <2>2 DEF l
<1>6. ASSUME NEW k \in 2 .. n
      PROVE  Placed(f[k], f[k - 1], seqs[k], e[k - 1], l(k)) /\ e[k] = e[k - 1] + l(k)
  <2>1. k \in 1 .. n /\ k - 1 \in 1 .. n /\ k # 1
    BY <1>2
  <2>2. f[k] = f[k - 1] \o seqs[k]
    BY <1>1, <2>1 DEF Joined, n
  <2>3. /\ f[k - 1] \in T /\ seqs[k] \in T /\ e[k - 1] \in Nat /\ e[k - 1] = Len(f[k - 1])
        /\ e[k] = Len(f[k])
    BY <1>3, <2>1
  <2>4. l(k) \in Nat /\ l(k) = Len(seqs[k])
    BY <1>3, <2>1 DEF l
  <2>5. Placed(f[k], f[k - 1], seqs[k], e[k - 1], l(k))
    BY <2>2, <2>3, <2>4, PlacedWhere DEF T
  <2> QED
    BY <2>3, <2>5 DEF Placed
<1>7. ASSUME NEW k \in 1 .. n PROVE e[k] = e[k - 1] + l(k) /\ k - 1 \in 0 .. n /\ e[k - 1] \in Nat
  BY <1>2, <1>4, <1>5, <1>6
<1> DEFINE Lies(j) == \A k \in 1 .. j : e[k] <= e[j] /\ \A i \in 1 .. l(k) : f[j][e[k - 1] + i] = seqs[k][i]
           Bad == {j \in 1 .. n : ~Lies(j)}
<1>8. Lies(1)
  <2> SUFFICES ASSUME NEW k \in 1 .. 1
               PROVE  e[k] <= e[1] /\ \A i \in 1 .. l(k) : f[1][e[k - 1] + i] = seqs[k][i]
    OBVIOUS
  <2>1. k = 1 /\ 1 \in 1 .. n
    BY <1>2
  <2>2. e[1] \in Nat /\ l(1) \in Nat
    BY <1>3, <2>1
  <2> QED
    BY <1>4, <1>5, <2>1, <2>2
<1>9. ASSUME NEW j \in 2 .. n, Lies(j - 1) PROVE Lies(j)
  <2> SUFFICES ASSUME NEW k \in 1 .. j
               PROVE  e[k] <= e[j] /\ \A i \in 1 .. l(k) : f[j][e[k - 1] + i] = seqs[k][i]
    OBVIOUS
  <2> DEFINE m == e[j - 1]
  <2>1. Placed(f[j], f[j - 1], seqs[j], m, l(j)) /\ e[j] = m + l(j)
    BY <1>6
  <2>2. m \in Nat /\ l(j) \in Nat
    <3>1. j \in 1 .. n /\ j - 1 \in 1 .. n
      BY <1>2
    <3> QED
      BY <1>3, <3>1
  <2> HIDE DEF m
  <2>3. CASE k = j
    <3>1. \A i \in 1 .. l(j) : f[j][m + i] = seqs[j][i]
      BY <2>1 DEF Placed
    <3> QED
      BY <2>1, <2>2, <2>3, <3>1 DEF m
  <2>4. CASE k # j
    <3>1. k \in 1 .. j - 1 /\ k \in 1 .. n
      BY <1>2, <2>4
    <3>2. e[k] <= m /\ \A i \in 1 .. l(k) : f[j - 1][e[k - 1] + i] = seqs[k][i]
      BY <1>9, <3>1 DEF m
    <3> DEFINE p == e[k - 1]
    <3>3. e[k] = p + l(k) /\ p \in Nat /\ l(k) \in Nat /\ e[k] \in Nat
      BY <1>3, <1>7, <3>1
    <3> HIDE DEF p
    <3>4. ASSUME NEW i \in 1 .. l(k) PROVE f[j][p + i] = f[j - 1][p + i]
      <4>1. p + i \in 1 .. m
        BY <2>2, <3>2, <3>3
      <4> QED
        BY <2>1, <4>1 DEF Placed
    <3>5. e[k] <= e[j]
      BY <2>1, <2>2, <3>2, <3>3
    <3> QED
      BY <3>2, <3>4, <3>5 DEF p
  <2> QED
    BY <2>3, <2>4
<1>10. ASSUME NEW j \in Bad, \A k \in Bad : j <= k PROVE FALSE
  <2>1. j \in 1 .. n /\ ~Lies(j)
    OBVIOUS
  <2>2. j # 1
    BY <1>8, <2>1
  <2>3. j \in 2 .. n /\ j - 1 \in 1 .. n /\ ~(j <= j - 1)
    BY <1>2, <2>1, <2>2
  <2>4. ~Lies(j - 1)
    BY <1>9, <2>1, <2>3
  <2> HIDE DEF Lies
  <2>5. j - 1 \in Bad
    BY <2>3, <2>4
  <2> HIDE DEF Bad
  <2> QED
    BY <1>10, <2>3, <2>5
<1>11. Lies(n)
  <2>1. Bad \in SUBSET Nat
    OBVIOUS
  <2> HIDE DEF Lies
  <2>2. n \in 1 .. n
    BY <1>2
  <2>3. Lies(n) \/ n \in Bad
    BY <2>2
  <2> HIDE DEF Bad
  <2> QED
    BY <1>10, <2>1, <2>3, Least
<1>12. f[n] \in T /\ e[n] = Len(f[n])
  BY <1>2, <1>3
<1>13. \A k \in 1 .. n : \A i \in 1 .. l(k) : f[n][e[k - 1] + i] = seqs[k][i]
  BY <1>11
<1> HIDE DEF Lies
<1> QED
  BY <1>1, <1>4, <1>7, <1>12, <1>13 DEF n, T, l, Lined

Block == [size : Nat, pad : Nat]
Parts(b) == <<L!Block("header", L!Fill(1), 1)>>
            \o [k \in 1 .. Len(b) |-> L!Block(k, L!Image(k, b[k].size), b[k].pad)]

\* A block at a place of the file: its words, its name and its body.
BlockAt(c, place, n, pad, name) ==
  c[place + 4] = <<"word", n>> /\ c[place + 6] = <<"word", pad>> /\ c[place + 7] = <<"name", name>>

\* e[k] is where level k ends; e[0] where the JSON does.
Laid(b, e, c) ==
  /\ c \in Seq(Field) /\ Len(c) = e[Len(b)]
  /\ e[0] = 9 /\ BlockAt(c, 0, 1, 1, "header")
  /\ \A k \in 1 .. Len(b) :
       /\ e[k] = e[k - 1] + 7 + b[k].size + b[k].pad
       /\ BlockAt(c, e[k - 1], b[k].size, b[k].pad, k)
       /\ \A i \in 1 .. b[k].size : c[e[k - 1] + 7 + i] = <<"image", k, i>>

LEMMA PartsType ==
  ASSUME NEW b \in Seq(Block)
  PROVE  /\ Parts(b) \in Seq(Seq(Field)) /\ Len(Parts(b)) = 1 + Len(b) /\ Len(b) \in Nat
         /\ Parts(b)[1] = L!Block("header", L!Fill(1), 1)
         /\ \A k \in 1 .. Len(b) :
              Parts(b)[1 + k] = L!Block(k, L!Image(k, b[k].size), b[k].pad)
<1> DEFINE n == Len(b)
           T == Seq(Field)
           json == L!Block("header", L!Fill(1), 1)
           levels == [k \in 1 .. n |-> L!Block(k, L!Image(k, b[k].size), b[k].pad)]
           one == <<json>>
<1>1. n \in Nat /\ \A k \in 1 .. n : b[k] \in Block
  BY LenProperties, ElementOfSeq
<1>2. json \in T
  <2>1. 1 \in Nat /\ "header" \in Nat \cup {"header"} /\ L!Fill(1) \in Seq(Field) /\ Len(L!Fill(1)) = 1
    BY FillFields
  <2> QED
    BY <2>1, BlockFields
<1>3. ASSUME NEW k \in 1 .. n PROVE L!Block(k, L!Image(k, b[k].size), b[k].pad) \in T
  <2>1. k \in Nat /\ b[k].size \in Nat /\ b[k].pad \in Nat
    BY <1>1 DEF Block
  <2>2. L!Image(k, b[k].size) \in Seq(Field) /\ Len(L!Image(k, b[k].size)) = b[k].size
    BY <2>1, ImageFields
  <2> QED
    BY <2>1, <2>2, BlockFields
<1>4. levels \in Seq(T) /\ Len(levels) = n
  <2>1. levels \in [1 .. n -> T]
    BY <1>3
  <2>2. levels \in Seq(T)
    BY <1>1, <2>1, SeqDef
  <2> QED
    BY <1>1, <2>2
<1>5. \A k \in 1 .. n : levels[k] = L!Block(k, L!Image(k, b[k].size), b[k].pad)
  OBVIOUS
<1>6. Parts(b) = one \o levels
  BY DEF Parts
<1>7. one \in Seq(T) /\ Len(one) = 1 /\ one[1] = json
  <2> HIDE DEF json, T
  <2> QED
    BY <1>2
<1> HIDE DEF levels, one, json, T, n
<1>8. Parts(b) \in Seq(T) /\ Placed(Parts(b), one, levels, 1, n)
  <2>1. 1 \in Nat
    OBVIOUS
  <2>2. one \in Seq(T) /\ Len(one) = 1
    BY <1>7
  <2>3. one \o levels \in Seq(T) /\ Placed(one \o levels, one, levels, 1, n)
    BY <1>1, <1>4, <2>1, <2>2, PlacedWhere
  <2> QED
    BY <1>6, <2>3
<1>9. Parts(b) \in Seq(T) /\ Len(Parts(b)) = 1 + n /\ Parts(b)[1] = json
  BY <1>7, <1>8 DEF Placed
<1>10. \A k \in 1 .. n : Parts(b)[1 + k] = levels[k]
  BY <1>8 DEF Placed
<1> QED
  BY <1>1, <1>5, <1>9, <1>10 DEF json, T, n

LEMMA Layout ==
  ASSUME NEW b \in Seq(Block)
  PROVE  \E e \in [0 .. Len(b) -> Nat] : Laid(b, e, L!Contents(Json, b))
<1> DEFINE n == Len(b)
           parts == Parts(b)
           c == L!Contents(Json, b)
<1>1. c = FlattenSeq(parts)
  <2> DEFINE levels == [k \in 1 .. Len(b) |-> L!Block(k, L!Image(k, b[k].size), b[k].pad)]
  <2>1. Json.size = 1 /\ Json.pad = 1
    BY DEF Json
  <2>2. c = L!FlattenSeq(<<L!Block("header", L!Fill(Json.size), Json.pad)>> \o levels)
    BY DEF L!Contents
  <2> HIDE DEF levels, c
  <2>3. c = L!FlattenSeq(<<L!Block("header", L!Fill(1), 1)>> \o levels)
    BY <2>1, <2>2
  <2>4. c = L!FlattenSeq(parts)
    BY <2>3 DEF Parts, levels
  <2> QED
    BY <2>4 DEF FlattenSeq, L!FlattenSeq
<1>2. parts \in Seq(Seq(Field)) /\ Len(parts) = 1 + n /\ n \in Nat
  BY PartsType
<1>3. /\ parts[1] = L!Block("header", L!Fill(1), 1)
      /\ \A k \in 1 .. n : parts[1 + k] = L!Block(k, L!Image(k, b[k].size), b[k].pad)
  BY PartsType
<1> HIDE DEF parts, n, c
<1>4. parts # <<>>
  BY <1>2
<1>5. PICK d \in [0 .. 1 + n -> Nat] :
        /\ c \in Seq(Field) /\ d[0] = 0 /\ d[1 + n] = Len(c)
        /\ \A k \in 1 .. 1 + n :
             /\ d[k] = d[k - 1] + Len(parts[k])
             /\ \A i \in 1 .. Len(parts[k]) : c[d[k - 1] + i] = parts[k][i]
  <2>1. c \in Seq(Field)
    BY <1>1, <1>2, <1>4, PartsLie
  <2>2. PICK d \in [0 .. Len(parts) -> Nat] : Lined(c, parts, d)
    BY <1>1, <1>2, <1>4, PartsLie
  <2>3. d \in [0 .. 1 + n -> Nat]
    BY <1>2, <2>2
  <2>4. Lined(c, parts, d) /\ Len(parts) = 1 + n
    BY <1>2, <2>2
  <2>5. /\ d[0] = 0 /\ d[1 + n] = Len(c)
        /\ \A k \in 1 .. 1 + n :
             /\ d[k] = d[k - 1] + Len(parts[k])
             /\ \A i \in 1 .. Len(parts[k]) : c[d[k - 1] + i] = parts[k][i]
    BY <2>4, Zenon DEF Lined
  <2> QED
    BY <2>1, <2>3, <2>5
<1> DEFINE e == [k \in 0 .. n |-> d[1 + k]]
<1>6. e \in [0 .. n -> Nat] /\ \A k \in 0 .. n : e[k] = d[1 + k]
  BY <1>2
<1> HIDE DEF e
<1>7. e[n] = Len(c) /\ e[0] = d[1]
  BY <1>2, <1>5, <1>6
<1>8. e[0] = 9 /\ BlockAt(c, 0, 1, 1, "header")
  <2> DEFINE json == L!Block("header", L!Fill(1), 1)
  <2>1. L!Fill(1) \in Seq(Field) /\ Len(L!Fill(1)) = 1
    BY FillFields
  <2>2. 1 \in Nat /\ "header" \in Nat \cup {"header"}
    OBVIOUS
  <2>3. Blocked(json, "header", 1, L!Fill(1), 1)
    BY <2>1, <2>2, BlockFields
  <2> HIDE DEF json
  <2>9. /\ Len(json) = 7 + 1 + 1
        /\ json[4] = <<"word", 1>> /\ json[6] = <<"word", 1>> /\ json[7] = <<"name", "header">>
    BY <2>3 DEF Blocked
  <2>4. parts[1] = json
    BY <1>3 DEF json
  <2>5. d[1] = d[0] + Len(json) /\ \A i \in 1 .. Len(json) : c[d[0] + i] = json[i]
    <3>1. 1 \in 1 .. 1 + n /\ 1 - 1 = 0
      BY <1>2
    <3> QED
      BY <1>5, <2>4, <3>1
  <2>6. Len(json) = 9
    BY <2>9
  <2>7. \A i \in 1 .. 9 : c[0 + i] = json[i]
    BY <1>5, <2>5, <2>6
  <2>8. c[0 + 4] = json[4] /\ c[0 + 6] = json[6] /\ c[0 + 7] = json[7]
    BY <2>7
  <2> QED
    BY <1>5, <1>7, <2>5, <2>6, <2>8, <2>9 DEF BlockAt
<1>9. ASSUME NEW k \in 1 .. n
      PROVE  /\ e[k] = e[k - 1] + 7 + b[k].size + b[k].pad
             /\ BlockAt(c, e[k - 1], b[k].size, b[k].pad, k)
             /\ \A i \in 1 .. b[k].size : c[e[k - 1] + 7 + i] = <<"image", k, i>>
  <2> DEFINE many == b[k].size
             gap == b[k].pad
             shown == L!Image(k, many)
             box == L!Block(k, shown, gap)
             place == e[k - 1]
  <2>1. b[k] \in Block /\ k \in Nat
    BY ElementOfSeq DEF n
  <2>2. many \in Nat /\ gap \in Nat
    BY <2>1 DEF Block
  <2>3. shown \in Seq(Field) /\ Len(shown) = many /\ \A i \in 1 .. many : shown[i] = <<"image", k, i>>
    BY <2>1, <2>2, ImageFields
  <2> HIDE DEF many, gap
  <2>4. box = parts[1 + k]
    BY <1>3 DEF many, gap
  <2> HIDE DEF shown
  <2>5. k \in Nat \cup {"header"}
    BY <2>1
  <2>6. Blocked(box, k, many, shown, gap)
    BY <2>2, <2>3, <2>5, BlockFields
  <2> HIDE DEF box
  <2>7. Len(box) = 7 + many + gap /\ \A i \in 1 .. many : box[7 + i] = shown[i]
    BY <2>6 DEF Blocked
  <2>8. box[4] = <<"word", many>> /\ box[6] = <<"word", gap>> /\ box[7] = <<"name", k>>
    BY <2>6 DEF Blocked
  <2>9. place = d[k] /\ e[k] = d[1 + k] /\ place \in Nat
    <3>1. k - 1 \in 0 .. n /\ k \in 0 .. n /\ 1 + (k - 1) = k
      BY <1>2
    <3> QED
      BY <1>6, <3>1
  <2>10. d[1 + k] = d[k] + Len(box) /\ \A i \in 1 .. Len(box) : c[d[k] + i] = box[i]
    <3>1. 1 + k \in 1 .. 1 + n /\ (1 + k) - 1 = k
      BY <1>2
    <3> QED
      BY <1>5, <2>4, <3>1
  <2> HIDE DEF place
  <2>11. e[k] = place + (7 + many + gap) /\ \A i \in 1 .. (7 + many + gap) : c[place + i] = box[i]
    BY <2>7, <2>9, <2>10
  <2>12. c[place + 4] = box[4] /\ c[place + 6] = box[6] /\ c[place + 7] = box[7]
    BY <2>2, <2>11
  <2>13. ASSUME NEW i \in 1 .. many PROVE c[place + 7 + i] = <<"image", k, i>>
    <3>1. 7 + i \in 1 .. (7 + many + gap) /\ place + (7 + i) = place + 7 + i
      <4>1. place \in Nat
        BY <2>9
      <4> QED
        BY <2>2, <4>1
    <3>2. c[place + (7 + i)] = box[7 + i]
      BY <2>11, <3>1
    <3> QED
      BY <2>3, <2>7, <3>1, <3>2
  <2>14. e[k] = place + 7 + many + gap
    BY <2>2, <2>9, <2>11
  <2> QED
    BY <2>8, <2>12, <2>13, <2>14 DEF BlockAt, many, gap, place
<1>10. Laid(b, e, c)
  BY <1>5, <1>7, <1>8, <1>9 DEF Laid, n
<1> QED
  BY <1>6, <1>10 DEF n, c

-----------------------------------------------------------------------------
(* The walk over the levels (LrPrev::extractFromLevel).                     *)

Ends(b) == CHOOSE e \in [0 .. Len(b) -> Nat] : Laid(b, e, L!Contents(Json, b))

LEMMA EndsLaid ==
  ASSUME NEW b \in Seq(Block)
  PROVE  Ends(b) \in [0 .. Len(b) -> Nat] /\ Laid(b, Ends(b), L!Contents(Json, b))
  BY Layout DEF Ends

\* No level ends behind the last one.
LEMMA EndsInside ==
  ASSUME NEW b \in Seq(Block), NEW k \in 0 .. Len(b)
  PROVE  Ends(b)[k] <= Len(L!Contents(Json, b))
<1> DEFINE n == Len(b)
           e == Ends(b)
           c == L!Contents(Json, b)
           Behind == {d \in 0 .. n : ~(e[n - d] <= e[n])}
<1>1. e \in [0 .. n -> Nat] /\ Laid(b, e, c)
  BY EndsLaid
<1>2. n \in Nat
  BY LenProperties
<1>3. ASSUME NEW j \in 1 .. n PROVE e[j - 1] <= e[j] /\ e[j] \in Nat /\ e[j - 1] \in Nat
  <2>1. b[j].size \in Nat /\ b[j].pad \in Nat
    <3>1. b[j] \in Block
      BY ElementOfSeq
    <3> QED
      BY <3>1 DEF Block
  <2>2. j \in 0 .. n /\ j - 1 \in 0 .. n
    BY <1>2
  <2>3. e[j] \in Nat /\ e[j - 1] \in Nat
    BY <1>1, <2>2
  <2>4. e[j] = e[j - 1] + 7 + b[j].size + b[j].pad
    BY <1>1 DEF Laid
  <2> QED
    BY <2>1, <2>3, <2>4
<1>4. e[n] \in Nat /\ e[n] = Len(c)
  BY <1>1, <1>2 DEF Laid
<1> HIDE DEF n, e, c
<1>5. ASSUME NEW d \in Behind, \A x \in Behind : d <= x PROVE FALSE
  <2>1. d \in 0 .. n /\ ~(e[n - d] <= e[n])
    OBVIOUS
  <2>2. d # 0
    BY <1>2, <1>4, <2>1
  <2>3. d - 1 \in 0 .. n /\ ~(d <= d - 1) /\ n - (d - 1) \in 1 .. n /\ (n - (d - 1)) - 1 = n - d
    BY <1>2, <2>1, <2>2
  <2>4. d - 1 \notin Behind
    BY <1>5, <2>3
  <2>5. e[n - (d - 1)] <= e[n]
    BY <2>3, <2>4
  <2> DEFINE p == e[n - d]
             q == e[n - (d - 1)]
  <2>6. p <= q /\ p \in Nat /\ q \in Nat
    BY <1>3, <2>3
  <2> HIDE DEF p, q
  <2>7. q <= e[n] /\ ~(p <= e[n])
    BY <2>1, <2>5 DEF p, q
  <2> QED
    BY <1>4, <2>6, <2>7
<1>6. Behind = {}
  <2>1. Behind \in SUBSET Nat
    BY <1>2
  <2> HIDE DEF Behind
  <2> QED
    BY <1>5, <2>1, Least
<1>7. k \in 0 .. n
  BY DEF n
<1>8. n - k \in 0 .. n /\ n - (n - k) = k
  BY <1>2, <1>7
<1>9. e[k] <= e[n]
  BY <1>6, <1>8
<1> QED
  BY <1>4, <1>9 DEF e, c

\* While a file is read it is the beginning of what Lightroom writes.
Reading == pc \in {"choose", "header", "walk", "decode", "absent"}

Beginning ==
  /\ Len(file) \in Nat /\ Len(file) <= Len(L!Contents(Json, blocks))
  /\ \A i \in 1 .. Len(file) : file[i] = L!Contents(Json, blocks)[i]

Cut == Len(file) < Len(L!Contents(Json, blocks))

\* The position is behind level k, and none so far was the one wanted.
Behind(k) == at = Ends(blocks)[k] /\ \A j \in 1 .. k : j # level

FileInv ==
  /\ blocks \in Seq(Block) /\ at \in Nat
  /\ Reading => Beginning
  /\ pc \in {"choose", "header"} => at = 0
  /\ pc = "walk" => (Cut /\ at >= Len(file)) \/ \E k \in 0 .. Len(blocks) : Behind(k)
  /\ pc = "decode" => Cut \/ (level \in 1 .. Len(blocks) /\ data = L!Image(level, blocks[level].size))
  /\ pc = "absent" => Cut \/ level \notin 1 .. Len(blocks)

\* The fields of the descriptor of level k, if it is in the file.
LEMMA Descriptor ==
  ASSUME blocks \in Seq(Block), Beginning, NEW k \in 0 .. Len(blocks), NEW p, p = Ends(blocks)[k],
         p + 4 <= Len(file)
  PROVE  /\ k + 1 \in 1 .. Len(blocks) /\ p \in Nat
         /\ file[p + 4][2] = blocks[k + 1].size
         /\ p + 6 <= Len(file) => file[p + 6][2] = blocks[k + 1].pad
         /\ p + 7 <= Len(file) => file[p + 7][2] = k + 1
         /\ Ends(blocks)[k + 1] = p + 7 + blocks[k + 1].size + blocks[k + 1].pad
         /\ \A i \in 1 .. blocks[k + 1].size :
              p + 7 + i <= Len(file) => file[p + 7 + i] = <<"image", k + 1, i>>
<1> DEFINE n == Len(blocks)
           e == Ends(blocks)
           c == L!Contents(Json, blocks)
           m == Len(file)
           many == blocks[k + 1].size
           gap == blocks[k + 1].pad
<1>1. e \in [0 .. n -> Nat] /\ Laid(blocks, e, c)
  BY EndsLaid
<1>2. n \in Nat
  BY LenProperties
<1>3. e[n] = Len(c)
  BY <1>1 DEF Laid
<1>4. m \in Nat /\ m <= Len(c) /\ \A i \in 1 .. m : file[i] = c[i]
  BY DEF Beginning
<1>5. p \in Nat /\ k \in 0 .. n /\ p + 4 <= m /\ p = e[k] /\ e[n] \in Nat
  BY <1>1, <1>2
<1> HIDE DEF n, e, c, m
<1>6. k # n
  BY <1>3, <1>4, <1>5
<1>7. k + 1 \in 1 .. n /\ (k + 1) - 1 = k
  BY <1>2, <1>5, <1>6
<1>8. many \in Nat /\ gap \in Nat
  <2>1. blocks[k + 1] \in Block
    BY <1>7, ElementOfSeq DEF n
  <2> QED
    BY <2>1 DEF Block
<1>9. /\ e[k + 1] = e[(k + 1) - 1] + 7 + many + gap
      /\ BlockAt(c, e[(k + 1) - 1], many, gap, k + 1)
      /\ \A i \in 1 .. many : c[e[(k + 1) - 1] + 7 + i] = <<"image", k + 1, i>>
  BY <1>1, <1>7 DEF Laid, n
<1>10. e[(k + 1) - 1] = p
  BY <1>5, <1>7
<1> HIDE DEF many, gap
<1>11. e[k + 1] = p + 7 + many + gap
  BY <1>9, <1>10
<1>12. c[p + 4] = <<"word", many>> /\ c[p + 6] = <<"word", gap>> /\ c[p + 7] = <<"name", k + 1>>
  BY <1>9, <1>10 DEF BlockAt
<1>13. \A i \in 1 .. many : c[p + 7 + i] = <<"image", k + 1, i>>
  BY <1>9, <1>10
<1>14. ASSUME NEW i \in Nat, i # 0, p + i <= m PROVE file[p + i] = c[p + i]
  <2>1. p + i \in 1 .. m
    BY <1>4, <1>5, <1>14
  <2> QED
    BY <1>4, <2>1
<1>15. file[p + 4] = c[p + 4]
  BY <1>5, <1>14
<1>16. p + 6 <= m => file[p + 6] = c[p + 6]
  BY <1>14
<1>17. p + 7 <= m => file[p + 7] = c[p + 7]
  BY <1>14
<1>18. ASSUME NEW i \in 1 .. many, p + 7 + i <= m PROVE file[p + 7 + i] = <<"image", k + 1, i>>
  <2>1. p + (7 + i) = p + 7 + i /\ 7 + i \in Nat /\ 7 + i # 0
    BY <1>5, <1>8
  <2>2. file[p + (7 + i)] = c[p + (7 + i)]
    BY <1>14, <1>18, <2>1
  <2> QED
    BY <1>13, <2>1, <2>2
<1>19. <<"word", many>>[2] = many /\ <<"word", gap>>[2] = gap /\ <<"name", k + 1>>[2] = k + 1
  OBVIOUS
<1>20. /\ file[p + 4][2] = many
       /\ p + 6 <= m => file[p + 6][2] = gap
       /\ p + 7 <= m => file[p + 7][2] = k + 1
  BY <1>12, <1>15, <1>16, <1>17, <1>19
<1> QED
  BY <1>5, <1>7, <1>11, <1>18, <1>20 DEF n, e, m, many, gap

LEMMA NoFile == <<>> \in Seq(Block)
  OBVIOUS

\* No word of a descriptor is read outside of what has been written of it.
LEMMA HeaderRead ==
  ASSUME blocks \in Seq(Block), Beginning, at = 0, L!ReadHeader
  PROVE  at' \in Nat /\ ((Cut /\ at' >= Len(file)) \/ at' = Ends(blocks)[0])
<1> DEFINE e == Ends(blocks)
           c == L!Contents(Json, blocks)
           m == Len(file)
<1>1. e \in [0 .. Len(blocks) -> Nat] /\ Laid(blocks, e, c)
  BY EndsLaid
<1>2. e[0] = 9 /\ c[0 + 4] = <<"word", 1>> /\ c[0 + 6] = <<"word", 1>>
  BY <1>1 DEF Laid, BlockAt
<1>3. m \in Nat /\ m <= Len(c) /\ \A i \in 1 .. m : file[i] = c[i]
  BY DEF Beginning
<1>4. 9 <= Len(c) /\ Len(c) \in Nat
  <2>1. 0 \in 0 .. Len(blocks) /\ Len(blocks) \in Nat
    BY LenProperties
  <2>2. e[0] <= Len(c)
    BY <2>1, EndsInside
  <2>3. Len(c) = e[Len(blocks)]
    BY <1>1 DEF Laid
  <2> QED
    BY <1>1, <1>2, <2>1, <2>2, <2>3
<1>5. (Cut <=> m < Len(c)) /\ at' = at + 7 + L!ReadWord(at + 4, 0) + L!ReadWord(at + 6, 0)
  BY DEF Cut, L!ReadHeader
<1>6. L!ReadWord(4, 0) = IF 4 <= m THEN file[4][2] ELSE 0
  BY DEF L!ReadWord
<1>7. L!ReadWord(6, 0) = IF 6 <= m THEN file[6][2] ELSE 0
  BY DEF L!ReadWord
<1> HIDE DEF e, c, m
<1>8. 4 <= m => file[4] = <<"word", 1>>
  BY <1>2, <1>3
<1>9. 6 <= m => file[6] = <<"word", 1>>
  BY <1>2, <1>3
<1>10. <<"word", 1>>[2] = 1
  OBVIOUS
<1>11. L!ReadWord(4, 0) = IF 4 <= m THEN 1 ELSE 0
  BY <1>6, <1>8, <1>10
<1>12. L!ReadWord(6, 0) = IF 6 <= m THEN 1 ELSE 0
  BY <1>7, <1>9, <1>10
<1>13. at + 4 = 4 /\ at + 6 = 6 /\ at + 7 = 7
  OBVIOUS
<1>14. at' = 7 + (IF 4 <= m THEN 1 ELSE 0) + (IF 6 <= m THEN 1 ELSE 0)
  BY <1>5, <1>11, <1>12, <1>13
<1> QED
  BY <1>2, <1>3, <1>4, <1>5, <1>14 DEF e, m

LEMMA ReadHeaderKeeps == ASSUME FileInv, ReadHeader PROVE FileInv'
<1>1. /\ pc = "header" /\ pc' = "walk" /\ UNCHANGED <<blocks, level, file>> /\ L!ReadHeader
  BY DEF ReadHeader, Goto, L!ReadHeader
<1>2. Beginning /\ at = 0 /\ blocks \in Seq(Block)
  BY <1>1 DEF FileInv, Reading
<1>3. at' \in Nat /\ ((Cut /\ at' >= Len(file)) \/ at' = Ends(blocks)[0])
  BY <1>1, <1>2, HeaderRead
<1>4. 0 \in 0 .. Len(blocks) /\ \A j \in 1 .. 0 : j # level
  BY <1>2, LenProperties
<1>5. Beginning'
  BY <1>1, <1>2 DEF Beginning
<1>6. (Cut /\ at >= Len(file))' \/ Behind(0)'
  BY <1>1, <1>3, <1>4 DEF Cut, Behind
<1>7. (0 \in 0 .. Len(blocks))'
  BY <1>1, <1>4
<1> QED
  BY <1>1, <1>2, <1>3, <1>5, <1>6, <1>7 DEF FileInv

LEMMA SkipLevelKeeps == ASSUME FileInv, SkipLevel PROVE FileInv'
<1>1. /\ pc = "walk" /\ pc' = "walk" /\ UNCHANGED <<blocks, level, file>>
      /\ L!Skip(level) \/ L!SkipJunk
  BY DEF SkipLevel, Goto, L!Skip, L!SkipJunk, entryVars
<1>2. Beginning /\ blocks \in Seq(Block) /\ at \in Nat /\ Len(file) \in Nat
  BY <1>1 DEF FileInv, Reading, Beginning
<1>3. (Cut /\ at >= Len(file)) \/ \E k \in 0 .. Len(blocks) : Behind(k)
  BY <1>1 DEF FileInv
<1>4. Beginning'
  BY <1>1, <1>2 DEF Beginning
<1>5. CASE L!SkipJunk
  <2>1. at + 4 <= Len(file) /\ ~(at + 7 <= Len(file)) /\ at' = Len(file)
    BY <1>2, <1>5 DEF L!SkipJunk, L!Nameless
  <2>2. PICK k \in 0 .. Len(blocks) : Behind(k)
    BY <1>2, <1>3, <2>1
  <2>3. Cut
    <3>1. /\ k + 1 \in 1 .. Len(blocks)
          /\ Ends(blocks)[k + 1] = at + 7 + blocks[k + 1].size + blocks[k + 1].pad
      BY <1>2, <2>1, <2>2, Descriptor DEF Behind
    <3>2. Ends(blocks)[k + 1] <= Len(L!Contents(Json, blocks))
      BY <1>2, <3>1, EndsInside
    <3>3. blocks[k + 1].size \in Nat /\ blocks[k + 1].pad \in Nat
      <4>1. blocks[k + 1] \in Block
        BY <1>2, <3>1, ElementOfSeq
      <4> QED
        BY <4>1 DEF Block
    <3>4. Len(L!Contents(Json, blocks)) \in Nat
      BY <1>2, EndsLaid, LenProperties DEF Laid
    <3> QED
      BY <1>2, <2>1, <3>1, <3>2, <3>3, <3>4 DEF Cut
  <2> QED
    BY <1>1, <1>2, <1>4, <2>1, <2>3 DEF FileInv, Cut
<1>6. CASE L!Skip(level)
  <2>1. /\ at + 7 <= Len(file) /\ file[at + 7][2] # level
        /\ at' = at + 7 + L!ReadWord(at + 4, 0) + L!ReadWord(at + 6, 0)
    BY <1>6 DEF L!Skip
  <2>2. at + 4 <= Len(file) /\ at + 6 <= Len(file) /\ ~(at >= Len(file))
    BY <1>2, <2>1
  <2>3. PICK k \in 0 .. Len(blocks) : Behind(k)
    BY <1>3, <2>2
  <2> DEFINE many == blocks[k + 1].size
             gap  == blocks[k + 1].pad
             stop == Ends(blocks)[k + 1]
  <2>4. /\ k + 1 \in 1 .. Len(blocks) /\ file[at + 4][2] = many /\ file[at + 6][2] = gap
        /\ file[at + 7][2] = k + 1 /\ stop = at + 7 + many + gap
    BY <1>2, <2>1, <2>2, <2>3, Descriptor DEF Behind
  <2>5. L!ReadWord(at + 4, 0) = many /\ L!ReadWord(at + 6, 0) = gap
    BY <2>2, <2>4 DEF L!ReadWord
  <2>6. at' = stop
    BY <2>1, <2>4, <2>5
  <2>7. \A j \in 1 .. k + 1 : j # level
    <3>1. \A j \in 1 .. k : j # level
      BY <2>3 DEF Behind
    <3>2. k + 1 # level
      BY <2>1, <2>4
    <3> QED
      BY <3>1, <3>2
  <2>8. at' \in Nat
    BY <1>2, <2>4, <2>6, EndsLaid
  <2>9. Behind(k + 1)'
    BY <1>1, <2>6, <2>7 DEF Behind
  <2>10. (k + 1 \in 0 .. Len(blocks))'
    BY <1>1, <2>4
  <2> QED
    BY <1>1, <1>2, <1>4, <2>8, <2>9, <2>10 DEF FileInv
<1> QED
  BY <1>1, <1>5, <1>6

LEMMA TakeLevelKeeps == ASSUME FileInv, TakeLevel PROVE FileInv'
<1>1. /\ pc = "walk" /\ pc' = "decode" /\ UNCHANGED <<blocks, level, file, at>>
      /\ L!Take(level) \/ L!TakeJunk
  BY DEF TakeLevel, Goto, L!Take, L!TakeJunk, entryVars
<1>2. Beginning /\ blocks \in Seq(Block) /\ at \in Nat /\ Len(file) \in Nat
  BY <1>1 DEF FileInv, Reading, Beginning
<1>3. (Cut /\ at >= Len(file)) \/ \E k \in 0 .. Len(blocks) : Behind(k)
  BY <1>1 DEF FileInv
<1>4. Beginning'
  BY <1>1, <1>2 DEF Beginning
<1>5. at + 4 <= Len(file)
  BY <1>1, <1>2 DEF L!Take, L!TakeJunk, L!Nameless
<1>6. PICK k \in 0 .. Len(blocks) : Behind(k)
  BY <1>2, <1>3, <1>5
<1> DEFINE many == blocks[k + 1].size
           gap  == blocks[k + 1].pad
           stop == Ends(blocks)[k + 1]
           full == Len(L!Contents(Json, blocks))
<1>7. /\ k + 1 \in 1 .. Len(blocks) /\ file[at + 4][2] = many
      /\ at + 7 <= Len(file) => file[at + 7][2] = k + 1
      /\ stop = at + 7 + many + gap
  BY <1>2, <1>5, <1>6, Descriptor DEF Behind
<1>8. \A i \in 1 .. many : at + 7 + i <= Len(file) => file[at + 7 + i] = <<"image", k + 1, i>>
  BY <1>2, <1>5, <1>6, Descriptor DEF Behind
<1>9. many \in Nat /\ gap \in Nat
  <2>1. blocks[k + 1] \in Block
    BY <1>2, <1>7, ElementOfSeq
  <2> QED
    BY <2>1 DEF Block
<1>10. stop <= full /\ full \in Nat
  BY <1>2, <1>7, EndsInside, EndsLaid, LenProperties DEF Laid
<1>11. (Cut <=> Len(file) < full) /\ Len(file) <= full
  BY <1>2 DEF Cut, Beginning
<1> HIDE DEF many, gap, stop, full
<1>12. CASE Cut
  <2>1. Cut'
    BY <1>1, <1>12 DEF Cut
  <2> QED
    BY <1>1, <1>2, <1>4, <2>1 DEF FileInv
<1>13. CASE ~Cut
  <2>1. at + 7 + many <= Len(file) /\ at + 7 <= Len(file)
    BY <1>2, <1>7, <1>9, <1>10, <1>11, <1>13
  <2>2. L!Take(level)
    BY <1>1, <1>2, <2>1 DEF L!TakeJunk, L!Nameless
  <2>3. level = k + 1
    BY <1>7, <2>1, <2>2 DEF L!Take
  <2>4. L!ReadWord(at + 4, 0) = many
    BY <1>5, <1>7 DEF L!ReadWord
  <2>5. data' = [i \in 1 .. many |-> IF at + 7 + i <= Len(file) THEN file[at + 7 + i] ELSE L!Junk]
    BY <2>2, <2>4 DEF L!Take
  <2>6. ASSUME NEW i \in 1 .. many
        PROVE  (IF at + 7 + i <= Len(file) THEN file[at + 7 + i] ELSE L!Junk) = <<"image", k + 1, i>>
    <3>1. at + 7 + i <= Len(file)
      BY <1>2, <1>9, <2>1
    <3> QED
      BY <1>8, <3>1
  <2>7. data' = [i \in 1 .. many |-> <<"image", k + 1, i>>]
    BY <2>5, <2>6
  <2>8. data' = L!Image(k + 1, many)
    BY <2>7 DEF L!Image
  <2>9. (level \in 1 .. Len(blocks) /\ data = L!Image(level, blocks[level].size))'
    BY <1>1, <1>7, <2>3, <2>8 DEF many
  <2> QED
    BY <1>1, <1>2, <1>4, <2>9 DEF FileInv
<1> QED
  BY <1>12, <1>13

\* The walk is given up only at the end of the file, or where a part of it is missing.
LEMMA AbsentKeeps == ASSUME FileInv, LevelMissing \/ NoNumber PROVE FileInv'
<1>1. /\ pc = "walk" /\ pc' = "absent" /\ UNCHANGED <<blocks, level, file, at, data>>
      /\ L!Missing \/ L!Nameless
  BY DEF LevelMissing, NoNumber, Goto, L!Missing, L!lrprevVars, fileVars, entryVars
<1>2. Beginning /\ blocks \in Seq(Block) /\ at \in Nat /\ Len(file) \in Nat
  BY <1>1 DEF FileInv, Reading, Beginning
<1>3. (Cut /\ at >= Len(file)) \/ \E k \in 0 .. Len(blocks) : Behind(k)
  BY <1>1 DEF FileInv
<1>4. Beginning'
  BY <1>1, <1>2 DEF Beginning
<1>5. Cut \/ level \notin 1 .. Len(blocks)
  <2> SUFFICES ASSUME ~Cut PROVE level \notin 1 .. Len(blocks)
    OBVIOUS
  <2>1. PICK k \in 0 .. Len(blocks) : Behind(k)
    BY <1>3
  <2> DEFINE n == Len(blocks)
             full == Len(L!Contents(Json, blocks))
  <2>2. Len(file) = full /\ full \in Nat
    BY <1>2, EndsLaid, LenProperties DEF Laid, Beginning, Cut
  <2>3. n \in Nat
    BY <1>2, LenProperties
  <2>4. ~(at + 7 <= Len(file))
    BY <1>1, <1>2 DEF L!Missing, L!Nameless
  <2>5. CASE k = n
    BY <2>1, <2>5 DEF Behind
  <2>6. CASE k # n
    <3>1. k + 1 \in 1 .. n /\ (k + 1) - 1 = k /\ k + 1 \in 0 .. n
      BY <2>3, <2>6
    <3>2. blocks[k + 1].size \in Nat /\ blocks[k + 1].pad \in Nat
      <4>1. blocks[k + 1] \in Block
        BY <1>2, <3>1, ElementOfSeq
      <4> QED
        BY <4>1 DEF Block
    <3>3. Laid(blocks, Ends(blocks), L!Contents(Json, blocks))
      BY <1>2, EndsLaid
    <3>4. Ends(blocks)[k + 1] = Ends(blocks)[(k + 1) - 1] + 7 + blocks[k + 1].size + blocks[k + 1].pad
      BY <3>1, <3>3 DEF Laid
    <3>5. Ends(blocks)[k + 1] = at + 7 + blocks[k + 1].size + blocks[k + 1].pad
      BY <2>1, <3>1, <3>4 DEF Behind
    <3>6. Ends(blocks)[k + 1] <= full
      BY <1>2, <3>1, EndsInside
    <3> HIDE DEF full, n
    <3> QED
      BY <1>2, <2>2, <2>4, <3>2, <3>5, <3>6
  <2> QED
    BY <2>5, <2>6
<1> QED
  BY <1>1, <1>2, <1>4, <1>5 DEF FileInv, Cut

LEMMA OpenKeeps == ASSUME FileInv, Open PROVE FileInv'
<1>1. PICK m \in 1 .. MaxLevels : blocks' \in [1 .. m -> [size : Sizes, pad : Pads]]
  BY DEF Open
<1>2. PICK cut \in 1 .. Len(L!Contents(Json, blocks')) :
        L!Opened(SubSeq(L!Contents(Json, blocks'), 1, cut))
  BY DEF Open
<1>3. blocks' \in Seq(Block)
  <2>1. m \in Nat
    BY <1>1, ImageAssumption
  <2>2. [size : Sizes, pad : Pads] \subseteq Block
    BY ImageAssumption DEF Block
  <2>3. blocks' \in [1 .. m -> Block]
    BY <1>1, <2>2
  <2> QED
    BY <2>1, <2>3, SeqDef
<1> DEFINE c == L!Contents(Json, blocks')
<1>4. c \in Seq(Field)
  BY <1>3, EndsLaid DEF Laid
<1>5. Len(c) \in Nat /\ \A i \in 1 .. Len(c) : c[i] \in Field
  BY <1>4, LenProperties, ElementOfSeq
<1>6. file' = SubSeq(c, 1, cut) /\ at' = 0
  BY <1>2 DEF L!Opened
<1>7. cut \in Nat /\ 1 <= cut /\ cut <= Len(c)
  BY <1>2, <1>5
<1> HIDE DEF c
<1>8. Len(file') = cut /\ \A i \in 1 .. cut : file'[i] = c[i]
  <2>1. 1 \in Int /\ cut \in Int /\ \A i \in 1 .. cut : c[i] \in Field
    BY <1>5, <1>7
  <2>2. /\ Len(SubSeq(c, 1, cut)) = IF 1 <= cut THEN cut - 1 + 1 ELSE 0
        /\ \A i \in 1 .. (cut - 1 + 1) : SubSeq(c, 1, cut)[i] = c[1 + i - 1]
    BY <2>1, SubSeqProperties
  <2>3. cut - 1 + 1 = cut /\ \A i \in 1 .. cut : 1 + i - 1 = i
    BY <1>7
  <2> QED
    BY <1>6, <1>7, <2>2, <2>3
<1>9. Beginning'
  BY <1>7, <1>8 DEF Beginning, c
<1>10. pc' = "choose"
  BY DEF Open, Goto
<1> QED
  BY <1>3, <1>6, <1>9, <1>10 DEF FileInv

LEMMA InitFile == ASSUME Init PROVE FileInv
  BY NoFile DEF Init, FileInv, Reading, L!Closed

LEMMA FileStep == ASSUME FileInv, [Next]_vars PROVE FileInv'
<1>1. CASE UNCHANGED vars
  BY <1>1 DEF FileInv, Reading, Beginning, Cut, Behind, vars, fileVars, entryVars
<1>2. CASE OpenFails \/ Scale \/ Encode
  <2>1. UNCHANGED <<file, at, blocks>> /\ pc' \in {"failed", "encode", "put"}
    BY <1>2 DEF OpenFails, Scale, Encode, Goto, fileVars, entryVars
  <2> QED
    BY <2>1 DEF FileInv, Reading
<1>3. CASE Choose
  <2>1. UNCHANGED <<file, at, blocks>> /\ pc = "choose" /\ pc' \in {"failed", "header"}
    BY <1>3 DEF Choose, Goto, fileVars
  <2> QED
    BY <2>1 DEF FileInv, Reading, Beginning
<1>4. CASE Decode \/ DecoderExits \/ Overruns \/ Done
  <2>1. blocks' = <<>> /\ at' = 0 /\ pc' \in {"open", "scale"}
    BY <1>4 DEF Decode, DecoderExits, Overruns, Done, Forget, Goto
  <2> QED
    BY <2>1, NoFile DEF FileInv, Reading
<1> QED
  BY <1>1, <1>2, <1>3, <1>4, OpenKeeps, ReadHeaderKeeps, SkipLevelKeeps, TakeLevelKeeps, AbsentKeeps
     DEF Next, Extract

LEMMA FileInvariance == Spec => []FileInv
  BY InitFile, FileStep, PTL DEF Spec

\* Whatever levels a file has and however long they are and their padding: of a file that
\* is complete the reader returns the bytes of the level wanted and none of another one,
\* and NULL only if it has no such level (LrPrev::extractFromLevel).
THEOREM ImageExtractedIsTheLevel == Spec => []ExtractedIsTheLevel
<1>1. ASSUME FileInv PROVE ExtractedIsTheLevel
  <2> SUFFICES ASSUME file = L!Contents(Json, blocks)
               PROVE  /\ pc = "decode" =>
                           level \in DOMAIN blocks /\ data = L!Image(level, blocks[level].size)
                      /\ pc = "absent" => level \notin DOMAIN blocks
    BY DEF ExtractedIsTheLevel
  <2>1. blocks \in Seq(Block)
    BY <1>1 DEF FileInv
  <2>2. DOMAIN blocks = 1 .. Len(blocks)
    BY <2>1, LenProperties
  <2>3. Reading => ~Cut
    BY <1>1 DEF FileInv, Beginning, Cut
  <2> QED
    BY <1>1, <2>2, <2>3 DEF FileInv, Reading
<1> QED
  BY <1>1, FileInvariance, PTL

\* From any place the walk is at, whatever part of the file is there.
LEMMA TurnGoesForward ==
  ASSUME FileInv, SkipLevel
  PROVE  at < Len(file) /\ at' > at
<1>1. pc = "walk" /\ (L!Skip(level) \/ L!SkipJunk)
  BY DEF SkipLevel, Goto
<1>2. Beginning /\ blocks \in Seq(Block) /\ at \in Nat /\ Len(file) \in Nat
  BY <1>1 DEF FileInv, Reading, Beginning
<1>3. CASE L!SkipJunk
  BY <1>2, <1>3 DEF L!SkipJunk, L!Nameless
<1>4. CASE L!Skip(level)
  <2>1. /\ at + 7 <= Len(file)
        /\ at' = at + 7 + L!ReadWord(at + 4, 0) + L!ReadWord(at + 6, 0)
    BY <1>4 DEF L!Skip
  <2>2. at + 4 <= Len(file) /\ at + 6 <= Len(file) /\ at < Len(file)
    BY <1>2, <2>1
  <2>3. PICK k \in 0 .. Len(blocks) : Behind(k)
    BY <1>1, <1>2, <2>2 DEF FileInv
  <2> DEFINE many == blocks[k + 1].size
             gap  == blocks[k + 1].pad
  <2>4. k + 1 \in 1 .. Len(blocks) /\ file[at + 4][2] = many /\ file[at + 6][2] = gap
    BY <1>2, <2>2, <2>3, Descriptor DEF Behind
  <2>5. many \in Nat /\ gap \in Nat
    <3>1. blocks[k + 1] \in Block
      BY <1>2, <2>4, ElementOfSeq
    <3> QED
      BY <3>1 DEF Block
  <2>6. L!ReadWord(at + 4, 0) = many /\ L!ReadWord(at + 6, 0) = gap
    BY <2>2, <2>4 DEF L!ReadWord
  <2> HIDE DEF many, gap
  <2> QED
    BY <1>2, <2>1, <2>2, <2>5, <2>6
<1> QED
  BY <1>1, <1>3, <1>4

\* Every turn of the walk goes forward in the file and begins inside it, of a file of any
\* length that is cut anywhere: the walk has no more turns than the file has fields.
THEOREM ImageWalkGoesForward == Spec => WalkGoesForward
<1>1. ASSUME FileInv, [Next]_vars, pc = "walk", pc' = "walk", vars' # vars
      PROVE  at < Len(file) /\ at' > at
  <2>1. SkipLevel
    BY <1>1 DEF Next, Open, OpenFails, Choose, Extract, ReadHeader, TakeLevel, LevelMissing, NoNumber,
                Decode, DecoderExits, Scale, Overruns, Encode, Done, Forget, Goto
  <2> QED
    BY <1>1, <2>1, TurnGoesForward
<1>2. FileInv /\ [Next]_vars => [pc = "walk" /\ pc' = "walk" => at < Len(file) /\ at' > at]_vars
  BY <1>1
<1> QED
  BY <1>2, FileInvariance, PTL DEF Spec, WalkGoesForward

-----------------------------------------------------------------------------
(* The type invariant.                                                      *)

Sides == (0 .. MaxSide) \X (0 .. MaxSide) \X ({0} \cup Components)

\* What the type invariant says beside the buffer and the file.
Bounded ==
  /\ rows \in Seq(1 .. MaxLevels) /\ level \in 0 .. MaxLevels
  /\ source \in Sides /\ target \in (0 .. Longest) \X (0 .. Longest)
  /\ pc \in {"open", "choose", "header", "walk", "absent", "decode", "scale", "encode",
             "put", "failed"}

LEMMA ShortenedBound ==
  ASSUME NEW short \in Nat \ {0}, NEW long \in Nat \ {0}, short <= long,
         NEW t \in Shortened(Longest, short, long)
  PROVE  t \in 0 .. Longest
<1>1. Longest \in Nat /\ Longest * short \in Nat
  BY ImageAssumption
<1>2. CASE short = long
  BY <1>1, <1>2 DEF Shortened
<1>3. CASE short # long
  <2> DEFINE q == (Longest * short) \div long
  <2>1. t \in Truncated(Longest * short, long)
    BY <1>3 DEF Shortened
  <2>2. t \in Nat /\ t <= q
    BY <1>1, <2>1, TruncatedBelow
  <2>3. q \in Nat /\ q * long <= Longest * short
    BY <1>1, Quotient
  <2>4. Longest * short <= Longest * long
    BY <1>1
  <2> HIDE DEF q
  <2>5. q <= Longest
    <3> SUFFICES ASSUME q >= Longest + 1 PROVE FALSE
      BY <1>1, <2>3
    <3>1. q * long >= (Longest + 1) * long
      BY <1>1, <2>3
    <3>2. (Longest + 1) * long = Longest * long + long
      BY <1>1
    <3>3. q * long \in Nat /\ Longest * long \in Nat /\ (Longest + 1) * long \in Nat
      BY <1>1, <2>3
    <3> QED
      BY <1>1, <2>3, <2>4, <3>1, <3>2, <3>3
  <2> QED
    BY <1>1, <2>2, <2>3, <2>5
<1> QED
  BY <1>2, <1>3

LEMMA TargetsBound ==
  ASSUME NEW picture \in Decoded
  PROVE  Targets(Longest, picture[1], picture[2]) \subseteq (0 .. Longest) \X (0 .. Longest)
<1>1. picture[1] \in Nat \ {0} /\ picture[2] \in Nat \ {0} /\ Longest \in 0 .. Longest
  BY DecodedType, ImageAssumption
<1>2. CASE picture[1] >= picture[2]
  <2>1. Shortened(Longest, picture[2], picture[1]) \subseteq 0 .. Longest
    BY <1>1, <1>2, ShortenedBound
  <2>2. Targets(Longest, picture[1], picture[2]) = {Longest} \X Shortened(Longest, picture[2], picture[1])
    BY <1>2 DEF Targets
  <2> QED
    BY <1>1, <2>1, <2>2
<1>3. CASE ~(picture[1] >= picture[2])
  <2>1. Shortened(Longest, picture[1], picture[2]) \subseteq 0 .. Longest
    BY <1>1, <1>3, ShortenedBound
  <2>2. Targets(Longest, picture[1], picture[2]) = Shortened(Longest, picture[1], picture[2]) \X {Longest}
    BY <1>3 DEF Targets
  <2> QED
    BY <1>1, <2>1, <2>2
<1> QED
  BY <1>2, <1>3

LEMMA NoSides == /\ NoImage \in Sides /\ NoTarget \in (0 .. Longest) \X (0 .. Longest)
                 /\ 0 \in 0 .. MaxLevels /\ <<>> \in Seq(1 .. MaxLevels)
  BY ImageAssumption DEF NoImage, NoTarget, Sides, MaxSide, Dimension

LEMMA BoundedStep == ASSUME ImageInv, Bounded, [Next]_vars PROVE Bounded'
<1>1. CASE UNCHANGED vars
  BY <1>1 DEF Bounded, vars, entryVars
<1>2. CASE Open
  <2>1. PICK n \in 1 .. MaxLevels : rows' \in SetToSeqs(1 .. n)
    BY <1>2 DEF Open
  <2>2. n \in Nat /\ Cardinality(1 .. n) = n /\ 1 .. n \subseteq 1 .. MaxLevels
    BY <2>1, FS_Interval, ImageAssumption
  <2>3. rows' \in [1 .. n -> 1 .. n]
    BY <2>1, <2>2 DEF SetToSeqs
  <2>4. rows' \in [1 .. n -> 1 .. MaxLevels]
    BY <2>2, <2>3
  <2>5. rows' \in Seq(1 .. MaxLevels)
    BY <2>2, <2>4, SeqDef
  <2>6. UNCHANGED <<level, source, target>> /\ pc' = "choose"
    BY <1>2 DEF Open, Goto
  <2> QED
    BY <2>5, <2>6 DEF Bounded
<1>3. CASE Choose
  <2>1. level' \in 0 .. MaxLevels
    <3>1. level' = closestLevelToDimension(Longest)
      BY <1>3 DEF Choose
    <3>2. CASE level' = 0
      BY <3>2, NoSides
    <3>3. CASE level' # 0
      <4>1. PICK first \in 1 .. Len(rows) : level' = rows[first]
        BY <3>1, <3>3, ClosestIsLonger
      <4>2. rows[first] \in 1 .. MaxLevels
        BY ElementOfSeq DEF Bounded
      <4> QED
        BY <4>1, <4>2, ImageAssumption
    <3> QED
      BY <3>2, <3>3
  <2>2. UNCHANGED <<rows, source, target>> /\ pc' \in {"failed", "header"}
    BY <1>3 DEF Choose, Goto
  <2> QED
    BY <2>1, <2>2 DEF Bounded
<1>4. CASE OpenFails \/ Extract
  <2>1. UNCHANGED <<level, source, target>> /\ rows' \in {rows, <<>>}
        /\ pc' \in {"failed", "walk", "decode", "absent"}
    BY <1>4 DEF OpenFails, Extract, ReadHeader, SkipLevel, TakeLevel, LevelMissing, NoNumber, Goto,
       entryVars
  <2> QED
    BY <2>1, NoSides DEF Bounded
<1>5. CASE Decode
  <2>1. /\ source' \in (1 .. MaxSide) \X (1 .. MaxSide) \X Components
        /\ UNCHANGED <<rows, level, target>> /\ pc' = "scale"
    BY <1>5 DEF Decode, Goto
  <2>2. source' \in Sides
    BY <2>1, ImageAssumption DEF Sides, MaxSide, Dimension
  <2> QED
    BY <2>1, <2>2 DEF Bounded
<1>6. CASE Scale
  <2>1. source \in Decoded /\ target' \in Targets(Longest, source[1], source[2])
    BY <1>6 DEF Scale, Goto, ImageInv, Measured
  <2>2. target' \in (0 .. Longest) \X (0 .. Longest)
    BY <2>1, TargetsBound
  <2>3. UNCHANGED <<rows, level, source>> /\ pc' = "encode"
    BY <1>6 DEF Scale, Goto, entryVars
  <2> QED
    BY <2>2, <2>3 DEF Bounded
<1>7. CASE Encode
  <2>1. UNCHANGED <<rows, level, source, target>> /\ pc' \in {"failed", "put", "encode"}
    BY <1>7 DEF Encode, entryVars
  <2> QED
    BY <2>1 DEF Bounded
<1>8. CASE DecoderExits \/ Overruns \/ Done
  <2>1. rows' = <<>> /\ level' = 0 /\ source' = NoImage /\ target' = NoTarget /\ pc' = "open"
    BY <1>8 DEF DecoderExits, Overruns, Done, Forget, Goto
  <2> QED
    BY <2>1, NoSides DEF Bounded
<1> QED
  BY <1>1, <1>2, <1>3, <1>4, <1>5, <1>6, <1>7, <1>8 DEF Next

\* Where the reader stands and what is known of an entry, an image and its target is of
\* its type: every size the reader adds to its position was read from a size field.
THEOREM ImageTypeCorrect == Spec => []TypeOK
<1>1. Init => Bounded
  BY NoSides DEF Init, Bounded
<1>2. ASSUME ImageInv, FileInv, Bounded PROVE TypeOK
  <2>1. \A k \in DOMAIN rows : rows[k] \in 1 .. MaxLevels
    BY <1>2, ElementOfSeq, LenProperties DEF Bounded
  <2> QED
    BY <1>2, <2>1 DEF TypeOK, Bounded, Sides, ImageInv, IInv, FileInv
<1> QED
  BY <1>1, <1>2, BoundedStep, ImageInvariance, FileInvariance, PTL DEF Spec
=============================================================================
