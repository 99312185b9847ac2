---------------------------- MODULE PreviewImage ----------------------------
(***************************************************************************)
(* What the worker does between the lookup of a preview and its request     *)
(* (PreviewsSynchronizer::crunchAndUpload): it opens the preview's file,    *)
(* chooses a level (PreviewEntry), extracts its image (LrPrev), reduces it  *)
(* (JpegCruncher), encodes it (Jpeg) and hands the bytes to the request.    *)
(* Bodies of images, JSON and padding are a few fields long; the decoder    *)
(* is external.                                                             *)
(***************************************************************************)
EXTENDS SequencesExt, Jpeg, JpegCruncher

CONSTANTS Longest,    \* IEnlightenSettings::PreviewLongestDimension
          MaxLevels,  \* bound: levels of a preview
          Sizes,      \* fields an image may take in the file
          Pads        \* fields of padding after it

ASSUME ImageAssumption ==
  /\ JpegAssumption
  /\ Longest \in Nat \ {0} /\ MaxLevels \in Nat
  /\ Sizes \subseteq Nat \ {0} /\ Pads \subseteq Nat

VARIABLES file, at, data,   \* LrPrev (the target of reencodeJpeg is Jpeg's variables)
          rows,     \* the entry's _levels, in the order of the query
          blocks,   \* what Lightroom has written of the file, or is about to
          level,    \* desiredLevel
          source,   \* width, height and components of the decoded image
          target,   \* targetWidth and targetHeight
          pc

L == INSTANCE LrPrev

fileVars  == <<file, at, data>>
entryVars == <<rows, blocks, level>>
vars      == <<fileVars, jpegVars, entryVars, source, target, pc>>

Dimension(k) == Longest + k - 1    \* level 1 is just too small
MaxSide      == Dimension(MaxLevels)
NoImage      == <<0, 0, 0>>
NoTarget     == <<0, 0>>
Components   == {1, 3, 4}    \* libjpeg's: gray, RGB, CMYK
Json         == [size |-> 1, pad |-> 1]

TypeOK ==
  /\ JpegTypeOK
  /\ at \in Nat
  /\ level \in 0 .. MaxLevels
  /\ \A k \in DOMAIN rows : rows[k] \in 1 .. MaxLevels
  /\ source \in (0 .. MaxSide) \X (0 .. MaxSide) \X ({0} \cup Components)
  /\ target \in (0 .. Longest) \X (0 .. Longest)
  /\ pc \in {"open", "choose", "header", "walk", "absent", "decode", "scale", "encode",
             "put", "failed"}

Init ==
  /\ L!Closed /\ JpegInit
  /\ rows = <<>> /\ blocks = <<>> /\ level = 0
  /\ source = NoImage /\ target = NoTarget /\ pc = "open"

Goto(from, to) == pc = from /\ pc' = to

\* Before a preview and after it: LrPrev and the two Jpeg objects live for one turn.
Forget(from, to) ==
  /\ file' = <<>> /\ at' = 0 /\ data' = L!NoData
  /\ Release
  /\ rows' = <<>> /\ blocks' = <<>> /\ level' = 0
  /\ source' = NoImage /\ target' = NoTarget
  /\ Goto(from, to)

-----------------------------------------------------------------------------
\* An entry with its levels, in any order, and its file, cut anywhere behind the
\* marker.  They may be of two versions, so neither needs to have the other's levels.
Open ==
  /\ Goto("open", "choose")
  /\ \E n \in 1 .. MaxLevels, m \in 1 .. MaxLevels :
       /\ rows' \in SetToSeqs(1 .. n)
       /\ blocks' \in [1 .. m -> [size : Sizes, pad : Pads]]
  /\ LET fields == L!Contents(Json, blocks')
     IN  \E cut \in 1 .. Len(fields) : L!Opened(SubSeq(fields, 1, cut))
  /\ UNCHANGED <<jpegVars, level, source, target>>

\* There is no file with that name, or it has no marker yet.
OpenFails ==
  /\ Goto("open", "failed")
  /\ UNCHANGED <<fileVars, jpegVars, entryVars, source, target>>

\* (mutant) a level that is just as long as wanted will do
closestLevelOrSame(longDimension) ==
  LET first == SelectInSeq(rows, LAMBDA k : longDimension <= Dimension(k))
  IN  IF first = 0 THEN 0 ELSE rows[first]

\* The first that is longer; 0 stands for INVALID_LEVEL_INDEX.
closestLevelToDimension(longDimension) ==
  LET first == SelectInSeq(rows, LAMBDA k : longDimension < Dimension(k))
  IN  IF first = 0 THEN 0 ELSE rows[first]

Choose ==
  /\ level' = closestLevelToDimension(Longest)
  /\ Goto("choose", IF level' = 0 THEN "failed" ELSE "header")
  /\ UNCHANGED <<fileVars, jpegVars, rows, blocks, source, target>>

-----------------------------------------------------------------------------
(* extractFromLevel.                                                        *)

ReadHeader ==
  /\ Goto("header", "walk")
  /\ L!ReadHeader
  /\ rows' = <<>>
  /\ UNCHANGED <<jpegVars, blocks, level, source, target>>

SkipLevel ==
  /\ Goto("walk", "walk")
  /\ L!Skip(level) \/ L!SkipJunk
  /\ UNCHANGED <<jpegVars, entryVars, source, target>>

TakeLevel ==
  /\ Goto("walk", "decode")
  /\ L!Take(level) \/ L!TakeJunk
  /\ UNCHANGED <<jpegVars, entryVars, source, target>>

\* (mutant) the failed read of a size does not leave the loop
LevelMissingIgnored ==
  /\ Goto("walk", "walk")
  /\ L!Missing
  /\ UNCHANGED <<jpegVars, entryVars, source, target>>

LevelMissing ==
  /\ Goto("walk", "absent")
  /\ L!Missing
  /\ UNCHANGED <<jpegVars, entryVars, source, target>>

\* What was parsed from a descriptor that was never filled is no number.
NoNumber ==
  /\ Goto("walk", "absent")
  /\ L!Nameless
  /\ UNCHANGED <<fileVars, jpegVars, entryVars, source, target>>

-----------------------------------------------------------------------------
(* reencodeJpeg.  libjpeg makes an image of any size of what it is given;   *)
(* what it cannot read makes its error handler end the process.  So may a   *)
(* read or write outside the buffers: of an image of one component, or one  *)
(* pixel wide or high that is enlarged.                                     *)

Decode ==
  /\ Goto("decode", "scale")
  /\ source' \in (1 .. MaxSide) \X (1 .. MaxSide) \X Components
  /\ file' = <<>> /\ at' = 0 /\ data' = L!NoData /\ blocks' = <<>>
  /\ UNCHANGED <<jpegVars, rows, level, target>>

DecoderExits ==
  /\ \E k \in DOMAIN data : data[k] = L!Junk
  /\ Forget("decode", "open")

Scale ==
  /\ Goto("scale", "encode")
  /\ target' \in Targets(Longest, source[1], source[2])
  /\ FromRawBytes(target'[1], target'[2], source[3])
  /\ UNCHANGED <<fileVars, entryVars, source>>

Overruns ==
  /\ \E t \in Targets(Longest, source[1], source[2]) :
       ~BytesInside(source[1], source[2], source[3], t)
  /\ Forget("scale", "open")

Encode ==
  /\ pc = "encode"
  /\ Compress
  /\ pc' = CASE phase' = "failed" -> "failed" [] phase' = "compressed" -> "put"
             [] OTHER -> "encode"
  /\ UNCHANGED <<fileVars, entryVars, source, target>>

-----------------------------------------------------------------------------
\* The request has the bytes, or the preview was given up: the next one.
Done == \E from \in {"put", "absent", "failed"} : Forget(from, "open")

Extract == ReadHeader \/ SkipLevel \/ TakeLevel \/ LevelMissing \/ NoNumber

Next == \/ Open \/ OpenFails \/ Choose \/ Extract
        \/ Decode \/ DecoderExits \/ Scale \/ Overruns \/ Encode \/ Done

\* The worker's thread runs.
Spec == Init /\ [][Next]_vars /\ WF_vars(Extract)

-----------------------------------------------------------------------------
\* The level is longer than wanted, so that it is only ever reduced; if the query
\* returns the levels by size, it is the smallest such (closestLevelToDimension).
LevelIsClosest ==
  pc = "header" =>
    /\ Dimension(level) > Longest
    /\ (\A k \in DOMAIN rows : rows[k] = k) =>
         \A k \in DOMAIN rows : Dimension(k) > Longest => level <= k

\* Of a file that is complete extractFromLevel() returns exactly the bytes of the
\* level wanted, past the JSON, the levels before it and the padding of each, and
\* NULL only if the file has no such level.
ExtractedIsTheLevel ==
  (blocks # <<>> /\ file = L!Contents(Json, blocks)) =>
    /\ pc = "decode" => level \in DOMAIN blocks /\ data = L!Image(level, blocks[level].size)
    /\ pc = "absent" => level \notin DOMAIN blocks

\* Of an image of three components or more, reduced, or enlarged from at least 2 by 2,
\* rescaleBuffer() mixes each pixel from bytes of the source, none past the end of its
\* row or the last row, and writes each inside the target.  One of one component is
\* read and written as if it had three, past rows and buffers.
TapsAreInside ==
  LET width == source[1]  height == source[2]  components == source[3] IN
    ( /\ pc \in {"encode", "put"}
      /\ width > Longest \/ height > Longest \/ (width > 1 /\ height > 1)
      /\ components >= 3 )
      => BytesInside(width, height, components, target)

\* An image that fromRawBytes() refuses is never put, although reencodeJpeg() does
\* not look at its result: one so narrow that a side of its target is 0, or whose
\* components are not three.
PutIsAnImage ==
  pc = "put" =>
    /\ phase = "compressed" /\ size > 0
    /\ target[1] > 0 /\ target[2] > 0 /\ source[3] = 3

\* Every turn of the walk begins inside the file and goes forward in it, though feof()
\* never ends it and a part of the file may be missing: there are no more turns than
\* fields (extractFromLevel).
WalkGoesForward ==
  [][pc = "walk" /\ pc' = "walk" => at < Len(file) /\ at' > at]_vars

\* The walk over the levels ends, whatever part of the file has been written.
WalkEnds == (pc \in {"header", "walk"}) ~> (pc \in {"decode", "absent"})
=============================================================================
