---------------------------- MODULE JpegCruncher ----------------------------
(***************************************************************************)
(* lib::JpegCruncher (src/src/jpegcruncher.cpp): the size of the target and *)
(* the pixels of the source that each of its pixels is mixed from.  The     *)
(* code computes in single precision: where the exact value is a whole      *)
(* number, the result may be just below it and be truncated to one less.    *)
(* (At no size of a preview is the error as large as the distance of        *)
(* another value from the next whole number above, nor do the bytes of one  *)
(* reach 2^32.)                                                             *)
(***************************************************************************)
EXTENDS Naturals

Truncated(numerator, denominator) ==
  LET q == numerator \div denominator
  IN  IF q > 0 /\ numerator % denominator = 0 THEN {q, q - 1} ELSE {q}

\* The shorter side of the target, from the sides of the source.
Shortened(longest, short, long) ==
  IF short = long THEN {longest} ELSE Truncated(longest * short, long)

\* (mutant) the aspect ratio is the other way round
TargetsInverted(longest, width, height) ==
  IF width >= height
  THEN {longest} \X Shortened(longest, width, height)
  ELSE Shortened(longest, height, width) \X {longest}

\* The sizes <<width, height>> of the target.
Targets(longest, width, height) ==
  IF width >= height
  THEN {longest} \X Shortened(longest, height, width)
  ELSE Shortened(longest, width, height) \X {longest}

\* (mutant) the ratio of the sizes instead of the ratio of the steps
TapOfSizes(x, source, target) == IF x = 0 THEN {0} ELSE Truncated(source * x, target)

\* rescaleBuffer: the column (or row) of the source left of the column x of the target
Tap(x, source, target) == IF x = 0 THEN {0} ELSE Truncated((source - 1) * x, target)

\* All columns (or rows) read are in the source: the left one and the next one.
TapsInside(source, target) ==
  \A x \in 0 .. target - 1 : \A tap \in Tap(x, source, target) :
    0 <= tap /\ tap + 1 <= source - 1

\* The first byte of a pixel, and whether the three bytes used of it (red, green and
\* blue, whatever the number of components) are in its row, and that in the buffer.
Index(x, y, width, components) == (y * width + x) * components

PixelInside(x, y, width, height, components) ==
  /\ x >= 0 /\ y >= 0 /\ y + 1 <= height
  /\ Index(x, y, width, components) + 2 < Index(0, y + 1, width, components)

\* For each pixel of the target: the four it is mixed from, and itself.  (A tap is
\* loaded as four bytes; the fourth, masked out, may be the one behind the source.)
BytesInside(width, height, components, target) ==
  \A x \in 0 .. target[1] - 1, y \in 0 .. target[2] - 1 :
    /\ \A column \in Tap(x, width, target[1]), row \in Tap(y, height, target[2]),
          right, below \in {0, 1} :
         PixelInside(column + right, row + below, width, height, components)
    /\ PixelInside(x, y, target[1], target[2], components)
=============================================================================
