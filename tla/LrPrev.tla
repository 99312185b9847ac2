------------------------------- MODULE LrPrev -------------------------------
(***************************************************************************)
(* lib::LrPrev (src/src/lrprev.cpp): takes the image of one level out of an *)
(* .lrprev file, which Lightroom may still be writing.  A file is a         *)
(* sequence of fields: a block of JSON, then a block for each level.  The   *)
(* reader never looks at the result of fread but for the size of a level:   *)
(* past the end of the file a field has the value it was declared with.     *)
(***************************************************************************)
EXTENDS Naturals, SequencesExt

VARIABLES file,   \* the fields of the open file, as many as have been written
          at,     \* how many of them are behind the file position
          data    \* jpegBytes: NoData (NULL), or what was read for the level

lrprevVars == <<file, at, data>>

Junk   == <<"junk">>              \* uninitialised memory
NoData == <<>>

Word(n)  == <<"word", n>>
Fill(n)  == [k \in 1 .. n |-> <<"fill">>]
Image(level, size) == [k \in 1 .. size |-> <<"image", level, k>>]

\* Marker and tag, zero, size, zero, padding, name, body, padding.
Block(name, body, pad) ==
  Fill(2) \o <<Word(0), Word(Len(body)), Word(0), Word(pad), <<"name", name>>>>
          \o body \o Fill(pad)

\* blocks[k] is level k: the size of its image and its padding.
Contents(json, blocks) ==
  FlattenSeq(<<Block("header", Fill(json.size), json.pad)>>
             \o [k \in 1 .. Len(blocks) |-> Block(k, Image(k, blocks[k].size), blocks[k].pad)])

Closed == file = <<>> /\ at = 0 /\ data = NoData

\* The file is there and has its marker.
Opened(fields) == file' = fields /\ at' = 0 /\ data' = NoData

-----------------------------------------------------------------------------
\* fread of one word: the variable keeps its value if the file ends before it
ReadWord(pos, declared) ==
  IF pos <= Len(file) THEN file[pos][2] ELSE declared

\* rewind, readHeader, readJsonBlob.  The zeros that are read are zeros, or past the
\* end, where they are declared so.
ReadHeader ==
  /\ at' = at + 7 + ReadWord(at + 4, 0) + ReadWord(at + 6, 0)
  /\ UNCHANGED <<file, data>>

\* (mutant) the size of the level is sought from the beginning of the file
SkipFromStart(level) ==
  /\ at + 7 <= Len(file) /\ file[at + 7][2] # level
  /\ at' = ReadWord(at + 4, 0) + ReadWord(at + 6, 0)
  /\ UNCHANGED <<file, data>>

\* One turn of the loop over the levels, for a block that is not the wanted one ...
Skip(level) ==
  /\ at + 7 <= Len(file) /\ file[at + 7][2] # level
  /\ at' = at + 7 + ReadWord(at + 4, 0) + ReadWord(at + 6, 0)
  /\ UNCHANGED <<file, data>>

\* (mutant) the zero byte that ends the name is taken for the image's first
TakeEarly(level) ==
  /\ at + 7 <= Len(file) /\ file[at + 7][2] = level
  /\ data' = [k \in 1 .. ReadWord(at + 4, 0) |->
                IF at + 6 + k <= Len(file) THEN file[at + 6 + k] ELSE Junk]
  /\ UNCHANGED <<file, at>>

\* ... for the wanted one, of which only a part may be in the file ...
Take(level) ==
  /\ at + 7 <= Len(file) /\ file[at + 7][2] = level
  /\ data' = [k \in 1 .. ReadWord(at + 4, 0) |->
                IF at + 7 + k <= Len(file) THEN file[at + 7 + k] ELSE Junk]
  /\ UNCHANGED <<file, at>>

\* ... and where the file ends before the size of a level.
Missing == at + 4 > Len(file) /\ UNCHANGED lrprevVars

\* Where it ends before the name the loop runs over a descriptor that was never
\* filled, as far as there is a zero byte: any number may be parsed from it.
Nameless == at + 4 <= Len(file) /\ at + 7 > Len(file)

TakeJunk ==
  /\ Nameless
  /\ data' = [k \in 1 .. ReadWord(at + 4, 0) |-> Junk]
  /\ UNCHANGED <<file, at>>

SkipJunk == Nameless /\ at' = Len(file) /\ UNCHANGED <<file, data>>
=============================================================================
