-------------------------------- MODULE Jpeg --------------------------------
(***************************************************************************)
(* lib::Jpeg::compress (src/src/jpeg.cpp) with the destination it gives     *)
(* libjpeg: a buffer that grows by a fixed size whenever it is full, and is *)
(* cut to what was written at the end.  The n-th byte libjpeg writes is the *)
(* number n; it calls flushOutputBuffer as soon as no byte is free.         *)
(***************************************************************************)
EXTENDS Naturals, Sequences

CONSTANTS Allocation,   \* kBufferAllocationSize
          MaxOutput     \* bound: bytes of the compressed image

JpegAssumption == Allocation \in Nat \ {0} /\ MaxOutput \in Nat

VARIABLES phase,    \* of the target: "empty", "raw", "compressing", "compressed", "failed"
          buffer,   \* *_byteBuffer, i.e. _compressedBytes
          size,     \* *_bufferSize, i.e. _compressedSize
          next,     \* cinfo->dest->next_output_byte, as an index of buffer
          free,     \* cinfo->dest->free_in_buffer
          written   \* bytes libjpeg has written

jpegVars == <<phase, buffer, size, next, free, written>>

Garbage == 0
Fresh(n) == [k \in 1 .. n |-> Garbage]

JpegTypeOK ==
  /\ phase \in {"empty", "raw", "compressing", "compressed", "failed"}
  /\ buffer \in Seq(0 .. MaxOutput)
  /\ size \in Nat /\ next \in Nat /\ free \in Nat
  /\ written \in 0 .. MaxOutput

JpegInit ==
  /\ phase = "empty" /\ buffer = <<>> /\ size = 0 /\ next = 1 /\ free = 0 /\ written = 0

\* (mutant) the sizes are not tested
FromRawBytesUntested(width, height, components) ==
  /\ phase = "empty"
  /\ phase' = "raw"
  /\ UNCHANGED <<buffer, size, next, free, written>>

\* fromRawBytes refuses an image without width or height, and all but RGB.  (Its
\* bytes are a buffer that was just filled, or has no pixels.)
FromRawBytes(width, height, components) ==
  /\ phase = "empty"
  /\ phase' = IF width > 0 /\ height > 0 /\ components = 3 THEN "raw" ELSE "empty"
  /\ UNCHANGED <<buffer, size, next, free, written>>

\* compress() without raw bytes.
CompressFails ==
  /\ phase = "empty"
  /\ phase' = "failed"
  /\ UNCHANGED <<buffer, size, next, free, written>>

InitialiseDestination ==
  /\ phase = "raw"
  /\ phase' = "compressing"
  /\ buffer' = Fresh(Allocation) /\ size' = Allocation
  /\ next' = 1 /\ free' = Allocation
  /\ UNCHANGED written

\* (mutant) libjpeg goes on at the front of the new buffer
FlushedToFront(bytes) ==
  /\ buffer' = bytes \o Fresh(Allocation) /\ size' = size + Allocation
  /\ next' = 1 /\ free' = Allocation

Flushed(bytes) ==
  /\ buffer' = bytes \o Fresh(Allocation) /\ size' = size + Allocation
  /\ next' = size + 1 /\ free' = Allocation

WriteByte ==
  /\ phase = "compressing" /\ written < MaxOutput
  /\ written' = written + 1
  /\ LET bytes == [buffer EXCEPT ![next] = written + 1] IN
       IF free = 1 THEN Flushed(bytes)
       ELSE buffer' = bytes /\ next' = next + 1 /\ free' = free - 1 /\ UNCHANGED size
  /\ UNCHANGED phase

TerminateDestination ==
  /\ phase = "compressing" /\ written > 0
  /\ size' = size - free
  /\ phase' = "compressed"
  /\ UNCHANGED <<buffer, next, free, written>>

Release ==
  /\ phase' = "empty" /\ buffer' = <<>> /\ size' = 0 /\ next' = 1 /\ free' = 0 /\ written' = 0

Compress == CompressFails \/ InitialiseDestination \/ WriteByte \/ TerminateDestination

JpegNext == \/ Compress \/ Release
            \/ \E width, height, components \in Nat : FromRawBytes(width, height, components)

JpegSpec == JpegInit /\ [][JpegNext]_jpegVars

-----------------------------------------------------------------------------
\* compressedData() hands over all that libjpeg wrote, in order and nothing else,
\* however often the buffer was moved and wherever the output ends in it.
BufferHoldsOutput ==
  phase = "compressed" =>
    /\ size = written
    /\ Len(buffer) >= size
    /\ \A k \in 1 .. size : buffer[k] = k
=============================================================================
