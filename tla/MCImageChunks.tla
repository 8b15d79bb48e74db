---------------------------- MODULE MCImageChunks ----------------------------
(* Instances of ImageChunks for TLC. *)
EXTENDS ImageChunks

\* The first packet of a chunk, while there are two chunks left.
Boundaries == {o \in 0..(ImageSize - 2 * ChunkSize) : o % ChunkSize = 0}

\* Any packet, while there are two chunks left from the start of its chunk.
BeforeTail == {o \in 0..(ImageSize - 1) : Aligned(o) + 2 * ChunkSize <= ImageSize}

\* Any packet.
Anywhere == 0..(ImageSize - 1)

None == {}
=============================================================================
