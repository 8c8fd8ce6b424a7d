---------------------------- MODULE MCChunkState ----------------------------
(***************************************************************************)
(* ChunkState on chunks of a few blocks.                                   *)
(***************************************************************************)
EXTENDS ChunkState

\* A first block, a last one and two between them.
ASSUME FourBlocks == CHUNK_LEN = 4 * BLOCK_LEN
=============================================================================
