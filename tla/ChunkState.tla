----------------------------- MODULE ChunkState -----------------------------
(***************************************************************************)
(* blake3_chunk_state (native/blake3_c/blake3.c): the chunk in progress,   *)
(* which Blake3Hasher knows only by its counter, position and length.      *)
(*                                                                         *)
(* The chunk's blocks are compressed one after the other, except that the  *)
(* last one stays in the buffer until more input comes, since the last     *)
(* compression of a chunk carries CHUNK_END.                               *)
(*                                                                         *)
(* The i-th byte of a chunk is represented by i and a zero byte by 0, so   *)
(* that a byte in the wrong place, or left over from an earlier block, is  *)
(* another block.  cv is the sequence of the compressions that made it,    *)
(* empty for the key words.  self->flags never changes and is left out.    *)
(***************************************************************************)
EXTENDS Integers, Sequences

CONSTANTS
  BLOCK_LEN,      \* bytes in a block (64 in the code)
  CHUNK_LEN,      \* bytes in a chunk (1024 in the code)
  Counters        \* chunk counters

ASSUME BlocksAssumption ==
  /\ BLOCK_LEN \in Nat \ {0}
  /\ CHUNK_LEN \in Nat \ {0}
  /\ CHUNK_LEN % BLOCK_LEN = 0
  /\ Counters # {}

VARIABLES
  chunk_counter, cv, buf, buf_len, blocks_compressed,   \* the fields
  pc,             \* where the running chunk_state_update is
  input,          \* bytes of the chunk read so far: where the input starts
  input_len       \* bytes of the running update still to read

vars == <<chunk_counter, cv, buf, buf_len, blocks_compressed, pc, input, input_len>>

chunk_state_len == BLOCK_LEN * blocks_compressed + buf_len

Zeros == [j \in 1..BLOCK_LEN |-> 0]
Cleared_Stale(block) == block
Cleared(block) == Zeros

\* n bytes of the input in the buffer, behind the buf_len that are there.
Filled(n) ==
  [j \in 1..BLOCK_LEN |->
     IF j \in (buf_len + 1)..(buf_len + n) THEN input + j - buf_len ELSE buf[j]]

Take_Uncapped(room, offered) == offered
Take(room, offered) == IF room > offered THEN offered ELSE room

\* What enters one compression of a block.
Compression(block, len, counter, flags) ==
  [block |-> block, len |-> len, counter |-> counter, flags |-> flags]

maybe_start_flag(compressed) == IF compressed = 0 THEN {"CHUNK_START"} ELSE {}

chunk_state_output ==
  [cv |-> cv,
   last |-> Compression(buf, buf_len, chunk_counter,
                        maybe_start_flag(blocks_compressed) \cup {"CHUNK_END"})]
-----------------------------------------------------------------------------
Init ==
  /\ chunk_counter \in Counters
  /\ cv = <<>>
  /\ buf = Zeros
  /\ buf_len = 0
  /\ blocks_compressed = 0
  /\ pc = "idle"
  /\ input = 0
  /\ input_len = 0

\* chunk_state_reset, or chunk_state_init and the counter given after it.
Reset(counter) ==
  /\ pc = "idle"
  /\ chunk_counter' = counter
  /\ cv' = <<>>
  /\ buf' = Zeros
  /\ buf_len' = 0
  /\ blocks_compressed' = 0
  /\ input' = 0
  /\ UNCHANGED <<pc, input_len>>

\* The hasher moves an empty chunk past a subtree hashed without it.
SkipTo(counter) ==
  /\ pc = "idle"
  /\ chunk_state_len = 0
  /\ chunk_counter' = counter
  /\ UNCHANGED <<cv, buf, buf_len, blocks_compressed, pc, input, input_len>>

(***************************************************************************)
(* chunk_state_update(self, input, n) is called.  The hasher offers no     *)
(* more than fits the chunk, and nothing only when the chunk is full.      *)
(***************************************************************************)
Update(n) ==
  /\ pc = "idle"
  /\ chunk_state_len + n <= CHUNK_LEN
  /\ n = 0 => chunk_state_len = CHUNK_LEN
  /\ input_len' = n
  /\ pc' = IF buf_len > 0 THEN "fill" ELSE "blocks"
  /\ UNCHANGED <<chunk_counter, cv, buf, buf_len, blocks_compressed, input>>

\* Compress this block into cv; the block after it is not the first.
CompressInPlace(block) ==
  /\ cv' = Append(cv, Compression(block, BLOCK_LEN, chunk_counter,
                                  maybe_start_flag(blocks_compressed)))
  /\ blocks_compressed' = blocks_compressed + 1

\* Top up the block in the buffer; compress it only if more input follows.
FillBlock ==
  LET take == Take(BLOCK_LEN - buf_len, input_len)
  IN  /\ pc = "fill"
      /\ IF input_len - take > 0
         THEN /\ CompressInPlace(Filled(take))
              /\ buf' = Cleared(Filled(take))
              /\ buf_len' = 0
         ELSE /\ buf' = Filled(take)
              /\ buf_len' = buf_len + take
              /\ UNCHANGED <<cv, blocks_compressed>>
      /\ input' = input + take
      /\ input_len' = input_len - take
      /\ pc' = "blocks"
      /\ UNCHANGED chunk_counter

\* Blocks that are not the last of the input are compressed where they are.
MoreThanABlock_OffByOne == input_len >= BLOCK_LEN
MoreThanABlock == input_len > BLOCK_LEN

CompressBlock ==
  /\ pc = "blocks"
  /\ MoreThanABlock
  /\ CompressInPlace([j \in 1..BLOCK_LEN |-> input + j])
  /\ input' = input + BLOCK_LEN
  /\ input_len' = input_len - BLOCK_LEN
  /\ UNCHANGED <<chunk_counter, buf, buf_len, pc>>

\* The rest of the input goes to the buffer.
KeepLastBlock ==
  LET take == Take(BLOCK_LEN - buf_len, input_len)
  IN  /\ pc = "blocks"
      /\ ~MoreThanABlock
      /\ buf' = Filled(take)
      /\ buf_len' = buf_len + take
      /\ input' = input + take
      /\ input_len' = 0
      /\ pc' = "idle"
      /\ UNCHANGED <<chunk_counter, cv, blocks_compressed>>
-----------------------------------------------------------------------------
Next ==
  \/ \E counter \in Counters : Reset(counter) \/ SkipTo(counter)
  \/ \E n \in 0..CHUNK_LEN : Update(n)
  \/ FillBlock
  \/ CompressBlock
  \/ KeepLastBlock

Spec == Init /\ [][Next]_vars
-----------------------------------------------------------------------------
(***************************************************************************)
(* The reference: the compressions of a chunk of len bytes.                *)
(***************************************************************************)
BlockCount(len) == IF len = 0 THEN 1 ELSE (len + BLOCK_LEN - 1) \div BLOCK_LEN

RefCompression(counter, len, i) ==
  LET before == (i - 1) * BLOCK_LEN
      last == i = BlockCount(len)
  IN  Compression([j \in 1..BLOCK_LEN |-> IF before + j <= len THEN before + j ELSE 0],
                  IF last THEN len - before ELSE BLOCK_LEN,
                  counter,
                  (IF i = 1 THEN {"CHUNK_START"} ELSE {})
                    \cup (IF last THEN {"CHUNK_END"} ELSE {}))

RefOutput(counter, len) ==
  LET n == BlockCount(len)
  IN  [cv |-> [i \in 1..(n-1) |-> RefCompression(counter, len, i)],
       last |-> RefCompression(counter, len, n)]
-----------------------------------------------------------------------------
Bytes == 0..CHUNK_LEN
Compressions ==
  [block : [1..BLOCK_LEN -> Bytes], len : 0..BLOCK_LEN, counter : Counters,
   flags : SUBSET {"CHUNK_START", "CHUNK_END"}]

(***************************************************************************)
(* The types; buf_len and blocks_compressed, bytes in the code, are far    *)
(* from overflow, and the last block of a chunk is never counted as        *)
(* compressed.                                                             *)
(***************************************************************************)
TypeOK ==
  /\ chunk_counter \in Counters
  /\ cv \in Seq(Compressions)
  /\ buf \in [1..BLOCK_LEN -> Bytes]
  /\ buf_len \in 0..BLOCK_LEN
  /\ blocks_compressed \in 0..(CHUNK_LEN \div BLOCK_LEN - 1)
  /\ pc \in {"idle", "fill", "blocks"}
  /\ input \in Bytes
  /\ input_len \in Bytes

(***************************************************************************)
(* What Blake3Hasher takes a chunk to be: between calls its length is the  *)
(* bytes it was given, and its output depends on the counter and that      *)
(* length alone.  Every block was compressed once, in order, whole, the    *)
(* first one and only it as the start, and the last one is padded with     *)
(* zeros and is the end, however the bytes were cut into updates.          *)
(***************************************************************************)
OutputIsReference ==
  pc = "idle" =>
    /\ chunk_state_len = input
    /\ chunk_state_output = RefOutput(chunk_counter, input)

(***************************************************************************)
(* A block is compressed only when more input is known to follow: at every *)
(* step the compressions made are right for every length the chunk may     *)
(* still have, the one it has if no other call comes included.             *)
(***************************************************************************)
LastBlockKept ==
  \A len \in (input + input_len)..CHUNK_LEN :
    /\ Len(cv) < BlockCount(len)
    /\ \A i \in 1..Len(cv) : cv[i] = RefCompression(chunk_counter, len, i)
=============================================================================
