------------------------------ MODULE HashMany ------------------------------
(***************************************************************************)
(* blake3_hash_many (native/blake3_c/blake3_portable.c): whole chunks, or  *)
(* parents, hashed without the chunk state, as compress_chunks_parallel    *)
(* and compress_parents_parallel call it.  A chunk must get the chaining   *)
(* value that the chunk state would give it, and a parent that of          *)
(* parent_output: the same tree is hashed both ways, depending on how the  *)
(* message was cut.  A hasher calls it while its own chunk is empty.       *)
(*                                                                         *)
(* Values are those of ChunkState; a compression also says which input it  *)
(* is of, and carries the flags of the mode, which ChunkState leaves out.  *)
(***************************************************************************)
EXTENDS ChunkState

CONSTANTS
  MaxInputs,              \* bound on the inputs of a call (MAX_SIMD_DEGREE)
  ModeFlags               \* the sets of flags of a mode

ASSUME InputsAssumption == MaxInputs \in Nat /\ Counters \subseteq Nat

VARIABLES
  loop,            \* "none", "many" or "one": the loop of which function runs
  call,            \* the arguments that stay as they are
  next_counter,    \* the counter of the next input
  next_input,      \* the number of the next input
  blocks_done,     \* blocks of it compressed
  block_flags,
  one_cv, out      \* its chaining value so far, and those stored

manyVars ==
  <<loop, call, next_counter, next_input, blocks_done, block_flags, one_cv, out>>

Of(n, compression) == [input |-> n, compression |-> compression]

\* The block of an input that starts behind its first n blocks.
BlockAt(n) == [j \in 1..BLOCK_LEN |-> n * BLOCK_LEN + j]

\* The arguments of compress_chunks_parallel and compress_parents_parallel.
ChunksCall(n, c, mode) ==
  [num_inputs |-> n, blocks |-> CHUNK_LEN \div BLOCK_LEN, counter |-> c,
   increment_counter |-> TRUE, flags |-> mode, mode |-> mode,
   flags_start |-> {"CHUNK_START"}, flags_end |-> {"CHUNK_END"}]

ParentsCall(n, mode) ==
  [num_inputs |-> n, blocks |-> 1, counter |-> 0,
   increment_counter |-> FALSE, flags |-> mode \cup {"PARENT"}, mode |-> mode,
   flags_start |-> {}, flags_end |-> {}]

\* The flags of the block after this one.
NextFlags_Kept == block_flags
NextFlags == call.flags
-----------------------------------------------------------------------------
ManyInit ==
  /\ Init
  /\ loop = "none"
  /\ call = ParentsCall(0, {})
  /\ next_counter = 0 /\ next_input = 1 /\ blocks_done = 0
  /\ block_flags = {}
  /\ one_cv = <<>> /\ out = <<>>

\* blake3_hash_many is called.
Hash(arguments) ==
  /\ loop = "none"
  /\ pc = "idle" /\ chunk_state_len = 0
  /\ call' = arguments
  /\ next_counter' = arguments.counter
  /\ next_input' = 1
  /\ out' = <<>>
  /\ loop' = "many"
  /\ UNCHANGED <<blocks_done, block_flags, one_cv>>

\* hash_one is called for the next input.
StartInput ==
  /\ loop = "many"
  /\ next_input <= call.num_inputs
  /\ one_cv' = <<>>
  /\ blocks_done' = 0
  /\ block_flags' = call.flags \cup call.flags_start
  /\ loop' = "one"
  /\ UNCHANGED <<call, next_counter, next_input, out>>

HashBlock ==
  LET last == call.blocks - blocks_done = 1
      flags == block_flags \cup (IF last THEN call.flags_end ELSE {})
      compression == Compression(BlockAt(blocks_done), BLOCK_LEN, next_counter, flags)
  IN  /\ loop = "one"
      /\ blocks_done < call.blocks
      /\ one_cv' = Append(one_cv, Of(next_input, compression))
      /\ blocks_done' = blocks_done + 1
      /\ block_flags' = NextFlags
      /\ UNCHANGED <<loop, call, next_counter, next_input, out>>

\* hash_one returns; the loop goes on with the input after it.
StoreCV ==
  /\ loop = "one"
  /\ blocks_done = call.blocks
  /\ out' = Append(out, one_cv)
  /\ next_counter' = IF call.increment_counter THEN next_counter + 1 ELSE next_counter
  /\ next_input' = next_input + 1
  /\ loop' = "many"
  /\ UNCHANGED <<call, blocks_done, block_flags, one_cv>>

\* The loop is over when no input is left.
AllDone == next_input > call.num_inputs

Return ==
  /\ loop = "many"
  /\ AllDone
  /\ loop' = "none"
  /\ UNCHANGED <<call, next_counter, next_input, blocks_done, block_flags, one_cv, out>>
-----------------------------------------------------------------------------
HashManyStep ==
  \/ \E n \in 1..MaxInputs, mode \in ModeFlags : Hash(ParentsCall(n, mode))
  \/ \E n \in 0..MaxInputs, c \in Counters, mode \in ModeFlags :
       Hash(ChunksCall(n, c, mode))
  \/ StartInput
  \/ HashBlock
  \/ StoreCV
  \/ Return

ManyNext ==
  \/ HashManyStep /\ UNCHANGED vars
  \/ loop = "none" /\ Next /\ UNCHANGED manyVars

ManySpec == ManyInit /\ [][ManyNext]_<<vars, manyVars>>
-----------------------------------------------------------------------------
(***************************************************************************)
(* The reference: what the chunk state gives for a whole chunk of counter  *)
(* c (OutputIsReference), and parent_output for a parent.                  *)
(***************************************************************************)
InMode(x, mode) == Compression(x.block, x.len, x.counter, x.flags \cup mode)

ChunkCV(n, c, mode) ==
  [i \in 1..BlockCount(CHUNK_LEN) |-> Of(n, InMode(RefCompression(c, CHUNK_LEN, i), mode))]

ParentCV(n, mode) ==
  <<Of(n, Compression(BlockAt(0), BLOCK_LEN, 0, mode \cup {"PARENT"}))>>

(***************************************************************************)
(* Every input, however many go before it, gets the chaining value it      *)
(* would get alone: chunks that of the chunk state with the next counter   *)
(* each, parents that of parent_output with counter 0; and a call that is  *)
(* over has stored one for each of its inputs.                             *)
(***************************************************************************)
SameAsAlone ==
  /\ \A n \in 1..Len(out) :
       out[n] = IF call.increment_counter
                THEN ChunkCV(n, call.counter + n - 1, call.mode)
                ELSE ParentCV(n, call.mode)
  /\ loop = "none" => Len(out) = call.num_inputs
=============================================================================
