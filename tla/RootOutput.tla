----------------------------- MODULE RootOutput -----------------------------
(***************************************************************************)
(* output_root_bytes and blake3_xof_many (native/blake3_c/blake3.c and     *)
(* blake3_dispatch.c): a window of the output, which has no end.           *)
(*                                                                         *)
(* Block c of the output is the root node compressed with c as its         *)
(* counter; its byte k is represented by <<c, k>>, so that a byte of       *)
(* another block, or from another place in it, is another byte.  The       *)
(* caller's buffer goes on behind the window it asked for, to show writes  *)
(* that leave it.  The node itself never changes and is left out, and so   *)
(* is a call for no bytes at all, which returns at once.                   *)
(***************************************************************************)
EXTENDS Integers

CONSTANTS
  BLOCK_LEN,      \* bytes in a block of output (64 in the code)
  MaxSeek,        \* bound on where a window starts (2^64 - 1 in the code)
  MaxOutLen       \* bound on the bytes of a window

ASSUME WindowAssumption ==
  BLOCK_LEN \in Nat \ {0} /\ MaxSeek \in Nat /\ MaxOutLen \in Nat

VARIABLES
  pc,                    \* where the running output_root_bytes is
  seek, asked,           \* the window: its start, and out_len as given
  output_block_counter,
  i,                     \* blocks blake3_xof_many has written
  at,                    \* bytes the pointer out was moved by
  out_len,               \* bytes still to write
  out                    \* the caller's buffer

vars == <<pc, seek, asked, output_block_counter, i, at, out_len, out>>

Untouched == <<>>
Buffer == 1..(MaxOutLen + BLOCK_LEN)

\* n bytes of block c from its byte k on, copied behind the first p of out.
Copied(n, p, c, k) ==
  [j \in Buffer |-> IF j \in (p + 1)..(p + n) THEN <<c, k + (j - p - 1)>> ELSE out[j]]

\* n whole blocks from block c on, written behind the first p bytes of out.
Blocks(n, p, c) ==
  [j \in Buffer |-> IF j \in (p + 1)..(p + n * BLOCK_LEN)
                    THEN <<c + (j - p - 1) \div BLOCK_LEN, (j - p - 1) % BLOCK_LEN>>
                    ELSE out[j]]

\* output_block_counter after the partial block a window may start with.
Following_Same(c) == c
Following(c) == c + 1

\* out_len > available_bytes ? available_bytes : out_len
Capped_No(n, available) == available
Capped(n, available) == IF n > available THEN available ELSE n

\* What is left of out_len after its whole blocks.
Rest_None(n) == 0
Rest(n) == n % BLOCK_LEN
-----------------------------------------------------------------------------
Init ==
  /\ pc = "idle"
  /\ seek = 0 /\ asked = 0
  /\ output_block_counter = 0
  /\ i = 0 /\ at = 0 /\ out_len = 0
  /\ out = [j \in Buffer |-> Untouched]

\* blake3_hasher_finalize_seek reaches output_root_bytes with this window.
Call(s, n) ==
  /\ pc = "idle"
  /\ seek' = s
  /\ asked' = n
  /\ output_block_counter' = s \div BLOCK_LEN
  /\ out_len' = n
  /\ at' = 0
  /\ out' = [j \in Buffer |-> Untouched]
  /\ pc' = IF s % BLOCK_LEN # 0 THEN "first" ELSE "whole"
  /\ UNCHANGED i

\* The end of a block that the window starts within.
FirstBlock ==
  LET offset == seek % BLOCK_LEN
      bytes  == Capped(out_len, BLOCK_LEN - offset)
  IN  /\ pc = "first"
      /\ out' = Copied(bytes, at, output_block_counter, offset)
      /\ at' = at + bytes
      /\ out_len' = out_len - bytes
      /\ output_block_counter' = Following(output_block_counter)
      /\ pc' = "whole"
      /\ UNCHANGED <<seek, asked, i>>

\* blake3_xof_many: a kernel that writes all blocks, or a pass of the loop.
WideXof ==
  LET n == out_len \div BLOCK_LEN
  IN  /\ pc = "whole"
      /\ i = 0 /\ n > 0
      /\ out' = Blocks(n, at, output_block_counter)
      /\ i' = n
      /\ UNCHANGED <<pc, seek, asked, output_block_counter, at, out_len>>

XofBlock ==
  /\ pc = "whole"
  /\ i < out_len \div BLOCK_LEN
  /\ out' = Blocks(1, at + BLOCK_LEN * i, output_block_counter + i)
  /\ i' = i + 1
  /\ UNCHANGED <<pc, seek, asked, output_block_counter, at, out_len>>

\* The pointer, the counter and out_len move past the whole blocks.
PassBlocks ==
  LET n == out_len \div BLOCK_LEN
  IN  /\ pc = "whole"
      /\ i = n
      /\ output_block_counter' = output_block_counter + n
      /\ at' = at + n * BLOCK_LEN
      /\ out_len' = Rest(out_len)
      /\ i' = 0
      /\ pc' = IF Rest(out_len) # 0 THEN "last" ELSE "idle"
      /\ UNCHANGED <<seek, asked, out>>

\* The start of the block that the window ends within.
LastBlock ==
  /\ pc = "last"
  /\ out' = Copied(out_len, at, output_block_counter, 0)
  /\ pc' = "idle"
  /\ UNCHANGED <<seek, asked, output_block_counter, i, at, out_len>>
-----------------------------------------------------------------------------
Next ==
  \/ \E s \in 0..MaxSeek, n \in 1..MaxOutLen : Call(s, n)
  \/ FirstBlock
  \/ WideXof
  \/ XofBlock
  \/ PassBlocks
  \/ LastBlock

Spec == Init /\ [][Next]_vars
-----------------------------------------------------------------------------
\* The reference: byte p of the output.
StreamByte(p) == <<p \div BLOCK_LEN, p % BLOCK_LEN>>

\* The types; inside a call nothing reaches behind the buffer.
TypeOK ==
  /\ pc \in {"idle", "first", "whole", "last"}
  /\ seek \in 0..MaxSeek
  /\ asked \in 0..MaxOutLen
  /\ output_block_counter \in Nat
  /\ i \in 0..MaxOutLen
  /\ at \in 0..MaxOutLen
  /\ out_len \in 0..MaxOutLen
  /\ out \in [Buffer -> {Untouched} \cup (Nat \X (0..(BLOCK_LEN - 1)))]

(***************************************************************************)
(* At every step, whatever kernel wrote it, a byte in the caller's buffer  *)
(* is the byte of the output that belongs there, and no byte behind the    *)
(* window asked for was written.                                           *)
(***************************************************************************)
OnlyTheWindow ==
  \A j \in Buffer : out[j] # Untouched => j <= asked /\ out[j] = StreamByte(seek + j - 1)

(***************************************************************************)
(* A call that is over has written every byte of its window: windows of    *)
(* one output agree where they overlap, so the first 32 bytes of a long    *)
(* output are the hash, and output read in pieces is the output.           *)
(***************************************************************************)
WindowComplete == pc = "idle" => \A j \in 1..asked : out[j] # Untouched
=============================================================================
