----------------------------- MODULE Blake3Tree -----------------------------
(***************************************************************************)
(* The values the BLAKE3 hasher computes with, and the tree it promises.   *)
(*                                                                         *)
(* A chaining value is abstracted to what it depends on: the run of chunks *)
(* it covers and the set of tree nodes compressed to obtain it.  A node    *)
(* carries everything that enters its compression (the mode, i.e. key      *)
(* words and domain flags, the chunk counter, the position and number of   *)
(* message bytes), so two nodes are equal exactly when the code would      *)
(* compress the same input, collisions aside.                              *)
(*                                                                         *)
(* Nothing here is recursive: the tree of a message of any length is given *)
(* in closed form, which is also what the proofs use.                      *)
(***************************************************************************)
EXTENDS Integers, FiniteSets, FiniteSetsExt

CONSTANTS
  Modes,      \* key words and domain flags a hasher can be initialised with
  CHUNK_LEN,  \* bytes in a chunk (1024 in the code)
  MaxLen      \* bound on the bytes of one message (2^64 in the code)

(***************************************************************************)
(* Powers of two up to the bound: the numbers whose only odd divisor is 1. *)
(***************************************************************************)
Pow2 == {p \in 1..MaxLen : \A d \in 1..p : p % d = 0 => (d = 1 \/ d % 2 = 0)}

ASSUME ChunkLenAssumption == MaxLen \in Nat /\ CHUNK_LEN \in Pow2

\* The number of 1 bits of x, and the largest power of two not above x.
BitsOf(x) == {p \in Pow2 : (x \div p) % 2 = 1}
popcnt(x) == Cardinality(BitsOf(x))
round_down_to_power_of_2(x) == Max({p \in Pow2 : p <= IF x = 0 THEN 1 ELSE x})

-----------------------------------------------------------------------------
(***************************************************************************)
(* Nodes and chaining values.                                              *)
(***************************************************************************)
\* A chunk: its counter, and the message bytes [at, at + len) it holds.
ChunkNode(mode, counter, at, len) == <<"chunk", mode, counter, at, len>>

\* A parent of the chunks [lo, mid) on its left and [mid, hi) on its right.
ParentNode(mode, lo, mid, hi) == <<"parent", mode, lo, mid, hi>>

(***************************************************************************)
(* output_t: a node that is not compressed yet (it may become the root),   *)
(* with the nodes already compressed below it.                             *)
(***************************************************************************)
chunk_output(mode, chunk) ==
  [lo |-> chunk.counter, hi |-> chunk.counter + 1, below |-> {},
   top |-> ChunkNode(mode, chunk.counter, chunk.at, chunk.len)]

parent_output(mode, left, right) ==
  [lo |-> left.lo, hi |-> right.hi, below |-> left.nodes \cup right.nodes,
   top |-> ParentNode(mode, left.lo, right.lo, right.hi)]

output_chaining_value(output) ==
  [lo |-> output.lo, hi |-> output.hi,
   nodes |-> output.below \cup {output.top}]

-----------------------------------------------------------------------------
(***************************************************************************)
(* A complete subtree: n chunks (a power of two) whose first has counter   *)
(* lo and whose bytes start at `at'.                                       *)
(***************************************************************************)
CompleteNodes(mode, lo, n, at) ==
  {ChunkNode(mode, lo + i, at + i * CHUNK_LEN, CHUNK_LEN) : i \in 0..(n-1)}
    \cup
  {ParentNode(mode, lo + ip[1], lo + ip[1] + ip[2], lo + ip[1] + 2 * ip[2]) :
     ip \in {ip \in (0..(n-1)) \X Pow2 :
               ip[1] % (2 * ip[2]) = 0 /\ ip[1] + 2 * ip[2] <= n}}

CompleteCV(mode, lo, n, at) ==
  [lo |-> lo, hi |-> lo + n, nodes |-> CompleteNodes(mode, lo, n, at)]

(***************************************************************************)
(* compress_subtree_to_parent_node: the chaining values of the two halves  *)
(* of a subtree of n chunks, not yet joined since their parent may be the  *)
(* root.                                                                   *)
(***************************************************************************)
SubtreePair_SameCounter(m, counter, at, n) ==
  LET half == n \div 2
  IN  <<CompleteCV(m, counter, half, at),
        [CompleteCV(m, counter, half, at + half * CHUNK_LEN)
           EXCEPT !.lo = counter + half, !.hi = counter + n]>>

SubtreePair(m, counter, at, n) ==
  LET half == n \div 2
  IN  <<CompleteCV(m, counter, half, at),
        CompleteCV(m, counter + half, half, at + half * CHUNK_LEN)>>

(***************************************************************************)
(* The reference: the tree of a message of len bytes.  Every parent has in *)
(* its left subtree the largest power of two of chunks that leaves its     *)
(* right subtree at least one byte.                                        *)
(***************************************************************************)
ChunkCount(len) == IF len = 0 THEN 1 ELSE (len + CHUNK_LEN - 1) \div CHUNK_LEN

RefNodes(mode, len) ==
  LET N == ChunkCount(len)
      Bytes(c) == IF c < N - 1 THEN CHUNK_LEN ELSE len - c * CHUNK_LEN
  IN  {ChunkNode(mode, c, c * CHUNK_LEN, Bytes(c)) : c \in 0..(N-1)}
        \cup
      {ParentNode(mode, cp[1], cp[1] + cp[2], Min({cp[1] + 2 * cp[2], N})) :
         cp \in {cp \in (0..(N-1)) \X Pow2 :
                   cp[1] % (2 * cp[2]) = 0 /\ cp[1] + cp[2] < N}}

RefRoot(mode, len) ==
  LET N == ChunkCount(len)
  IN  IF N = 1 THEN ChunkNode(mode, 0, 0, len)
      ELSE ParentNode(mode, 0, Max({p \in Pow2 : p < N}), N)

RefOutput(mode, len) ==
  [lo |-> 0, hi |-> ChunkCount(len),
   below |-> RefNodes(mode, len) \ {RefRoot(mode, len)},
   top |-> RefRoot(mode, len)]
=============================================================================
