---------------------------- MODULE SubtreeWide -----------------------------
(***************************************************************************)
(* compress_subtree_to_parent_node and what it calls                       *)
(* (native/blake3_c/blake3.c): a subtree is hashed to as many chaining     *)
(* values as the SIMD degree, which are condensed to the two below its     *)
(* root.                                                                   *)
(*                                                                         *)
(* The recursion of blake3_compress_subtree_wide is a stack of             *)
(* activations, each with its own cv_array; a call, and a return with what *)
(* it writes to its caller's array, is a step.  A slot nobody wrote holds  *)
(* Garbage.  The names of the state machine differ from Blake3Hasher's,    *)
(* whose proofs use what is proved of this module.                         *)
(***************************************************************************)
EXTENDS Blake3Tree, Sequences

CONSTANTS
  Targets,        \* records: arch, big_endian, BLAKE3_USE_NEON where the build
                  \* sets it ("unset" where not), and what the dispatch's
                  \* compiled-in kernels make of an x86 processor (lanes)
  Counters        \* chunk counters a subtree starts at

\* The degrees of the dispatch's kernels: AVX-512, AVX2, SSE, and portable C.
ASSUME TargetsAssumption ==
  /\ Targets \subseteq [arch : STRING, big_endian : BOOLEAN, neon : {"0", "1", "unset"},
                         lanes : {1, 4, 8, 16}]
  /\ Counters \subseteq Nat

VARIABLES
  target,         \* what the code is compiled for and runs on
  args,           \* mode, chunk_counter and input_len of the call
  calls,          \* the activations of blake3_compress_subtree_wide
  cv_array,       \* the chaining values at the start of the local cv_array
  fits,           \* no write so far was outside of its buffer
  stage           \* where the call is: "wide", "condense" or "done"

wideVars == <<target, args, calls, cv_array, fits, stage>>

num_cvs == Len(cv_array)
\* What a slot nobody wrote is read as: the chaining value of nothing.
Garbage == [lo |-> -1, hi |-> -1, nodes |-> {}]

(***************************************************************************)
(* What the preprocessor makes of a target, and the degree of the kernel   *)
(* that runs there: on x86 that which CpuDispatch chooses.                 *)
(***************************************************************************)
IS_X86(t) == t.arch \in {"x86_64", "i386"}
IS_AARCH64(t) == t.arch = "aarch64"

BLAKE3_USE_NEON(t) ==
  IF t.neon = "unset" THEN IS_AARCH64(t) /\ ~t.big_endian ELSE t.neon = "1"

MAX_SIMD_DEGREE(t) == IF IS_X86(t) THEN 16 ELSE IF BLAKE3_USE_NEON(t) THEN 4 ELSE 1

blake3_simd_degree(t) ==
  IF IS_X86(t) /\ t.lanes > 1 THEN t.lanes ELSE IF BLAKE3_USE_NEON(t) THEN 4 ELSE 1

\* What the target's code uses: MAX_SIMD_DEGREE_OR_2, and its degree.
OR_2 == IF MAX_SIMD_DEGREE(target) > 2 THEN MAX_SIMD_DEGREE(target) ELSE 2
degree == blake3_simd_degree(target)

left_subtree_len_Balanced(len) == (ChunkCount(len) \div 2) * CHUNK_LEN
left_subtree_len(len) == round_down_to_power_of_2((len - 1) \div CHUNK_LEN) * CHUNK_LEN

\* The chunks of input, the last one maybe partial, hashed side by side.
compress_chunks_parallel(counter, at, len) ==
  LET Chunk(i) ==
        [counter |-> counter + i, at |-> at + i * CHUNK_LEN,
         len |-> IF i < len \div CHUNK_LEN THEN CHUNK_LEN ELSE len - i * CHUNK_LEN]
  IN  [i \in 1..ChunkCount(len) |->
         output_chaining_value(chunk_output(args.mode, Chunk(i - 1)))]

\* Neighbours joined pairwise; an odd one left over is passed on.
compress_parents_parallel(cvs) ==
  [i \in 1..((Len(cvs) + 1) \div 2) |->
     IF 2 * i <= Len(cvs)
     THEN output_chaining_value(parent_output(args.mode, cvs[2*i - 1], cvs[2*i]))
     ELSE cvs[2*i - 1]]

\* right_cvs: the slots of a level's cv_array before those of the right half.
RightSlot_Max(left_len) == OR_2
RightSlot_NoMinimum(left_len) == degree
RightSlot(left_len) == IF left_len > CHUNK_LEN /\ degree = 1 THEN 2 ELSE degree

(***************************************************************************)
(* An activation: its arguments, how far it is (its left or right half is  *)
(* being hashed, or it is about to join them) and its locals.              *)
(***************************************************************************)
Activation(counter, at, len) ==
  [counter |-> counter, at |-> at, len |-> len, step |-> "entered",
   cvs |-> [s \in 1..(2 * OR_2) |-> Garbage], left_n |-> 0, right_n |-> 0]

top == calls[Len(calls)]
LeftLen(call) == left_subtree_len(call.len)
LeftOf(call) == Activation(call.counter, call.at, LeftLen(call))
RightOf(call) ==
  Activation(call.counter + LeftLen(call) \div CHUNK_LEN, call.at + LeftLen(call),
             call.len - LeftLen(call))

\* A call whose half returned with these chaining values.
Received(call, cvs) ==
  LET skip == IF call.step = "left" THEN 0 ELSE RightSlot(LeftLen(call))
      written == [s \in DOMAIN call.cvs |->
                    IF s - skip \in DOMAIN cvs THEN cvs[s - skip] ELSE call.cvs[s]]
  IN  IF call.step = "left"
      THEN [call EXCEPT !.cvs = written, !.left_n = Len(cvs), !.step = "right"]
      ELSE [call EXCEPT !.cvs = written, !.right_n = Len(cvs), !.step = "join"]

\* The slots that the running activation may write to: its half of its
\* caller's cv_array, or compress_subtree_to_parent_node's.
OwnSlots ==
  LET caller == calls[Len(calls) - 1]
      mid == RightSlot(LeftLen(caller))
  IN  IF Len(calls) = 1 THEN OR_2
      ELSE IF caller.step = "left" THEN mid ELSE 2 * OR_2 - mid
-----------------------------------------------------------------------------
\* compress_subtree_to_parent_node is called, on input that starts where
\* the chunks before it end.
WideInit ==
  /\ target \in Targets
  /\ args \in [mode : Modes, chunk_counter : Counters,
               input_len : (CHUNK_LEN + 1)..MaxLen]
  /\ calls = <<Activation(args.chunk_counter, args.chunk_counter * CHUNK_LEN,
                         args.input_len)>>
  /\ cv_array = <<>>
  /\ fits = TRUE
  /\ stage = "wide"

\* The running activation returns; its inputs fitted where it listed them.
Returns(cvs, listed) ==
  LET n == Len(calls)
  IN  /\ fits' = (fits /\ listed /\ Len(cvs) <= OwnSlots)
      /\ IF n = 1
         THEN /\ calls' = <<>>
              /\ cv_array' = cvs
              /\ stage' = "condense"
         ELSE /\ calls' = [i \in 1..(n - 1) |->
                             IF i = n - 1 THEN Received(calls[i], cvs) ELSE calls[i]]
              /\ UNCHANGED <<cv_array, stage>>
      /\ UNCHANGED <<target, args>>

\* It calls itself for one of its halves.
Calls(step, half) ==
  /\ calls' = Append([calls EXCEPT ![Len(calls)].step = step], half)
  /\ UNCHANGED <<target, args, cv_array, fits, stage>>

HashChunks ==
  /\ stage = "wide" /\ top.step = "entered"
  /\ top.len <= degree * CHUNK_LEN
  /\ Returns(compress_chunks_parallel(top.counter, top.at, top.len),
             top.len \div CHUNK_LEN <= MAX_SIMD_DEGREE(target))

CallLeft ==
  /\ stage = "wide" /\ top.step = "entered"
  /\ top.len > degree * CHUNK_LEN
  /\ Calls("left", LeftOf(top))

CallRight ==
  /\ stage = "wide" /\ top.step = "right"
  /\ Calls("right", RightOf(top))

JoinHalves ==
  LET n == top.left_n + top.right_n
  IN  /\ stage = "wide" /\ top.step = "join"
      /\ IF top.left_n = 1
         THEN Returns(SubSeq(top.cvs, 1, 2), TRUE)
         ELSE Returns(compress_parents_parallel(SubSeq(top.cvs, 1, n)), n \div 2 <= OR_2)

\* The loop that is compiled only when there can be more than two.
ToCondense_OffByOne == OR_2 > 2 /\ num_cvs >= 2
ToCondense == OR_2 > 2 /\ num_cvs > 2

Condense ==
  LET parents == compress_parents_parallel(cv_array)
  IN  /\ stage = "condense"
      /\ ToCondense
      /\ cv_array' = parents
      /\ fits' = (fits /\ num_cvs \div 2 <= OR_2 /\ Len(parents) <= OR_2 \div 2)
      /\ UNCHANGED <<target, args, calls, stage>>

Return ==
  /\ stage = "condense"
  /\ ~ToCondense
  /\ stage' = "done"
  /\ UNCHANGED <<target, args, calls, cv_array, fits>>

\* Nothing is left to do.
Returned == stage = "done" /\ UNCHANGED wideVars

WideNext ==
  \/ HashChunks
  \/ CallLeft
  \/ CallRight
  \/ JoinHalves
  \/ Condense
  \/ Return
  \/ Returned

WideSpec == WideInit /\ [][WideNext]_wideVars
-----------------------------------------------------------------------------
(***************************************************************************)
(* The reference, for subtrees of any length: the tree of a message of     *)
(* this length, moved to where the subtree is in its own message.          *)
(***************************************************************************)
InMessage(node) ==
  LET first == args.chunk_counter
  IN  IF node[1] = "chunk"
      THEN ChunkNode(node[2], node[3] + first, node[4] + first * CHUNK_LEN, node[5])
      ELSE ParentNode(node[2], node[3] + first, node[4] + first, node[5] + first)

\* The chaining value of the subtree's chunks [lo, hi).
RefCV(lo, hi) ==
  [lo |-> args.chunk_counter + lo, hi |-> args.chunk_counter + hi,
   nodes |-> {InMessage(x) : x \in {x \in RefNodes(args.mode, args.input_len) :
                 /\ x[3] >= lo
                 /\ IF x[1] = "chunk" THEN x[3] < hi ELSE x[5] <= hi}}]

\* The children of the root.
RefPair ==
  LET n == ChunkCount(args.input_len)
      mid == Max({p \in Pow2 : p < n})
  IN  <<RefCV(0, mid), RefCV(mid, n)>>

\* The arguments of the call and of its activations, and chaining values of
\* at least one chunk.
WideTypeOK ==
  /\ target \in Targets
  /\ args \in [mode : Modes, chunk_counter : Counters,
               input_len : (CHUNK_LEN + 1)..MaxLen]
  /\ \A i \in 1..Len(calls) :
       /\ calls[i].counter \in Nat /\ calls[i].at \in Nat /\ calls[i].len \in 1..MaxLen
       /\ calls[i].step \in {"entered", "left", "right", "join"}
       /\ DOMAIN calls[i].cvs = 1..(2 * OR_2)
       /\ calls[i].left_n \in 0..OR_2 /\ calls[i].right_n \in 0..OR_2
  /\ \A i \in 1..num_cvs : cv_array[i].lo < cv_array[i].hi
  /\ fits \in BOOLEAN
  /\ stage \in {"wide", "condense", "done"}
  /\ stage = "wide" <=> Len(calls) > 0

(***************************************************************************)
(* Nothing is written outside of the fixed arrays, whose only guards are   *)
(* assertions compiled under BLAKE3_TESTING and assert(num_cvs <=          *)
(* MAX_SIMD_DEGREE_OR_2): the two halves of a level do not meet, and       *)
(* neither of the lists of inputs is longer than what it is built in.      *)
(***************************************************************************)
WritesFit == fits

(***************************************************************************)
(* "This guarantees that this function doesn't perform the root            *)
(* compression": at no point are there fewer than two chaining values, and *)
(* none of them covers the whole subtree.                                  *)
(***************************************************************************)
RootNotCompressed ==
  stage # "wide" =>
    /\ num_cvs >= 2
    /\ \A i \in 1..num_cvs :
         cv_array[i].hi - cv_array[i].lo < ChunkCount(args.input_len)

(***************************************************************************)
(* Whatever the SIMD degree, the pair is the two children of the subtree's *)
(* root, and for the complete subtrees Blake3Hasher asks for it is the     *)
(* SubtreePair assumed there.                                              *)
(***************************************************************************)
PairIsReference ==
  stage = "done" =>
    /\ cv_array = RefPair
    /\ LET n == args.input_len \div CHUNK_LEN
           first == args.chunk_counter
       IN  args.input_len % CHUNK_LEN = 0 /\ n \in Pow2 =>
             cv_array = SubtreePair(args.mode, first, first * CHUNK_LEN, n)
=============================================================================
