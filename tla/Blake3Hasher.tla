---------------------------- MODULE Blake3Hasher ----------------------------
(***************************************************************************)
(* blake3_hasher (native/blake3_c/blake3.c): the incremental hasher with   *)
(* its lazily merged stack of chaining values.                             *)
(*                                                                         *)
(* A call is a sequence of steps, one per pass of the loops of the code,   *)
(* ordered by pc.  update: fill the partial chunk, push its chaining value,*)
(* hash the largest subtrees the input allows, push theirs, absorb the     *)
(* tail and settle the stack.  finalize: roll the stack up from the right. *)
(*                                                                         *)
(* The chunk in progress is abstracted to its counter, the position of its *)
(* first byte in the message and its length; a subtree's pair of chaining  *)
(* values is taken as compress_subtree_to_parent_node promises it          *)
(* (SubtreePair; SubtreeWide is the code that keeps the promise).          *)
(***************************************************************************)
EXTENDS Blake3Tree, Sequences

CONSTANTS
  MAX_DEPTH,      \* cv_stack has room for MAX_DEPTH + 1 chaining values
  NoOutput        \* no answer is in the caller's output buffer

ASSUME DepthAssumption ==
  /\ MAX_DEPTH \in Nat
  /\ Cardinality({p \in Pow2 : p * CHUNK_LEN <= MaxLen}) <= MAX_DEPTH

VARIABLES
  mode,           \* self->key and self->chunk.flags
  chunk,          \* self->chunk: counter, position of the first byte, length
  cv_stack,       \* the first cv_stack_len entries of self->cv_stack
  pc,             \* where the running call is; "idle" between calls
  input_bytes,    \* position in the message of the next byte to read
  input_len,      \* bytes of the running update still to read
  pushes,         \* the calls of hasher_push_cv to come before the loop goes
                  \* on: chaining values, each with the counter it is given
  cvs_remaining,  \* stack entries finalize has still to roll up
  output          \* finalize's output_t, and its answer once idle

vars == <<mode, chunk, cv_stack, pc, input_bytes, input_len, pushes,
          cvs_remaining, output>>

cv_stack_len == Len(cv_stack)

\* chunk_state_init and chunk_state_reset: an empty chunk with this counter.
EmptyChunk(counter) == [counter |-> counter, at |-> 0, len |-> 0]

\* chunk_state_update of a chunk with n bytes from position `from'.
Absorb(ch, from, n) ==
  [counter |-> ch.counter, at |-> IF ch.len = 0 THEN from ELSE ch.at,
   len |-> ch.len + n]

\* The bytes a chunk takes that has room for some and is offered some.
Take_Uncapped(room, offered) == offered
Take(room, offered) == IF room > offered THEN offered ELSE room

\* Input for more than the chunk that may turn out to be the root.
MoreThanAChunk_OffByOne(input_left) == input_left >= CHUNK_LEN
MoreThanAChunk(input_left) == input_left > CHUNK_LEN

(***************************************************************************)
(* The size of the next subtree: the largest power of two that is within   *)
(* the input, then halved until it divides the bytes hashed so far.        *)
(***************************************************************************)
SubtreeLen_Unaligned(input_left, count_so_far) == round_down_to_power_of_2(input_left)
SubtreeLen(input_left, count_so_far) ==
  Max({p \in Pow2 : /\ p <= round_down_to_power_of_2(input_left)
                    /\ count_so_far % p = 0})

\* A pending hasher_push_cv(self, cv, counter).
Push(cv, counter) == [cv |-> cv, counter |-> counter]
-----------------------------------------------------------------------------
\* hasher_init_base, on memory in any state between calls.
HasherInit(m) ==
  /\ pc = "idle"
  /\ mode' = m
  /\ chunk' = EmptyChunk(0)
  /\ cv_stack' = <<>>
  /\ input_bytes' = 0
  /\ output' = NoOutput
  /\ UNCHANGED <<pc, input_len, pushes, cvs_remaining>>

Init ==
  /\ mode \in Modes
  /\ chunk = EmptyChunk(0)
  /\ cv_stack = <<>>
  /\ pc = "idle"
  /\ input_bytes = 0
  /\ input_len = 0
  /\ pushes = <<>>
  /\ cvs_remaining = 0
  /\ output = NoOutput

\* blake3_hasher_reset: the mode stays.
Reset ==
  /\ pc = "idle"
  /\ chunk' = EmptyChunk(0)
  /\ cv_stack' = <<>>
  /\ input_bytes' = 0
  /\ output' = NoOutput
  /\ UNCHANGED <<mode, pc, input_len, pushes, cvs_remaining>>
-----------------------------------------------------------------------------
\* blake3_hasher_update(self, input, n) is called; n = 0 returns at once.
Update(n) ==
  /\ pc = "idle"
  /\ n > 0
  /\ input_bytes + n <= MaxLen
  /\ input_len' = n
  /\ pc' = IF chunk.len > 0 THEN "fill" ELSE "subtrees"
  /\ output' = NoOutput
  /\ UNCHANGED <<mode, chunk, cv_stack, input_bytes, pushes, cvs_remaining>>

\* Finish the partial chunk; its chaining value is pushed only when more
\* input follows, since otherwise it may be the root.
FillChunk ==
  LET take == Take(CHUNK_LEN - chunk.len, input_len)
      filled == Absorb(chunk, input_bytes, take)
  IN  /\ pc = "fill"
      /\ chunk' = filled
      /\ input_bytes' = input_bytes + take
      /\ input_len' = input_len - take
      /\ IF input_len - take > 0
         THEN /\ pushes' = <<Push(output_chaining_value(chunk_output(mode, filled)),
                                  chunk.counter)>>
              /\ pc' = "push"
         ELSE /\ pc' = "idle"
              /\ UNCHANGED pushes
      /\ UNCHANGED <<mode, cv_stack, cvs_remaining, output>>

\* One pass of the subtree loop, up to its pushes.
subtree_len == SubtreeLen(input_len, chunk.counter * CHUNK_LEN)
subtree_chunks == subtree_len \div CHUNK_LEN

HashSubtree ==
  LET lone == Absorb(chunk, input_bytes, subtree_len)
      pair == SubtreePair(mode, chunk.counter, input_bytes, subtree_chunks)
  IN  /\ pc = "subtrees"
      /\ MoreThanAChunk(input_len)
      /\ pushes' = IF subtree_len <= CHUNK_LEN
                   THEN <<Push(output_chaining_value(chunk_output(mode, lone)),
                               chunk.counter)>>
                   ELSE <<Push(pair[1], chunk.counter),
                          Push(pair[2], chunk.counter + subtree_chunks \div 2)>>
      /\ pc' = "push"
      /\ UNCHANGED <<mode, chunk, cv_stack, input_bytes, input_len,
                     cvs_remaining, output>>

(***************************************************************************)
(* What follows the last push: after a finished chunk, a fresh one with    *)
(* the next counter; after a subtree, the counter and the input move past  *)
(* it.                                                                     *)
(***************************************************************************)
NextCounter_NoBump == chunk.counter + IF chunk.len > 0 THEN 0 ELSE subtree_chunks
NextCounter == chunk.counter + IF chunk.len > 0 THEN 1 ELSE subtree_chunks

Advance ==
  LET read == IF chunk.len > 0 THEN 0 ELSE subtree_len
  IN  /\ chunk' = EmptyChunk(NextCounter)
      /\ input_bytes' = input_bytes + read
      /\ input_len' = input_len - read
      /\ pc' = "subtrees"

\* At most a chunk of input is left: keep it, the last chunk may be the root.
AbsorbTail_AlwaysMerge ==
  /\ pc = "subtrees"
  /\ ~MoreThanAChunk(input_len)
  /\ chunk' = IF input_len > 0 THEN Absorb(chunk, input_bytes, input_len) ELSE chunk
  /\ pc' = "settle"
  /\ input_bytes' = input_bytes + input_len
  /\ input_len' = 0
  /\ UNCHANGED <<mode, cv_stack, pushes, cvs_remaining, output>>

AbsorbTail ==
  /\ pc = "subtrees"
  /\ ~MoreThanAChunk(input_len)
  /\ IF input_len > 0
     THEN /\ chunk' = Absorb(chunk, input_bytes, input_len)
          /\ pc' = "settle"
     ELSE /\ pc' = "idle"
          /\ UNCHANGED chunk
  /\ input_bytes' = input_bytes + input_len
  /\ input_len' = 0
  /\ UNCHANGED <<mode, cv_stack, pushes, cvs_remaining, output>>
-----------------------------------------------------------------------------
(***************************************************************************)
(* hasher_merge_cv_stack: the count it is called with, its loop, its end.  *)
(***************************************************************************)
MergeCount == IF pc = "push" THEN Head(pushes).counter ELSE chunk.counter
post_merge_stack_len_TooMany == popcnt(MergeCount) + 1
post_merge_stack_len_PerChunk == MergeCount
post_merge_stack_len == popcnt(MergeCount)

\* The two chaining values on top of the stack, replaced by their parent's.
Joined ==
  output_chaining_value(parent_output(mode, cv_stack[cv_stack_len - 1],
                                            cv_stack[cv_stack_len]))
JoinTop_NoPop == Append(SubSeq(cv_stack, 1, cv_stack_len - 1), Joined)
JoinTop == Append(SubSeq(cv_stack, 1, cv_stack_len - 2), Joined)

MergeCV ==
  /\ pc \in {"push", "settle"}
  /\ cv_stack_len > post_merge_stack_len
  /\ cv_stack' = JoinTop
  /\ UNCHANGED <<mode, chunk, pc, input_bytes, input_len, pushes,
                 cvs_remaining, output>>

\* hasher_push_cv, once the stack is merged, and what follows the last one.
PushCV ==
  /\ pc = "push"
  /\ cv_stack_len <= post_merge_stack_len
  /\ cv_stack' = Append(cv_stack, Head(pushes).cv)
  /\ pushes' = Tail(pushes)
  /\ IF Len(pushes) = 1
     THEN Advance
     ELSE UNCHANGED <<chunk, input_bytes, input_len, pc>>
  /\ UNCHANGED <<mode, cvs_remaining, output>>

\* The merge that ends an update is over, and so is the call.
Settled ==
  /\ pc = "settle"
  /\ cv_stack_len <= post_merge_stack_len
  /\ pc' = "idle"
  /\ UNCHANGED <<mode, chunk, cv_stack, input_bytes, input_len, pushes,
                 cvs_remaining, output>>
-----------------------------------------------------------------------------
\* blake3_hasher_finalize_seek with a nonzero out_len: where the roll-up starts.
Finalize ==
  /\ pc = "idle"
  /\ IF cv_stack_len = 0
     THEN /\ output' = chunk_output(mode, chunk)
          /\ UNCHANGED <<pc, cvs_remaining>>
     ELSE /\ pc' = "rollup"
          /\ IF chunk.len > 0
             THEN /\ output' = chunk_output(mode, chunk)
                  /\ cvs_remaining' = cv_stack_len
             ELSE /\ output' = parent_output(mode, cv_stack[cv_stack_len - 1],
                                             cv_stack[cv_stack_len])
                  /\ cvs_remaining' = cv_stack_len - 2
  /\ UNCHANGED <<mode, chunk, cv_stack, input_bytes, input_len, pushes>>

\* One pass of the roll-up loop; the last output is the root's.
RollUp ==
  /\ pc = "rollup"
  /\ IF cvs_remaining > 0
     THEN /\ output' = parent_output(mode, cv_stack[cvs_remaining],
                                     output_chaining_value(output))
          /\ cvs_remaining' = cvs_remaining - 1
          /\ UNCHANGED pc
     ELSE /\ pc' = "idle"
          /\ UNCHANGED <<cvs_remaining, output>>
  /\ UNCHANGED <<mode, chunk, cv_stack, input_bytes, input_len, pushes>>
-----------------------------------------------------------------------------
\* The steps a call takes by itself once it is made.
Running ==
  \/ FillChunk \/ HashSubtree \/ AbsorbTail
  \/ MergeCV \/ PushCV \/ Settled
  \/ RollUp

Next ==
  \/ \E m \in Modes : HasherInit(m)
  \/ \E n \in 1..MaxLen : Update(n)
  \/ Finalize
  \/ Reset
  \/ Running

Spec == Init /\ [][Next]_vars

\* The thread that makes a call runs it to its end.
FairSpec == Spec /\ WF_vars(Running)
-----------------------------------------------------------------------------
(***************************************************************************)
(* Properties.                                                             *)
(***************************************************************************)
Nodes ==
  ({"chunk"} \X Modes \X (0..MaxLen) \X (0..MaxLen) \X (0..CHUNK_LEN))
    \cup ({"parent"} \X Modes \X (0..MaxLen) \X (0..MaxLen) \X (0..MaxLen))
CVs == [lo : 0..MaxLen, hi : 0..MaxLen, nodes : SUBSET Nodes]
Outputs == [lo : 0..MaxLen, hi : 0..MaxLen, below : SUBSET Nodes, top : Nodes]

\* The type of the hasher's fields and of the locals of a running call.
TypeOK ==
  /\ mode \in Modes
  /\ chunk \in [counter : 0..MaxLen, at : 0..MaxLen, len : 0..CHUNK_LEN]
  /\ cv_stack \in Seq(CVs)
  /\ pc \in {"idle", "fill", "subtrees", "push", "settle", "rollup"}
  /\ input_bytes \in 0..MaxLen
  /\ input_len \in 0..MaxLen
  /\ pushes \in Seq([cv : CVs, counter : 0..MaxLen])
  /\ cvs_remaining \in 0..cv_stack_len
  /\ output \in Outputs \cup {NoOutput}

(***************************************************************************)
(* No byte is lost, read twice or hashed under another chunk's counter:    *)
(* the whole chunks counted and the partial chunk make up exactly what was *)
(* read, and the partial chunk starts where the last whole one ended.      *)
(***************************************************************************)
InputAccounted ==
  /\ input_bytes = chunk.counter * CHUNK_LEN + chunk.len
  /\ chunk.len > 0 => chunk.at = chunk.counter * CHUNK_LEN
  /\ input_bytes + input_len <= MaxLen

(***************************************************************************)
(* "The smaller-above-larger stack order" of hasher_merge_cv_stack's       *)
(* comment.  Entry i is a subtree of a power of two of chunks at an offset *)
(* that is a multiple of it, the entries follow each other without gap     *)
(* from chunk 0, and sizes strictly decrease, except that a lazily pushed  *)
(* top entry may still be as large as the one below it.                    *)
(***************************************************************************)
Size(cv) == cv.hi - cv.lo

Canonical(stack) ==
  \A i \in 1..Len(stack) :
    /\ Size(stack[i]) \in Pow2
    /\ stack[i].lo % Size(stack[i]) = 0
    /\ stack[i].lo = IF i = 1 THEN 0 ELSE stack[i - 1].hi
    /\ i > 1 => \/ Size(stack[i]) < Size(stack[i - 1])
                \/ i = Len(stack) /\ Size(stack[i]) = Size(stack[i - 1])

StackCanonical == Canonical(cv_stack)

(***************************************************************************)
(* The popcount rule does what a merge by subtree size would do: whenever  *)
(* a chaining value is pushed, and whenever an update has left a partial   *)
(* chunk, sizes strictly decrease: no pair is left to merge.               *)
(***************************************************************************)
Merged(stack) == \A i \in 2..Len(stack) : Size(stack[i]) < Size(stack[i - 1])

MergedWhenNeeded ==
  \/ pc = "idle" /\ chunk.len > 0
  \/ pc = "push" /\ cv_stack_len <= post_merge_stack_len
  => Merged(cv_stack)

(***************************************************************************)
(* cv_stack never needs more than the MAX_DEPTH + 1 entries it has room    *)
(* for (blake3.h: "The stack size is MAX_DEPTH + 1 because we do lazy      *)
(* merging").                                                              *)
(***************************************************************************)
StackFits == cv_stack_len <= MAX_DEPTH + 1

(***************************************************************************)
(* Lazy merging commits to nothing it may have to undo: whatever the rest  *)
(* of the message turns out to be, including nothing beyond this call,     *)
(* every node compressed so far is a node of its tree other than the root. *)
(***************************************************************************)
Compressed ==
  (UNION {cv_stack[i].nodes : i \in 1..cv_stack_len})
    \cup (UNION {pushes[i].cv.nodes : i \in DOMAIN pushes})

NothingCompressedTooEarly ==
  Compressed # {} =>
    \A len \in (input_bytes + input_len)..MaxLen :
      Compressed \subseteq RefNodes(mode, len) \ {RefRoot(mode, len)}

(***************************************************************************)
(* finalize's "There are always at least 2 CVs in the stack in this case": *)
(* between calls, with no partial chunk, the stack is empty or has a pair  *)
(* to start from.                                                          *)
(***************************************************************************)
PairToStartFrom ==
  pc = "idle" /\ chunk.len = 0 => cv_stack_len # 1

(***************************************************************************)
(* The hasher implements Blake3Hash: a message is what the updates add up  *)
(* to, and finalize answers with its reference tree.                       *)
(***************************************************************************)
Hash == INSTANCE Blake3Hash
          WITH len <- input_bytes + input_len,
               result <- IF pc = "idle" THEN output ELSE NoOutput

ImplementsHash == Hash!Spec

\* Every update and finalize returns: none of the loops runs for ever.
CallsReturn == (pc # "idle") ~> (pc = "idle")
=============================================================================
