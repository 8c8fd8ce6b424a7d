-------------------------- MODULE ChunkStateProofs --------------------------
(***************************************************************************)
(* Proofs about ChunkState, and about HashMany, which hashes chunks        *)
(* without it, for every block and chunk length.                           *)
(***************************************************************************)
EXTENDS HashMany, TLAPS

\* The i-th compression of a chunk, when it is not the last.
Whole(i) ==
  Compression([j \in 1..BLOCK_LEN |-> (i - 1) * BLOCK_LEN + j], BLOCK_LEN,
              chunk_counter, maybe_start_flag(i - 1))

\* The fields count the same bytes.
Counted ==
  /\ Len(cv) = blocks_compressed
  /\ input = BLOCK_LEN * blocks_compressed + buf_len
  /\ input + input_len <= CHUNK_LEN

\* Every compression made is of a whole block, in order.
Compressed == \A i \in 1..Len(cv) : cv[i] = Whole(i)

\* The buffer holds the bytes after the compressed blocks, and zeros.
Buffered ==
  buf = [j \in 1..BLOCK_LEN |->
           IF j <= buf_len THEN blocks_compressed * BLOCK_LEN + j ELSE 0]

\* Some byte follows the last block compressed.
Followed == blocks_compressed > 0 => buf_len > 0 \/ input_len > 0

Phases ==
  /\ pc = "idle" => input_len = 0
  /\ pc = "blocks" => buf_len = 0 \/ input_len = 0

IInv ==
  /\ TypeOK
  /\ Counted
  /\ Compressed
  /\ Buffered
  /\ Followed
  /\ Phases
-----------------------------------------------------------------------------
\* A number is divided by d into a quotient and a remainder below d.
LEMMA Quotient ==
  ASSUME NEW d \in Nat \ {0}, NEW q \in Nat, NEW r \in 0..(d-1)
  PROVE  (d * q + r) \div d = q
OBVIOUS

\* A number not below d * q has a quotient not below q.
LEMMA QuotientAtLeast ==
  ASSUME NEW d \in Nat \ {0}, NEW q \in Nat, NEW a \in Nat, a >= d * q
  PROVE  a \div d \in Nat /\ a \div d >= q
OBVIOUS

\* Whole blocks of fewer bytes than a chunk are fewer than a chunk's blocks.
LEMMA FewerBlocks ==
  ASSUME NEW k \in Nat, BLOCK_LEN * k < CHUNK_LEN
  PROVE  k \in 0..(CHUNK_LEN \div BLOCK_LEN - 1)
<1> DEFINE nb == CHUNK_LEN \div BLOCK_LEN
<1>1. nb \in Nat /\ CHUNK_LEN = BLOCK_LEN * nb
  BY BlocksAssumption
<1> HIDE DEF nb
<1>2. BLOCK_LEN \in Nat \ {0}
  BY BlocksAssumption
<1>3. k < nb
  BY <1>1, <1>2
<1> QED
  BY <1>1, <1>3 DEF nb

\* k whole blocks and part of another one are k + 1 blocks.
LEMMA BlocksOf ==
  ASSUME NEW k \in Nat, NEW r \in 1..BLOCK_LEN
  PROVE  BlockCount(BLOCK_LEN * k + r) = k + 1
<1>1. BLOCK_LEN \in Nat \ {0}
  BY BlocksAssumption
<1> DEFINE b == BLOCK_LEN * k
<1>2. b \in Nat /\ BLOCK_LEN * (k + 1) = b + BLOCK_LEN
  BY <1>1
<1>3. (BLOCK_LEN * (k + 1) + (r - 1)) \div BLOCK_LEN = k + 1
  BY <1>1, Quotient, k + 1 \in Nat, r - 1 \in 0..(BLOCK_LEN - 1)
<1> HIDE DEF b
<1>4. b + r # 0 /\ b + r + BLOCK_LEN - 1 = b + BLOCK_LEN + (r - 1)
  BY <1>1, <1>2
<1>5. BlockCount(b + r) = k + 1
  BY <1>2, <1>3, <1>4 DEF BlockCount
<1> QED
  BY <1>5 DEF b

\* More than k whole blocks are at least k + 1 blocks.
LEMMA BlocksAbove ==
  ASSUME NEW k \in Nat, NEW len \in Nat, k = 0 \/ len > BLOCK_LEN * k
  PROVE  BlockCount(len) \in Nat /\ k < BlockCount(len)
<1>1. BLOCK_LEN \in Nat \ {0}
  BY BlocksAssumption
<1> DEFINE b == BLOCK_LEN * k
<1>2. b \in Nat /\ BLOCK_LEN * (k + 1) = b + BLOCK_LEN
  BY <1>1
<1>3. CASE len = 0
  <2>1. k = 0
    BY <1>2, <1>3
  <2> QED
    BY <1>3, <2>1 DEF BlockCount
<1>4. CASE len # 0
  <2>1. len > b
    <3>1. k = 0 => b = 0
      BY <1>1
    <3> QED
      BY <1>4, <3>1
  <2> HIDE DEF b
  <2>2. len + BLOCK_LEN - 1 \in Nat /\ len + BLOCK_LEN - 1 >= b + BLOCK_LEN
    BY <1>1, <1>2, <2>1
  <2>3. (len + BLOCK_LEN - 1) \div BLOCK_LEN >= k + 1
        /\ (len + BLOCK_LEN - 1) \div BLOCK_LEN \in Nat
    BY <1>1, <1>2, <2>2, QuotientAtLeast, k + 1 \in Nat
  <2> QED
    BY <1>4, <2>3 DEF BlockCount
<1> QED
  BY <1>3, <1>4
-----------------------------------------------------------------------------
\* The types of the state as the steps use them.
LEMMA Types ==
  ASSUME TypeOK, Counted
  PROVE  /\ BLOCK_LEN \in Nat \ {0} /\ CHUNK_LEN \in Nat \ {0}
         /\ blocks_compressed \in Nat /\ buf_len \in 0..BLOCK_LEN
         /\ input \in Nat /\ input_len \in Nat
         /\ BLOCK_LEN * blocks_compressed \in Nat
         /\ blocks_compressed * BLOCK_LEN = BLOCK_LEN * blocks_compressed
         /\ BLOCK_LEN * (blocks_compressed + 1) = BLOCK_LEN * blocks_compressed + BLOCK_LEN
         /\ input = BLOCK_LEN * blocks_compressed + buf_len
         /\ input + input_len <= CHUNK_LEN
<1>1. BLOCK_LEN \in Nat \ {0} /\ CHUNK_LEN \in Nat \ {0}
  BY BlocksAssumption
<1>2. /\ buf_len \in 0..BLOCK_LEN /\ input \in 0..CHUNK_LEN /\ input_len \in 0..CHUNK_LEN
      /\ blocks_compressed \in 0..(CHUNK_LEN \div BLOCK_LEN - 1)
  BY DEF TypeOK, Bytes
<1>3. blocks_compressed \in Nat
  BY <1>1, <1>2
<1>4. /\ input = BLOCK_LEN * blocks_compressed + buf_len
      /\ input + input_len <= CHUNK_LEN
  BY DEF Counted
<1>5. /\ BLOCK_LEN * blocks_compressed \in Nat
      /\ blocks_compressed * BLOCK_LEN = BLOCK_LEN * blocks_compressed
      /\ BLOCK_LEN * (blocks_compressed + 1) = BLOCK_LEN * blocks_compressed + BLOCK_LEN
  BY <1>1, <1>3
<1> QED
  BY <1>1, <1>2, <1>3, <1>4, <1>5

\* chunk_state_fill_buf continues what the buffer holds.
LEMMA FilledIs ==
  ASSUME TypeOK, Counted, Buffered, NEW n \in Nat, n <= BLOCK_LEN - buf_len, n <= input_len
  PROVE  /\ Filled(n) = [j \in 1..BLOCK_LEN |->
                           IF j <= buf_len + n THEN blocks_compressed * BLOCK_LEN + j ELSE 0]
         /\ Filled(n) \in [1..BLOCK_LEN -> Bytes]
<1> DEFINE b == BLOCK_LEN * blocks_compressed
<1>1. /\ BLOCK_LEN \in Nat \ {0} /\ CHUNK_LEN \in Nat \ {0} /\ buf_len \in 0..BLOCK_LEN
      /\ input_len \in Nat /\ b \in Nat /\ blocks_compressed * BLOCK_LEN = b
      /\ input = b + buf_len /\ input + input_len <= CHUNK_LEN
  BY Types
<1> HIDE DEF b
<1>2. ASSUME NEW j \in 1..BLOCK_LEN
      PROVE  /\ (IF j \in (buf_len + 1)..(buf_len + n) THEN input + j - buf_len ELSE buf[j])
                  = IF j <= buf_len + n THEN b + j ELSE 0
             /\ (IF j <= buf_len + n THEN b + j ELSE 0) \in Bytes
  <2>1. buf[j] = IF j <= buf_len THEN b + j ELSE 0
    BY <1>1 DEF Buffered
  <2> QED
    BY <1>1, <2>1 DEF Bytes
<1> QED
  BY <1>1, <1>2 DEF Filled

\* A compression of the next whole block continues the chaining value.
LEMMA CompressKeeps ==
  ASSUME TypeOK, Counted, Compressed, chunk_counter' = chunk_counter,
         BLOCK_LEN * (blocks_compressed + 1) < CHUNK_LEN,
         CompressInPlace([j \in 1..BLOCK_LEN |-> blocks_compressed * BLOCK_LEN + j])
  PROVE  /\ cv' \in Seq(Compressions) /\ Len(cv') = blocks_compressed'
         /\ blocks_compressed' = blocks_compressed + 1
         /\ blocks_compressed' \in 0..(CHUNK_LEN \div BLOCK_LEN - 1)
         /\ Compressed'
<1> DEFINE b == BLOCK_LEN * blocks_compressed
           block == [j \in 1..BLOCK_LEN |-> blocks_compressed * BLOCK_LEN + j]
           new == Compression(block, BLOCK_LEN, chunk_counter, maybe_start_flag(blocks_compressed))
<1>1. /\ BLOCK_LEN \in Nat \ {0} /\ CHUNK_LEN \in Nat \ {0} /\ blocks_compressed \in Nat
      /\ b \in Nat /\ blocks_compressed * BLOCK_LEN = b /\ b + BLOCK_LEN < CHUNK_LEN
  BY Types
<1>2. cv \in Seq(Compressions) /\ Len(cv) = blocks_compressed /\ chunk_counter \in Counters
  BY DEF TypeOK, Counted
<1>3. cv' = Append(cv, new) /\ blocks_compressed' = blocks_compressed + 1
  BY DEF CompressInPlace
<1>4. new \in Compressions
  <2> HIDE DEF b
  <2>1. block \in [1..BLOCK_LEN -> Bytes]
    BY <1>1 DEF Bytes
  <2>2. maybe_start_flag(blocks_compressed) \in SUBSET {"CHUNK_START", "CHUNK_END"}
    BY DEF maybe_start_flag
  <2> HIDE DEF block
  <2> QED
    BY <1>1, <1>2, <2>1, <2>2 DEF Compression, Compressions
<1>5. new = Whole(blocks_compressed + 1)
  <2>1. (blocks_compressed + 1) - 1 = blocks_compressed
    BY <1>1
  <2> QED
    BY <2>1 DEF Whole
<1> HIDE DEF new, block
<1>6. /\ cv' \in Seq(Compressions) /\ Len(cv') = blocks_compressed + 1
      /\ cv'[blocks_compressed + 1] = new
      /\ \A i \in 1..blocks_compressed : cv'[i] = cv[i]
  BY <1>1, <1>2, <1>3, <1>4
<1>7. Compressed'
  <2> SUFFICES ASSUME NEW i \in 1..(blocks_compressed + 1) PROVE cv'[i] = Whole(i)'
    BY <1>6 DEF Compressed
  <2>1. Whole(i)' = Whole(i)
    BY DEF Whole
  <2>2. CASE i = blocks_compressed + 1
    BY <1>5, <1>6, <2>1, <2>2
  <2>3. CASE i # blocks_compressed + 1
    <3>1. i \in 1..blocks_compressed
      BY <1>1, <2>3
    <3> QED
      BY <1>2, <1>6, <2>1, <3>1 DEF Compressed
  <2> QED
    BY <2>2, <2>3
<1>8. blocks_compressed' \in 0..(CHUNK_LEN \div BLOCK_LEN - 1)
  BY <1>1, <1>3, FewerBlocks, blocks_compressed + 1 \in Nat
<1> QED
  BY <1>3, <1>6, <1>7, <1>8
-----------------------------------------------------------------------------
(***************************************************************************)
(* Every step keeps the invariant.                                         *)
(***************************************************************************)

\* An empty chunk, as chunk_state_init and chunk_state_reset make it.
LEMMA EmptyHolds ==
  ASSUME chunk_counter \in Counters, cv = <<>>, buf = Zeros, buf_len = 0,
         blocks_compressed = 0, pc = "idle", input = 0, input_len = 0
  PROVE  IInv
<1>1. BLOCK_LEN \in Nat \ {0} /\ CHUNK_LEN \in Nat \ {0} /\ BLOCK_LEN * 0 = 0 /\ 0 * BLOCK_LEN = 0
  BY BlocksAssumption
<1>2. 0 \in 0..(CHUNK_LEN \div BLOCK_LEN - 1)
  BY <1>1, FewerBlocks
<1>3. TypeOK
  <2>1. <<>> \in Seq(Compressions) /\ Zeros \in [1..BLOCK_LEN -> Bytes]
    BY <1>1 DEF Zeros, Bytes
  <2> QED
    BY <1>1, <1>2, <2>1 DEF TypeOK, Bytes
<1>4. Counted /\ Compressed /\ Followed /\ Phases
  BY <1>1 DEF Counted, Compressed, Followed, Phases
<1>5. Buffered
  BY <1>1 DEF Buffered, Zeros
<1> QED
  BY <1>3, <1>4, <1>5 DEF IInv

\* A chunk that is reset is an empty one.
LEMMA ResetKeeps ==
  ASSUME IInv, NEW counter \in Counters, Reset(counter)
  PROVE  IInv'
<1>1. BLOCK_LEN \in Nat \ {0} /\ CHUNK_LEN \in Nat \ {0} /\ BLOCK_LEN * 0 = 0 /\ 0 * BLOCK_LEN = 0
  BY BlocksAssumption
<1>2. 0 \in 0..(CHUNK_LEN \div BLOCK_LEN - 1)
  BY <1>1, FewerBlocks
<1>3. /\ chunk_counter' \in Counters /\ cv' = <<>> /\ buf' = Zeros /\ buf_len' = 0
      /\ blocks_compressed' = 0 /\ pc' = "idle" /\ input' = 0 /\ input_len' = 0
  BY DEF Reset, IInv, Phases
<1>4. TypeOK'
  <2>1. <<>> \in Seq(Compressions) /\ Zeros \in [1..BLOCK_LEN -> Bytes]
    BY <1>1 DEF Zeros, Bytes
  <2> QED
    BY <1>1, <1>2, <1>3, <2>1 DEF TypeOK, Bytes
<1>5. Counted' /\ Compressed' /\ Followed' /\ Phases'
  BY <1>1, <1>3 DEF Counted, Compressed, Followed, Phases
<1>6. Buffered'
  BY <1>1, <1>3 DEF Buffered, Zeros
<1> QED
  BY <1>4, <1>5, <1>6 DEF IInv

\* Moving an empty chunk to another counter is as good as resetting it.
LEMMA SkipToKeeps ==
  ASSUME IInv, NEW counter \in Counters, SkipTo(counter)
  PROVE  IInv'
<1>1. /\ chunk_counter' = counter /\ pc = "idle" /\ BLOCK_LEN * blocks_compressed + buf_len = 0
      /\ UNCHANGED <<cv, buf, buf_len, blocks_compressed, pc, input, input_len>>
  BY DEF SkipTo, chunk_state_len
<1>2. /\ BLOCK_LEN \in Nat \ {0} /\ blocks_compressed \in Nat /\ buf_len \in 0..BLOCK_LEN
      /\ BLOCK_LEN * blocks_compressed \in Nat
  BY Types DEF IInv
<1>3. buf_len = 0 /\ BLOCK_LEN * blocks_compressed = 0
  BY <1>1, <1>2
<1>4. blocks_compressed = 0
  BY <1>2, <1>3
<1>5. Len(cv) = 0
  BY <1>4 DEF IInv, Counted
<1>6. TypeOK'
  BY <1>1 DEF IInv, TypeOK
<1>7. Compressed'
  BY <1>1, <1>5 DEF Compressed
<1>8. Counted' /\ Buffered' /\ Followed' /\ Phases'
  BY <1>1 DEF IInv, Counted, Buffered, Followed, Phases
<1> QED
  BY <1>6, <1>7, <1>8 DEF IInv

\* The call of chunk_state_update only records the input.
LEMMA UpdateKeeps ==
  ASSUME IInv, NEW n \in 0..CHUNK_LEN, Update(n)
  PROVE  IInv'
<1>1. /\ pc = "idle" /\ input_len' = n /\ BLOCK_LEN * blocks_compressed + buf_len + n <= CHUNK_LEN
      /\ UNCHANGED <<chunk_counter, cv, buf, buf_len, blocks_compressed, input>>
      /\ pc' = IF buf_len > 0 THEN "fill" ELSE "blocks"
  BY DEF Update, chunk_state_len
<1>2. buf_len \in 0..BLOCK_LEN /\ BLOCK_LEN \in Nat /\ input = BLOCK_LEN * blocks_compressed + buf_len
  BY Types DEF IInv
<1>3. TypeOK' /\ Counted'
  BY <1>1, <1>2 DEF IInv, TypeOK, Counted, Bytes
<1>4. Compressed'
  <2>1. \A i : Whole(i)' = Whole(i)
    BY <1>1 DEF Whole
  <2> QED
    BY <1>1, <2>1 DEF IInv, Compressed
<1>5. Buffered'
  BY <1>1 DEF IInv, Buffered
<1>6. Followed' /\ Phases'
  BY <1>1, <1>2 DEF IInv, Followed, Phases
<1> QED
  BY <1>3, <1>4, <1>5, <1>6 DEF IInv

\* The buffered block is topped up, and compressed only if input is left.
LEMMA FillBlockKeeps ==
  ASSUME IInv, FillBlock
  PROVE  IInv'
<1> DEFINE take == Take(BLOCK_LEN - buf_len, input_len)
           b == BLOCK_LEN * blocks_compressed
<1>1. /\ BLOCK_LEN \in Nat \ {0} /\ CHUNK_LEN \in Nat \ {0} /\ blocks_compressed \in Nat
      /\ b \in Nat /\ blocks_compressed * BLOCK_LEN = b /\ buf_len \in 0..BLOCK_LEN
      /\ BLOCK_LEN * (blocks_compressed + 1) = b + BLOCK_LEN
      /\ input_len \in Nat /\ input = b + buf_len /\ input + input_len <= CHUNK_LEN
  BY Types DEF IInv
<1>2. /\ take \in Nat /\ take <= BLOCK_LEN - buf_len /\ take <= input_len
      /\ input_len - take > 0 => take = BLOCK_LEN - buf_len
      /\ input_len - take <= 0 => take = input_len
  BY <1>1 DEF Take
<1>3. /\ input' = input + take /\ input_len' = input_len - take /\ pc' = "blocks"
      /\ chunk_counter' = chunk_counter
      /\ IF input_len - take > 0
         THEN CompressInPlace(Filled(take)) /\ buf' = Cleared(Filled(take)) /\ buf_len' = 0
         ELSE /\ buf' = Filled(take) /\ buf_len' = buf_len + take
              /\ UNCHANGED <<cv, blocks_compressed>>
  BY DEF FillBlock
<1>4. /\ Filled(take) = [j \in 1..BLOCK_LEN |->
                           IF j <= buf_len + take THEN blocks_compressed * BLOCK_LEN + j ELSE 0]
      /\ Filled(take) \in [1..BLOCK_LEN -> Bytes]
  BY <1>2, FilledIs DEF IInv
<1> HIDE DEF take
<1>5. input' \in Bytes /\ input_len' \in Bytes /\ input' + input_len' <= CHUNK_LEN
  <2> HIDE DEF b
  <2> QED
    BY <1>1, <1>2, <1>3 DEF Bytes
<1>6. CASE input_len - take > 0
  <2>1. /\ take = BLOCK_LEN - buf_len /\ buf' = Zeros /\ buf_len' = 0
        /\ CompressInPlace(Filled(take))
    BY <1>2, <1>3, <1>6 DEF Cleared
  <2>2. Filled(take) = [j \in 1..BLOCK_LEN |-> blocks_compressed * BLOCK_LEN + j]
    <3>1. \A j \in 1..BLOCK_LEN : j <= buf_len + take
      BY <1>1, <2>1
    <3> QED
      BY <1>4, <3>1
  <2>3. BLOCK_LEN * (blocks_compressed + 1) < CHUNK_LEN
    <3> HIDE DEF b
    <3> QED
      BY <1>1, <1>6, <2>1
  <2>4. /\ cv' \in Seq(Compressions) /\ Len(cv') = blocks_compressed'
        /\ blocks_compressed' = blocks_compressed + 1
        /\ blocks_compressed' \in 0..(CHUNK_LEN \div BLOCK_LEN - 1)
        /\ Compressed'
    BY <1>3, <2>1, <2>2, <2>3, CompressKeeps DEF IInv
  <2>5. input' = BLOCK_LEN * (blocks_compressed + 1) + 0
    <3> HIDE DEF b
    <3> QED
      BY <1>1, <1>3, <2>1
  <2>6. Counted'
    BY <1>5, <2>1, <2>4, <2>5 DEF Counted
  <2>7. Zeros \in [1..BLOCK_LEN -> Bytes]
    BY <1>1 DEF Zeros, Bytes
  <2>8. TypeOK'
    BY <1>1, <1>3, <1>5, <2>1, <2>4, <2>7 DEF IInv, TypeOK
  <2>9. Buffered'
    BY <1>1, <2>1 DEF Buffered, Zeros
  <2>10. Followed' /\ Phases'
    BY <1>3, <1>6, <2>1 DEF Followed, Phases
  <2> QED
    BY <2>4, <2>6, <2>8, <2>9, <2>10 DEF IInv
<1>7. CASE ~(input_len - take > 0)
  <2>1. /\ take = input_len /\ buf' = Filled(take) /\ buf_len' = buf_len + take
        /\ UNCHANGED <<cv, blocks_compressed>>
    BY <1>1, <1>2, <1>3, <1>7
  <2>2. TypeOK'
    <3>1. buf_len + take \in 0..BLOCK_LEN
      <4> HIDE DEF b
      <4> QED
        BY <1>1, <1>2
    <3>2. buf' \in [1..BLOCK_LEN -> Bytes] /\ buf_len' \in 0..BLOCK_LEN
      BY <1>4, <2>1, <3>1
    <3> QED
      BY <1>3, <1>5, <2>1, <3>2 DEF IInv, TypeOK
  <2>3. Counted'
    BY <1>1, <1>2, <1>3, <1>5, <2>1 DEF IInv, Counted
  <2>4. Compressed'
    <3>1. \A i : Whole(i)' = Whole(i)
      BY <1>3 DEF Whole
    <3> QED
      BY <2>1, <3>1 DEF IInv, Compressed
  <2>5. Buffered'
    BY <1>4, <2>1 DEF Buffered
  <2>6. Followed' /\ Phases'
    BY <1>1, <1>2, <1>3, <2>1 DEF IInv, Followed, Phases
  <2> QED
    BY <2>2, <2>3, <2>4, <2>5, <2>6 DEF IInv
<1> QED
  BY <1>6, <1>7

\* A block of the input is compressed where it is; the buffer stays empty.
LEMMA CompressBlockKeeps ==
  ASSUME IInv, CompressBlock
  PROVE  IInv'
<1> DEFINE b == BLOCK_LEN * blocks_compressed
<1>1. /\ BLOCK_LEN \in Nat \ {0} /\ CHUNK_LEN \in Nat \ {0} /\ blocks_compressed \in Nat
      /\ b \in Nat /\ blocks_compressed * BLOCK_LEN = b /\ buf_len \in 0..BLOCK_LEN
      /\ BLOCK_LEN * (blocks_compressed + 1) = b + BLOCK_LEN
      /\ input_len \in Nat /\ input = b + buf_len /\ input + input_len <= CHUNK_LEN
  BY Types DEF IInv
<1>2. /\ pc = "blocks" /\ input_len > BLOCK_LEN
      /\ CompressInPlace([j \in 1..BLOCK_LEN |-> input + j])
      /\ input' = input + BLOCK_LEN /\ input_len' = input_len - BLOCK_LEN
      /\ UNCHANGED <<chunk_counter, buf, buf_len, pc>>
  BY DEF CompressBlock, MoreThanABlock
<1>3. buf_len = 0
  BY <1>1, <1>2 DEF IInv, Phases
<1>4. [j \in 1..BLOCK_LEN |-> input + j] = [j \in 1..BLOCK_LEN |-> blocks_compressed * BLOCK_LEN + j]
  <2>1. input = blocks_compressed * BLOCK_LEN
    BY <1>1, <1>3
  <2> QED
    BY <2>1
<1>5. BLOCK_LEN * (blocks_compressed + 1) < CHUNK_LEN
  <2> HIDE DEF b
  <2> QED
    BY <1>1, <1>2, <1>3
<1>6. /\ cv' \in Seq(Compressions) /\ Len(cv') = blocks_compressed'
      /\ blocks_compressed' = blocks_compressed + 1
      /\ blocks_compressed' \in 0..(CHUNK_LEN \div BLOCK_LEN - 1)
      /\ Compressed'
  BY <1>2, <1>4, <1>5, CompressKeeps DEF IInv
<1>7. /\ input' \in Bytes /\ input_len' \in Bytes /\ input' + input_len' <= CHUNK_LEN
      /\ input' = BLOCK_LEN * (blocks_compressed + 1) + buf_len'
  <2> HIDE DEF b
  <2> QED
    BY <1>1, <1>2, <1>3 DEF Bytes
<1>8. Counted'
  BY <1>6, <1>7 DEF Counted
<1>9. TypeOK'
  BY <1>2, <1>6, <1>7 DEF IInv, TypeOK
<1>10. Buffered'
  <2>1. \A j \in 1..BLOCK_LEN : ~(j <= buf_len)
    BY <1>1, <1>3
  <2>2. buf = [j \in 1..BLOCK_LEN |-> 0]
    BY <2>1 DEF IInv, Buffered
  <2> QED
    BY <1>2, <2>1, <2>2 DEF Buffered
<1>11. Followed' /\ Phases'
  BY <1>1, <1>2, <1>3 DEF Followed, Phases
<1> QED
  BY <1>6, <1>8, <1>9, <1>10, <1>11 DEF IInv

\* The rest of the input, at most a block, goes to the buffer.
LEMMA KeepLastBlockKeeps ==
  ASSUME IInv, KeepLastBlock
  PROVE  IInv'
<1> DEFINE take == Take(BLOCK_LEN - buf_len, input_len)
           b == BLOCK_LEN * blocks_compressed
<1>1. /\ BLOCK_LEN \in Nat \ {0} /\ CHUNK_LEN \in Nat \ {0} /\ b \in Nat
      /\ buf_len \in 0..BLOCK_LEN /\ input_len \in Nat
      /\ input = b + buf_len /\ input + input_len <= CHUNK_LEN
  BY Types DEF IInv
<1>2. /\ pc = "blocks" /\ ~(input_len > BLOCK_LEN)
      /\ buf' = Filled(take) /\ buf_len' = buf_len + take
      /\ input' = input + take /\ input_len' = 0 /\ pc' = "idle"
      /\ UNCHANGED <<chunk_counter, cv, blocks_compressed>>
  BY DEF KeepLastBlock, MoreThanABlock
<1>3. take = input_len /\ take <= BLOCK_LEN - buf_len
  BY <1>1, <1>2 DEF Take, IInv, Phases
<1>4. /\ Filled(take) = [j \in 1..BLOCK_LEN |->
                           IF j <= buf_len + take THEN blocks_compressed * BLOCK_LEN + j ELSE 0]
      /\ Filled(take) \in [1..BLOCK_LEN -> Bytes]
  BY <1>1, <1>3, FilledIs DEF IInv
<1> HIDE DEF take, b
<1>5. input' \in Bytes /\ input_len' \in Bytes /\ input' + input_len' <= CHUNK_LEN
      /\ buf_len' \in 0..BLOCK_LEN
  BY <1>1, <1>2, <1>3 DEF Bytes
<1>6. TypeOK'
  BY <1>2, <1>4, <1>5 DEF IInv, TypeOK
<1>7. Counted'
  BY <1>1, <1>2, <1>3, <1>5 DEF IInv, Counted, b
<1>8. Compressed'
  <2>1. \A i : Whole(i)' = Whole(i)
    BY <1>2 DEF Whole
  <2> QED
    BY <1>2, <2>1 DEF IInv, Compressed
<1>9. Buffered'
  BY <1>2, <1>4 DEF Buffered
<1>10. Followed' /\ Phases'
  BY <1>1, <1>2, <1>3 DEF IInv, Followed, Phases
<1> QED
  BY <1>6, <1>7, <1>8, <1>9, <1>10 DEF IInv

\* The invariant is inductive.
THEOREM Invariant == Spec => []IInv
<1>1. Init => IInv
  BY EmptyHolds DEF Init
<1>2. IInv /\ [Next]_vars => IInv'
  <2> SUFFICES ASSUME IInv, [Next]_vars PROVE IInv'
    OBVIOUS
  <2>1. ASSUME NEW counter \in Counters, Reset(counter) PROVE IInv'
    BY <2>1, ResetKeeps
  <2>2. ASSUME NEW counter \in Counters, SkipTo(counter) PROVE IInv'
    BY <2>2, SkipToKeeps
  <2>3. ASSUME NEW n \in 0..CHUNK_LEN, Update(n) PROVE IInv'
    BY <2>3, UpdateKeeps
  <2>4. CASE FillBlock
    BY <2>4, FillBlockKeeps
  <2>5. CASE CompressBlock
    BY <2>5, CompressBlockKeeps
  <2>6. CASE KeepLastBlock
    BY <2>6, KeepLastBlockKeeps
  <2>7. CASE UNCHANGED vars
    <3>1. \A i : Whole(i)' = Whole(i)
      BY <2>7 DEF vars, Whole
    <3> QED
      BY <2>7, <3>1 DEF vars, IInv, TypeOK, Counted, Compressed, Buffered, Followed, Phases
  <2> QED
    BY <2>1, <2>2, <2>3, <2>4, <2>5, <2>6, <2>7 DEF Next
<1> QED
  BY <1>1, <1>2, PTL DEF Spec
-----------------------------------------------------------------------------
\* The fields keep their types: no chunk has more blocks than its last.
THEOREM TypeCorrect == Spec => []TypeOK
<1>1. IInv => TypeOK
  BY DEF IInv
<1> QED
  BY <1>1, Invariant, PTL

\* A compression that is not a chunk's last is the same for every length.
LEMMA WholeIsReference ==
  ASSUME NEW len \in Nat, NEW i \in Nat \ {0}, i < BlockCount(len), BLOCK_LEN * i <= len
  PROVE  RefCompression(chunk_counter, len, i) = Whole(i)
<1> DEFINE b == (i - 1) * BLOCK_LEN
<1>1. BLOCK_LEN \in Nat \ {0} /\ b \in Nat /\ b + BLOCK_LEN = BLOCK_LEN * i
  BY BlocksAssumption
<1>2. \A j \in 1..BLOCK_LEN : b + j <= len
  <2> HIDE DEF b
  <2> QED
    BY <1>1
<1>3. i # BlockCount(len)
  OBVIOUS
<1>4. maybe_start_flag(i - 1) = IF i = 1 THEN {"CHUNK_START"} ELSE {}
  BY DEF maybe_start_flag
<1>5. [j \in 1..BLOCK_LEN |-> IF b + j <= len THEN b + j ELSE 0] = [j \in 1..BLOCK_LEN |-> b + j]
  BY <1>2
<1> QED
  BY <1>3, <1>4, <1>5 DEF RefCompression, Whole

\* The blocks of the chunk so far, if no other byte comes.
LEMMA BlocksSoFar ==
  ASSUME IInv, pc = "idle"
  PROVE  /\ BlockCount(input) = blocks_compressed + 1
         /\ input = 0 \/ buf_len \in 1..BLOCK_LEN
<1>1. /\ BLOCK_LEN \in Nat \ {0} /\ blocks_compressed \in Nat /\ buf_len \in 0..BLOCK_LEN
      /\ input = BLOCK_LEN * blocks_compressed + buf_len
  BY Types DEF IInv
<1>2. CASE buf_len = 0
  <2>1. blocks_compressed = 0
    BY <1>1, <1>2 DEF IInv, Followed, Phases
  <2>2. input = 0
    BY <1>1, <1>2, <2>1
  <2> QED
    BY <2>1, <2>2 DEF BlockCount
<1>3. CASE buf_len \in 1..BLOCK_LEN
  BY <1>1, <1>3, BlocksOf
<1> QED
  BY <1>1, <1>2, <1>3

\* The compressions made are those of every length that exceeds them.
LEMMA CompressedAreReference ==
  ASSUME IInv, NEW len \in Nat, blocks_compressed = 0 \/ len > BLOCK_LEN * blocks_compressed
  PROVE  /\ Len(cv) < BlockCount(len)
         /\ \A i \in 1..Len(cv) : cv[i] = RefCompression(chunk_counter, len, i)
<1>1. BLOCK_LEN \in Nat \ {0} /\ blocks_compressed \in Nat /\ Len(cv) = blocks_compressed
  BY Types DEF IInv, Counted
<1>2. BlockCount(len) \in Nat /\ blocks_compressed < BlockCount(len)
  BY <1>1, BlocksAbove
<1>3. ASSUME NEW i \in 1..blocks_compressed
      PROVE  cv[i] = RefCompression(chunk_counter, len, i)
  <2>1. i \in Nat \ {0} /\ i < BlockCount(len)
    BY <1>1, <1>2
  <2>2. BLOCK_LEN * i <= BLOCK_LEN * blocks_compressed
    BY <1>1
  <2>3. BLOCK_LEN * i <= len
    <3> DEFINE b == BLOCK_LEN * blocks_compressed
               a == BLOCK_LEN * i
    <3>1. b \in Nat /\ a \in Nat /\ a <= b /\ len > b
      BY <1>1, <2>2
    <3> HIDE DEF a, b
    <3>2. a <= len
      BY <3>1
    <3> QED
      BY <3>2 DEF a
  <2>4. cv[i] = Whole(i)
    BY <1>1 DEF IInv, Compressed
  <2> QED
    BY <2>1, <2>3, <2>4, WholeIsReference
<1> QED
  BY <1>1, <1>2, <1>3

(***************************************************************************)
(* Between calls a chunk's length and output are those of the bytes given  *)
(* to it, for every block and chunk length and however chunk_state_update  *)
(* cut them: the chunk that Blake3Hasher knows by counter and length.      *)
(***************************************************************************)
THEOREM AlwaysReference == Spec => []OutputIsReference
<1>1. IInv => OutputIsReference
  <2> SUFFICES ASSUME IInv, pc = "idle"
               PROVE  /\ chunk_state_len = input
                      /\ chunk_state_output = RefOutput(chunk_counter, input)
    BY DEF OutputIsReference
  <2> DEFINE b == BLOCK_LEN * blocks_compressed
  <2>1. /\ BLOCK_LEN \in Nat \ {0} /\ blocks_compressed \in Nat /\ buf_len \in 0..BLOCK_LEN
        /\ b \in Nat /\ blocks_compressed * BLOCK_LEN = b /\ input \in Nat /\ input = b + buf_len
    BY Types DEF IInv
  <2>2. BlockCount(input) = blocks_compressed + 1 /\ (input = 0 \/ buf_len \in 1..BLOCK_LEN)
    BY BlocksSoFar
  <2>3. chunk_state_len = input
    BY <2>1 DEF chunk_state_len
  <2>4. blocks_compressed = 0 \/ input > b
    BY <2>1, <2>2
  <2>5. /\ Len(cv) = blocks_compressed /\ cv \in Seq(Compressions)
        /\ \A i \in 1..Len(cv) : cv[i] = RefCompression(chunk_counter, input, i)
    BY <2>1, <2>4, CompressedAreReference DEF IInv, Counted, TypeOK
  <2>6. cv = [i \in 1..blocks_compressed |-> RefCompression(chunk_counter, input, i)]
    <3>1. cv = [i \in 1..Len(cv) |-> cv[i]]
      BY <2>5
    <3> QED
      BY <2>5, <3>1
  <2>7. Compression(buf, buf_len, chunk_counter, maybe_start_flag(blocks_compressed) \cup {"CHUNK_END"})
          = RefCompression(chunk_counter, input, blocks_compressed + 1)
    <3>1. (blocks_compressed + 1) - 1 = blocks_compressed /\ input - b = buf_len
      BY <2>1
    <3>2. buf = [j \in 1..BLOCK_LEN |-> IF b + j <= input THEN b + j ELSE 0]
      <4>1. \A j \in 1..BLOCK_LEN : b + j <= input <=> j <= buf_len
        <5> HIDE DEF b
        <5> QED
          BY <2>1
      <4>2. buf = [j \in 1..BLOCK_LEN |-> IF j <= buf_len THEN b + j ELSE 0]
        BY <2>1 DEF IInv, Buffered
      <4> QED
        BY <4>1, <4>2
    <3>3. maybe_start_flag(blocks_compressed)
            = IF blocks_compressed + 1 = 1 THEN {"CHUNK_START"} ELSE {}
      BY <2>1 DEF maybe_start_flag
    <3> QED
      BY <2>1, <2>2, <3>1, <3>2, <3>3 DEF RefCompression
  <2>8. (blocks_compressed + 1) - 1 = blocks_compressed
    BY <2>1
  <2> QED
    BY <2>2, <2>3, <2>6, <2>7, <2>8 DEF chunk_state_output, RefOutput
<1> QED
  BY <1>1, Invariant, PTL

(***************************************************************************)
(* At every step, the ones inside of chunk_state_update included, no block *)
(* was compressed that may turn out to be the last of its chunk.           *)
(***************************************************************************)
THEOREM LastBlockAlwaysKept == Spec => []LastBlockKept
<1>1. IInv => LastBlockKept
  <2> SUFFICES ASSUME IInv, NEW len \in (input + input_len)..CHUNK_LEN
               PROVE  /\ Len(cv) < BlockCount(len)
                      /\ \A i \in 1..Len(cv) : cv[i] = RefCompression(chunk_counter, len, i)
    BY DEF LastBlockKept
  <2> DEFINE b == BLOCK_LEN * blocks_compressed
  <2>1. /\ BLOCK_LEN \in Nat \ {0} /\ CHUNK_LEN \in Nat \ {0} /\ blocks_compressed \in Nat
        /\ buf_len \in 0..BLOCK_LEN /\ input_len \in Nat /\ b \in Nat /\ input = b + buf_len
    BY Types DEF IInv
  <2>2. blocks_compressed = 0 \/ buf_len > 0 \/ input_len > 0
    BY <2>1 DEF IInv, Followed
  <2>3. len \in Nat /\ (blocks_compressed = 0 \/ len > b)
    <3> HIDE DEF b
    <3> QED
      BY <2>1, <2>2
  <2> QED
    BY <2>3, CompressedAreReference
<1> QED
  BY <1>1, Invariant, PTL
-----------------------------------------------------------------------------
(***************************************************************************)
(* chunk_state_update and its loop come to an end.                         *)
(***************************************************************************)
\* A bound on the steps until the running update returns.
UpdateStepsLeft ==
  CASE pc = "fill" -> input_len + 2
    [] pc = "blocks" -> input_len + 1
    [] OTHER -> 0

\* A step of an update under way lowers it.
UpdateGoesOn == pc # "idle" => UpdateStepsLeft' < UpdateStepsLeft

(***************************************************************************)
(* However long the input, each step of chunk_state_update, filling the    *)
(* buffer and keeping the last block included, brings a natural number     *)
(* nearer to 0.                                                            *)
(***************************************************************************)
THEOREM UpdatesAreBounded ==
  Spec => [](UpdateStepsLeft \in Nat) /\ [][UpdateGoesOn]_vars
<1>1. ASSUME IInv PROVE UpdateStepsLeft \in Nat
  <2>1. input_len \in Nat
    BY <1>1, Types DEF IInv
  <2> QED
    BY <2>1 DEF UpdateStepsLeft
<1>2. ASSUME IInv, [Next]_vars PROVE [UpdateGoesOn]_vars
  <2> SUFFICES ASSUME Next, pc # "idle" PROVE UpdateStepsLeft' < UpdateStepsLeft
    BY <1>2 DEF UpdateGoesOn
  <2>1. /\ BLOCK_LEN \in Nat \ {0} /\ buf_len \in 0..BLOCK_LEN /\ input_len \in Nat
    BY <1>2, Types DEF IInv, TypeOK
  <2>2. Take(BLOCK_LEN - buf_len, input_len) \in Nat
    BY <2>1 DEF Take
  <2>3. CASE FillBlock
    <3> DEFINE take == Take(BLOCK_LEN - buf_len, input_len)
    <3>1. pc = "fill" /\ pc' = "blocks" /\ input_len' = input_len - take
      BY <2>3 DEF FillBlock
    <3>2. UpdateStepsLeft = input_len + 2 /\ UpdateStepsLeft' = (input_len - take) + 1
      BY <3>1 DEF UpdateStepsLeft
    <3> HIDE DEF take
    <3>3. take \in Nat
      BY <2>2 DEF take
    <3> QED
      BY <2>1, <3>2, <3>3
  <2>4. CASE CompressBlock
    <3>1. pc = "blocks" /\ pc' = "blocks" /\ input_len' = input_len - BLOCK_LEN
      BY <2>4 DEF CompressBlock
    <3>2. UpdateStepsLeft = input_len + 1 /\ UpdateStepsLeft' = (input_len - BLOCK_LEN) + 1
      BY <3>1 DEF UpdateStepsLeft
    <3> QED
      BY <2>1, <3>2
  <2>5. CASE KeepLastBlock
    <3>1. UpdateStepsLeft = input_len + 1 /\ UpdateStepsLeft' = 0
      BY <2>5 DEF KeepLastBlock, UpdateStepsLeft
    <3> QED
      BY <2>1, <3>1
  <2> QED
    BY <2>3, <2>4, <2>5 DEF Next, Reset, SkipTo, Update
<1> QED
  BY <1>1, <1>2, Invariant, PTL DEF Spec
-----------------------------------------------------------------------------
(***************************************************************************)
(* HashMany.  What hash_one does with its arguments is one thing, that it  *)
(* is the reference for the arguments it is given another.                 *)
(***************************************************************************)
Modes == ModeFlags \cup {{}}
Calls ==
  {ParentsCall(n, mode) : n \in 0..MaxInputs, mode \in Modes}
    \cup {ChunksCall(n, c, mode) : n \in 0..MaxInputs, c \in Counters, mode \in Modes}

\* The i-th compression of a call's n-th input, and all of them.
CounterOf(a, n) == IF a.increment_counter THEN a.counter + n - 1 ELSE a.counter

BlockOf(a, n, i) ==
  Of(n, Compression(BlockAt(i - 1), BLOCK_LEN, CounterOf(a, n),
                    a.flags \cup (IF i = 1 THEN a.flags_start ELSE {})
                            \cup (IF i = a.blocks THEN a.flags_end ELSE {})))

CVOf(a, n) == [i \in 1..a.blocks |-> BlockOf(a, n, i)]

Alone(a, n) ==
  IF a.increment_counter THEN ChunkCV(n, a.counter + n - 1, a.mode) ELSE ParentCV(n, a.mode)

\* A chunk's blocks are whole, and as many as hash_one is told.
LEMMA WholeChunk ==
  /\ CHUNK_LEN \div BLOCK_LEN \in Nat \ {0}
  /\ BlockCount(CHUNK_LEN) = CHUNK_LEN \div BLOCK_LEN
  /\ \A i \in 1..(CHUNK_LEN \div BLOCK_LEN) :
       /\ (i - 1) * BLOCK_LEN + BLOCK_LEN <= CHUNK_LEN
       /\ i = CHUNK_LEN \div BLOCK_LEN => CHUNK_LEN - (i - 1) * BLOCK_LEN = BLOCK_LEN
<1> DEFINE nb == CHUNK_LEN \div BLOCK_LEN
<1>1. /\ BLOCK_LEN \in Nat \ {0} /\ CHUNK_LEN \in Nat \ {0}
      /\ nb \in Nat /\ CHUNK_LEN = BLOCK_LEN * nb
  BY BlocksAssumption
<1> HIDE DEF nb
<1>2. nb # 0
  BY <1>1
<1>3. BlockCount(CHUNK_LEN) = nb
  <2>1. nb - 1 \in Nat /\ BLOCK_LEN \in 1..BLOCK_LEN /\ BLOCK_LEN * (nb - 1) + BLOCK_LEN = CHUNK_LEN
    BY <1>1, <1>2
  <2>2. BlockCount(BLOCK_LEN * (nb - 1) + BLOCK_LEN) = (nb - 1) + 1
    BY <2>1, BlocksOf
  <2> QED
    BY <1>1, <2>1, <2>2
<1>4. ASSUME NEW i \in 1..nb
      PROVE  /\ (i - 1) * BLOCK_LEN + BLOCK_LEN <= CHUNK_LEN
             /\ i = nb => CHUNK_LEN - (i - 1) * BLOCK_LEN = BLOCK_LEN
  <2>1. (i - 1) * BLOCK_LEN + BLOCK_LEN = BLOCK_LEN * i /\ BLOCK_LEN * i <= BLOCK_LEN * nb
    BY <1>1
  <2> QED
    BY <1>1, <2>1
<1> QED
  BY <1>1, <1>2, <1>3, <1>4 DEF nb

\* A whole block of a chunk, as the chunk state compresses it.
LEMMA BlockOfChunk ==
  ASSUME NEW c, NEW i \in 1..(CHUNK_LEN \div BLOCK_LEN)
  PROVE  RefCompression(c, CHUNK_LEN, i)
           = Compression(BlockAt(i - 1), BLOCK_LEN, c,
                         (IF i = 1 THEN {"CHUNK_START"} ELSE {})
                           \cup (IF i = CHUNK_LEN \div BLOCK_LEN THEN {"CHUNK_END"} ELSE {}))
<1> DEFINE before == (i - 1) * BLOCK_LEN
           nb == CHUNK_LEN \div BLOCK_LEN
<1>1. /\ before + BLOCK_LEN <= CHUNK_LEN /\ (i = nb => CHUNK_LEN - before = BLOCK_LEN)
      /\ BlockCount(CHUNK_LEN) = nb
  BY WholeChunk
<1>2. before \in Nat /\ BLOCK_LEN \in Nat /\ CHUNK_LEN \in Nat
  BY BlocksAssumption
<1>3. [j \in 1..BLOCK_LEN |-> IF before + j <= CHUNK_LEN THEN before + j ELSE 0] = BlockAt(i - 1)
  <2>1. BlockAt(i - 1) = [j \in 1..BLOCK_LEN |-> before + j]
    BY DEF BlockAt
  <2> HIDE DEF before
  <2>2. \A j \in 1..BLOCK_LEN : before + j <= CHUNK_LEN
    BY <1>1, <1>2
  <2> QED
    BY <2>1, <2>2
<1> HIDE DEF nb
<1>4. (IF i = nb THEN CHUNK_LEN - before ELSE BLOCK_LEN) = BLOCK_LEN
  BY <1>1
<1>5. RefCompression(c, CHUNK_LEN, i)
        = Compression(BlockAt(i - 1), BLOCK_LEN, c,
                      (IF i = 1 THEN {"CHUNK_START"} ELSE {})
                        \cup (IF i = nb THEN {"CHUNK_END"} ELSE {}))
  BY <1>1, <1>3, <1>4 DEF RefCompression
<1> QED
  BY <1>5 DEF nb

\* The fields of a call.
LEMMA CallIs ==
  ASSUME NEW a \in Calls
  PROVE  /\ a.num_inputs \in Nat /\ a.blocks \in Nat \ {0} /\ a.counter \in Nat
         /\ a.increment_counter \in BOOLEAN
<1>1. CHUNK_LEN \div BLOCK_LEN \in Nat \ {0}
  BY WholeChunk
<1>2. ASSUME NEW n \in 0..MaxInputs, NEW mode \in Modes, a = ParentsCall(n, mode)
      PROVE  /\ a.num_inputs \in Nat /\ a.blocks \in Nat \ {0} /\ a.counter \in Nat
             /\ a.increment_counter \in BOOLEAN
  BY <1>2, InputsAssumption DEF ParentsCall
<1>3. ASSUME NEW n \in 0..MaxInputs, NEW c \in Counters, NEW mode \in Modes,
             a = ChunksCall(n, c, mode)
      PROVE  /\ a.num_inputs \in Nat /\ a.blocks \in Nat \ {0} /\ a.counter \in Nat
             /\ a.increment_counter \in BOOLEAN
  BY <1>1, <1>3, InputsAssumption DEF ChunksCall
<1> QED
  BY <1>2, <1>3 DEF Calls

\* What hash_one is told to do is what the input would get alone.
LEMMA CVIsAlone ==
  ASSUME NEW a \in Calls, NEW n \in Nat \ {0}
  PROVE  CVOf(a, n) = Alone(a, n)
<1>1. ASSUME NEW k \in 0..MaxInputs, NEW mode \in Modes, a = ParentsCall(k, mode)
      PROVE  CVOf(a, n) = Alone(a, n)
  <2>1. /\ a.blocks = 1 /\ a.counter = 0 /\ a.increment_counter = FALSE /\ a.mode = mode
        /\ a.flags = mode \cup {"PARENT"} /\ a.flags_start = {} /\ a.flags_end = {}
    BY <1>1 DEF ParentsCall
  <2>2. BlockOf(a, n, 1) = Of(n, Compression(BlockAt(0), BLOCK_LEN, 0, mode \cup {"PARENT"}))
    BY <2>1 DEF BlockOf, CounterOf
  <2>3. CVOf(a, n) = <<BlockOf(a, n, 1)>>
    BY <2>1 DEF CVOf
  <2> QED
    BY <2>1, <2>2, <2>3 DEF Alone, ParentCV
<1>2. ASSUME NEW k \in 0..MaxInputs, NEW c \in Counters, NEW mode \in Modes,
             a = ChunksCall(k, c, mode)
      PROVE  CVOf(a, n) = Alone(a, n)
  <2> DEFINE nb == CHUNK_LEN \div BLOCK_LEN
             at == c + n - 1
  <2>1. /\ a.blocks = nb /\ a.counter = c /\ a.increment_counter = TRUE /\ a.mode = mode
        /\ a.flags = mode /\ a.flags_start = {"CHUNK_START"} /\ a.flags_end = {"CHUNK_END"}
    BY <1>2 DEF ChunksCall
  <2>2. BlockCount(CHUNK_LEN) = nb
    BY WholeChunk
  <2>3. ASSUME NEW i \in 1..nb
        PROVE  BlockOf(a, n, i)
                 = Of(n, InMode(RefCompression(at, CHUNK_LEN, i), mode))
    <3>1. RefCompression(at, CHUNK_LEN, i)
            = Compression(BlockAt(i - 1), BLOCK_LEN, at,
                          (IF i = 1 THEN {"CHUNK_START"} ELSE {})
                            \cup (IF i = nb THEN {"CHUNK_END"} ELSE {}))
      BY BlockOfChunk
    <3> DEFINE start == IF i = 1 THEN {"CHUNK_START"} ELSE {}
               end == IF i = nb THEN {"CHUNK_END"} ELSE {}
    <3>2. CounterOf(a, n) = at
      BY <2>1 DEF CounterOf
    <3>3. BlockOf(a, n, i)
            = Of(n, Compression(BlockAt(i - 1), BLOCK_LEN, at, mode \cup start \cup end))
      <4> HIDE DEF at
      <4> QED
        BY <2>1, <3>2 DEF BlockOf
    <3>4. InMode(Compression(BlockAt(i - 1), BLOCK_LEN, at, start \cup end), mode)
            = Compression(BlockAt(i - 1), BLOCK_LEN, at, (start \cup end) \cup mode)
      <4> HIDE DEF at, start, end
      <4> QED
        BY DEF InMode, Compression
    <3>5. (start \cup end) \cup mode = mode \cup start \cup end
      OBVIOUS
    <3> QED
      BY <3>1, <3>3, <3>4, <3>5
  <2> HIDE DEF nb
  <2>4. Alone(a, n) = ChunkCV(n, at, mode)
    BY <2>1 DEF Alone
  <2> QED
    BY <2>1, <2>2, <2>3, <2>4 DEF CVOf, ChunkCV
<1> QED
  BY <1>1, <1>2 DEF Calls
-----------------------------------------------------------------------------
(***************************************************************************)
(* The inductive invariant: what is stored, and what hash_one has so far,  *)
(* is what the call asks for.                                              *)
(***************************************************************************)
Blocks == {BlockOf(a, n, i) : a \in Calls, n \in Nat, i \in Nat}
CVs == {CVOf(a, n) : a \in Calls, n \in Nat}

Stored ==
  /\ out \in Seq(CVs)
  /\ Len(out) = next_input - 1
  /\ \A n \in 1..Len(out) : out[n] = CVOf(call, n)

\* hash_one, between two blocks.
InOne ==
  /\ next_input <= call.num_inputs
  /\ blocks_done \in 0..call.blocks
  /\ one_cv \in Seq(Blocks)
  /\ Len(one_cv) = blocks_done
  /\ \A i \in 1..blocks_done : one_cv[i] = BlockOf(call, next_input, i)
  /\ block_flags = call.flags \cup (IF blocks_done = 0 THEN call.flags_start ELSE {})

ManyInv ==
  /\ loop \in {"none", "many", "one"}
  /\ call \in Calls
  /\ next_input \in 1..(call.num_inputs + 1)
  /\ next_counter = CounterOf(call, next_input)
  /\ Stored
  /\ loop = "none" => next_input = call.num_inputs + 1
  /\ loop = "one" => InOne

\* Before the first call it is as after a call without inputs.
LEMMA ManyInitInv == ManyInit => ManyInv
<1> SUFFICES ASSUME ManyInit
             PROVE  ManyInv
  OBVIOUS
<1>1. call = ParentsCall(0, {}) /\ 0 \in 0..MaxInputs
  BY InputsAssumption DEF ManyInit
<1>2. call \in Calls
  BY <1>1 DEF Calls, Modes
<1>3. call.num_inputs = 0 /\ call.increment_counter = FALSE /\ call.counter = 0
  BY <1>1 DEF ParentsCall
<1>4. loop = "none" /\ next_counter = 0 /\ next_input = 1 /\ out = <<>>
  BY DEF ManyInit
<1>5. Stored
  BY <1>4 DEF Stored
<1> QED
  BY <1>2, <1>3, <1>4, <1>5 DEF ManyInv, CounterOf

\* Each of the two loops keeps it.
LEMMA ManyNextInv ==
  ASSUME ManyInv, [ManyNext]_<<vars, manyVars>>
  PROVE  ManyInv'
<1> USE DEF ManyInv
<1>0. /\ call.num_inputs \in Nat /\ call.blocks \in Nat \ {0} /\ call.counter \in Nat
      /\ call.increment_counter \in BOOLEAN
      /\ next_input \in Nat \ {0}
  BY CallIs
<1>1. CASE UNCHANGED manyVars
  BY <1>1 DEF manyVars, Stored, InOne
<1>2. ASSUME NEW a \in Calls, Hash(a)
      PROVE  ManyInv'
  <2>1. /\ call' = a /\ next_counter' = a.counter /\ next_input' = 1 /\ out' = <<>>
        /\ loop' = "many"
    BY <1>2 DEF Hash
  <2>2. a.num_inputs \in Nat /\ a.counter \in Nat
    BY CallIs
  <2>3. Stored'
    BY <2>1 DEF Stored
  <2>4. CounterOf(a, 1) = a.counter
    BY <2>2 DEF CounterOf
  <2> QED
    BY <2>1, <2>2, <2>3, <2>4
<1>3. CASE StartInput
  <2>1. /\ UNCHANGED <<call, next_counter, next_input, out>>
        /\ next_input <= call.num_inputs /\ one_cv' = <<>> /\ blocks_done' = 0
        /\ block_flags' = call.flags \cup call.flags_start /\ loop' = "one"
    BY <1>3 DEF StartInput
  <2>2. Stored'
    BY <2>1 DEF Stored
  <2>3. InOne'
    BY <1>0, <2>1 DEF InOne
  <2> QED
    BY <2>1, <2>2, <2>3
<1>4. CASE HashBlock
  <2> DEFINE i == blocks_done + 1
             end == IF i = call.blocks THEN call.flags_end ELSE {}
             start == IF i = 1 THEN call.flags_start ELSE {}
             new == Of(next_input, Compression(BlockAt(i - 1), BLOCK_LEN, next_counter,
                                               call.flags \cup start \cup end))
  <2>1. /\ InOne /\ blocks_done < call.blocks /\ blocks_done \in Nat
        /\ UNCHANGED <<loop, call, next_counter, next_input, out>>
        /\ blocks_done' = i /\ block_flags' = call.flags
    BY <1>0, <1>4 DEF HashBlock, NextFlags, InOne
  <2>2. /\ i \in 1..call.blocks /\ i - 1 = blocks_done
        /\ (call.blocks - blocks_done = 1 <=> i = call.blocks)
        /\ (blocks_done = 0 <=> i = 1)
    BY <1>0, <2>1
  <2>3. one_cv' = Append(one_cv, new)
    <3>1. block_flags = call.flags \cup start
      BY <2>1, <2>2 DEF InOne
    <3>2. (IF call.blocks - blocks_done = 1 THEN call.flags_end ELSE {}) = end
      BY <2>2
    <3> HIDE DEF start, end
    <3> QED
      BY <1>4, <2>2, <3>1, <3>2 DEF HashBlock
  <2>4. new = BlockOf(call, next_input, i)
    BY DEF BlockOf
  <2>5. new \in Blocks
    BY <1>0, <2>2, <2>4 DEF Blocks
  <2> HIDE DEF new
  <2>6. /\ one_cv' \in Seq(Blocks) /\ Len(one_cv') = i /\ one_cv'[i] = new
        /\ \A j \in 1..blocks_done : one_cv'[j] = one_cv[j]
    BY <2>1, <2>3, <2>5 DEF InOne
  <2>7. \A j \in 1..i : one_cv'[j] = BlockOf(call, next_input, j)
    BY <2>1, <2>4, <2>6 DEF InOne
  <2>8. InOne'
    BY <1>0, <2>1, <2>2, <2>6, <2>7 DEF InOne
  <2>9. Stored'
    BY <2>1 DEF Stored
  <2> QED
    BY <2>1, <2>8, <2>9
<1>5. CASE StoreCV
  <2>1. /\ loop = "one" /\ InOne /\ blocks_done = call.blocks
        /\ UNCHANGED call /\ loop' = "many" /\ next_input' = next_input + 1
        /\ out' = Append(out, one_cv)
        /\ next_counter' = IF call.increment_counter THEN next_counter + 1 ELSE next_counter
    BY <1>5 DEF StoreCV
  <2>2. one_cv = CVOf(call, next_input)
    <3>1. /\ one_cv \in Seq(Blocks) /\ Len(one_cv) = call.blocks
          /\ \A i \in 1..call.blocks : one_cv[i] = BlockOf(call, next_input, i)
      BY <2>1 DEF InOne
    <3>2. one_cv = [i \in 1..call.blocks |-> one_cv[i]]
      BY <3>1
    <3> QED
      BY <3>1, <3>2 DEF CVOf
  <2>3. one_cv \in CVs
    BY <1>0, <2>2 DEF CVs
  <2>4. Len(out) = next_input - 1 /\ out \in Seq(CVs)
    BY DEF Stored
  <2>5. /\ out' \in Seq(CVs) /\ Len(out') = next_input /\ out'[next_input] = one_cv
        /\ \A n \in 1..(next_input - 1) : out'[n] = out[n]
    BY <1>0, <2>1, <2>3, <2>4
  <2>6. \A n \in 1..next_input : out'[n] = CVOf(call, n)
    BY <1>0, <2>2, <2>4, <2>5 DEF Stored
  <2>7. Stored'
    BY <1>0, <2>1, <2>5, <2>6 DEF Stored
  <2>8. next_counter' = CounterOf(call, next_input + 1)
    BY <1>0, <2>1 DEF CounterOf
  <2>9. next_input + 1 \in 1..(call.num_inputs + 1)
    BY <1>0, <2>1 DEF InOne
  <2> QED
    BY <2>1, <2>7, <2>8, <2>9
<1>6. CASE Return
  <2>1. /\ UNCHANGED <<call, next_counter, next_input, out>> /\ loop' = "none"
        /\ next_input > call.num_inputs
    BY <1>6 DEF Return, AllDone
  <2>2. next_input = call.num_inputs + 1
    BY <1>0, <2>1
  <2> QED
    BY <2>1, <2>2 DEF Stored
<1>7. ASSUME NEW n \in 1..MaxInputs, NEW mode \in ModeFlags, Hash(ParentsCall(n, mode))
      PROVE  ManyInv'
  <2>1. ParentsCall(n, mode) \in Calls
    BY InputsAssumption DEF Calls, Modes
  <2> QED
    BY <1>2, <1>7, <2>1
<1>8. ASSUME NEW n \in 0..MaxInputs, NEW c \in Counters, NEW mode \in ModeFlags,
             Hash(ChunksCall(n, c, mode))
      PROVE  ManyInv'
  <2>1. ChunksCall(n, c, mode) \in Calls
    BY DEF Calls, Modes
  <2> QED
    BY <1>2, <1>8, <2>1
<1> QED
  BY <1>1, <1>3, <1>4, <1>5, <1>6, <1>7, <1>8 DEF ManyNext, HashManyStep

\* The invariant.
LEMMA AlwaysManyInv == ManySpec => []ManyInv
BY ManyInitInv, ManyNextInv, PTL DEF ManySpec

(***************************************************************************)
(* A chunk or parent that is hashed among others gets the chaining value   *)
(* that the chunk state or parent_output gives it, however many inputs a   *)
(* call has and of however many blocks (blake3_hash_many).                 *)
(***************************************************************************)
THEOREM AlwaysSameAsAlone == ManySpec => []SameAsAlone
<1>1. ASSUME ManyInv
      PROVE  SameAsAlone
  <2>1. /\ Len(out) = next_input - 1 /\ call \in Calls
        /\ \A n \in 1..Len(out) : out[n] = CVOf(call, n)
        /\ loop = "none" => next_input = call.num_inputs + 1
    BY <1>1 DEF ManyInv, Stored
  <2>2. next_input \in Nat /\ call.num_inputs \in Nat
    BY <1>1, <2>1, CallIs DEF ManyInv
  <2>3. ASSUME NEW n \in 1..Len(out)
        PROVE  out[n] = Alone(call, n)
    <3>1. n \in Nat \ {0}
      BY <2>1, <2>2
    <3> QED
      BY <2>1, <3>1, CVIsAlone
  <2> QED
    BY <2>1, <2>2, <2>3 DEF SameAsAlone, Alone
<1> QED
  BY <1>1, AlwaysManyInv, PTL

(***************************************************************************)
(* blake3_hash_many and hash_one come to an end.                           *)
(***************************************************************************)
\* A bound on the steps until blake3_hash_many returns: those for an input,
\* as often as there are inputs, and those for the input under way.
ManyStepsLeft ==
  CASE loop = "many" -> (call.blocks + 3) * (call.num_inputs + 1 - next_input) + 1
    [] loop = "one" -> (call.blocks + 3) * (call.num_inputs - next_input)
                         + (call.blocks - blocks_done) + 2
    [] OTHER -> 0

\* A step of a call under way lowers it.
HashGoesOn == loop # "none" => ManyStepsLeft' < ManyStepsLeft

\* What each value of loop means for the numbers.
LEMMA ManyNumbers ==
  ASSUME ManyInv
  PROVE  /\ call.num_inputs \in Nat /\ call.blocks \in Nat \ {0} /\ next_input \in Nat
         /\ call.num_inputs + 1 - next_input \in Nat
         /\ \A n \in Nat : (call.blocks + 3) * n \in Nat
         /\ loop = "one" => /\ call.num_inputs - next_input \in Nat
                            /\ blocks_done \in Nat /\ call.blocks - blocks_done \in Nat
<1>1. call.num_inputs \in Nat /\ call.blocks \in Nat \ {0}
  BY CallIs DEF ManyInv
<1>2. next_input \in 1..(call.num_inputs + 1)
  BY DEF ManyInv
<1>3. \A n \in Nat : (call.blocks + 3) * n \in Nat
  <2>1. \A m, n \in Nat : m * n \in Nat
    OBVIOUS
  <2> QED
    BY <1>1, <2>1
<1>4. ASSUME loop = "one"
      PROVE  next_input <= call.num_inputs /\ blocks_done \in 0..call.blocks
  BY <1>4 DEF ManyInv, InOne
<1> QED
  BY <1>1, <1>2, <1>3, <1>4

(***************************************************************************)
(* However many inputs a call has, of however many blocks, each step of    *)
(* blake3_hash_many and of hash_one brings a natural number nearer to 0.   *)
(***************************************************************************)
THEOREM HashManyIsBounded ==
  ManySpec => [](ManyStepsLeft \in Nat) /\ [][HashGoesOn]_<<vars, manyVars>>
<1> DEFINE b == call.blocks
           W == b + 3
           k == call.num_inputs - next_input
<1>1. ASSUME ManyInv PROVE ManyStepsLeft \in Nat
  <2>1. loop = "many" => ManyStepsLeft = W * (k + 1) + 1
    <3>1. call.num_inputs + 1 - next_input = k + 1
      BY <1>1, ManyNumbers
    <3> QED
      BY <3>1 DEF ManyStepsLeft
  <2>2. loop = "one" => ManyStepsLeft = W * k + (b - blocks_done) + 2
    BY DEF ManyStepsLeft
  <2>3. loop \notin {"many", "one"} => ManyStepsLeft = 0
    BY DEF ManyStepsLeft
  <2>4. /\ W * (k + 1) \in Nat
        /\ loop = "one" => W * k \in Nat /\ b - blocks_done \in Nat
    <3>1. k + 1 \in Nat
      BY <1>1, ManyNumbers
    <3> QED
      BY <1>1, <3>1, ManyNumbers
  <2> QED
    BY <2>1, <2>2, <2>3, <2>4
<1>2. ASSUME ManyInv, [ManyNext]_<<vars, manyVars>> PROVE [HashGoesOn]_<<vars, manyVars>>
  <2> SUFFICES ASSUME ManyNext, loop # "none" PROVE ManyStepsLeft' < ManyStepsLeft
    BY <1>2 DEF HashGoesOn
  <2>1. b \in Nat \ {0} /\ k \in Int /\ k + 1 \in Nat /\ W \in Nat
        /\ call.num_inputs + 1 - next_input = k + 1
    BY <1>2, ManyNumbers
  <2>2. CASE StartInput
    <3>1. /\ UNCHANGED <<call, next_input>> /\ loop = "many" /\ loop' = "one" /\ blocks_done' = 0
          /\ next_input <= call.num_inputs
      BY <2>2 DEF StartInput
    <3>2. k \in Nat
      BY <1>2, <3>1, ManyNumbers
    <3>3. ManyStepsLeft = W * (call.num_inputs + 1 - next_input) + 1
          /\ ManyStepsLeft' = W * k + (b - 0) + 2
      BY <3>1 DEF ManyStepsLeft
    <3>4. W * k \in Nat /\ W * (k + 1) = W * k + (b + 3)
      <4>1. \A x, y \in Nat : x * y \in Nat /\ x * (y + 1) = x * y + x
        OBVIOUS
      <4> QED
        BY <2>1, <3>2, <4>1
    <3> DEFINE u == W * k
               v == W * (k + 1)
    <3>5. u \in Nat /\ v = u + (b + 3)
      BY <3>4
    <3> HIDE DEF u, v, b
    <3>6. u + (b - 0) + 2 < v + 1
      BY <2>1, <3>5
    <3> QED
      BY <2>1, <3>3, <3>6 DEF u, v
  <2>3. CASE HashBlock
    <3>1. /\ UNCHANGED <<call, next_input>> /\ loop = "one" /\ loop' = "one"
          /\ blocks_done' = blocks_done + 1
      BY <2>3 DEF HashBlock
    <3>2. k \in Nat /\ blocks_done \in Nat
      BY <1>2, <3>1, ManyNumbers
    <3>3. /\ ManyStepsLeft = W * k + (b - blocks_done) + 2
          /\ ManyStepsLeft' = W * k + (b - (blocks_done + 1)) + 2
      BY <3>1 DEF ManyStepsLeft
    <3> DEFINE u == W * k
    <3>4. u \in Nat
      BY <2>1, <3>2
    <3> HIDE DEF u, b
    <3>5. u + (b - (blocks_done + 1)) + 2 < u + (b - blocks_done) + 2
      BY <2>1, <3>2, <3>4
    <3> QED
      BY <3>3, <3>5 DEF u
  <2>4. CASE StoreCV
    <3>1. /\ UNCHANGED call /\ loop = "one" /\ loop' = "many" /\ blocks_done = b
          /\ next_input' = next_input + 1
      BY <2>4 DEF StoreCV
    <3>2. k \in Nat /\ call.num_inputs + 1 - (next_input + 1) = k
      BY <1>2, <3>1, ManyNumbers
    <3>3. /\ ManyStepsLeft = W * k + (b - b) + 2
          /\ ManyStepsLeft' = W * k + 1
      BY <3>1, <3>2 DEF ManyStepsLeft
    <3> DEFINE u == W * k
    <3>4. u \in Nat
      BY <2>1, <3>2
    <3> HIDE DEF u, b
    <3>5. u + 1 < u + (b - b) + 2
      BY <2>1, <3>4
    <3> QED
      BY <3>3, <3>5 DEF u
  <2>5. CASE Return
    <3>1. loop = "many" /\ loop' = "none" /\ ManyStepsLeft' = 0
      BY <2>5 DEF Return, ManyStepsLeft
    <3>2. ManyStepsLeft = W * (k + 1) + 1 /\ W * (k + 1) \in Nat
      BY <2>1, <3>1 DEF ManyStepsLeft
    <3> QED
      BY <3>1, <3>2
  <2> QED
    BY <2>2, <2>3, <2>4, <2>5 DEF ManyNext, HashManyStep, Hash
<1> QED
  BY <1>1, <1>2, AlwaysManyInv, PTL DEF ManySpec
=============================================================================
