------------------------ MODULE KeysAndOutputProofs -------------------------
(***************************************************************************)
(* Proofs about the two ends of a hash: RootOutput, for every block length *)
(* and every window, and KeyModes, for keys of any length, any keys,       *)
(* contexts and initialisation vector.  The two share no state.            *)
(***************************************************************************)
EXTENDS RootOutput, KeyModes, TLAPS

-----------------------------------------------------------------------------
(***************************************************************************)
(* RootOutput: how far the buffer is written.                              *)
(***************************************************************************)
\* The buffer when the first w bytes of the window from s on are written.
Window(s, w) == [j \in Buffer |-> IF j <= w THEN StreamByte(s + j - 1) ELSE Untouched]

\* How far the buffer is written.
Written == IF pc = "idle" THEN asked ELSE at + BLOCK_LEN * i

(***************************************************************************)
(* Where a call is: the counter is the one of the next byte, unless there  *)
(* is none.                                                                *)
(***************************************************************************)
Aligned == out_len > 0 => seek + at = BLOCK_LEN * output_block_counter

Places ==
  /\ pc = "idle" => i = 0
  /\ pc = "first" =>
       /\ at = 0 /\ i = 0 /\ out_len = asked
       /\ output_block_counter = seek \div BLOCK_LEN
  /\ pc = "whole" =>
       at + out_len = asked /\ Aligned /\ i <= out_len \div BLOCK_LEN
  /\ pc = "last" =>
       at + out_len = asked /\ Aligned /\ i = 0 /\ out_len < BLOCK_LEN

IInv ==
  /\ TypeOK
  /\ Places
  /\ out = Window(seek, Written)
-----------------------------------------------------------------------------
\* Quotient and remainder are determined by what they add up to.
LEMMA DivisionIs ==
  ASSUME NEW d \in Nat \ {0}, NEW q \in Nat, NEW r \in 0..(d-1)
  PROVE  (d * q + r) \div d = q /\ (d * q + r) % d = r
OBVIOUS

LEMMA DivisionOf ==
  ASSUME NEW a \in Nat, NEW d \in Nat \ {0}
  PROVE  /\ a \div d \in Nat /\ a \div d \in 0..a
         /\ a % d \in Nat /\ a % d \in 0..(d-1)
         /\ a = d * (a \div d) + (a % d) /\ d * (a \div d) \in 0..a
OBVIOUS

\* Byte r of block q of the output.
LEMMA ByteOf ==
  ASSUME NEW q \in Nat, NEW r \in 0..(BLOCK_LEN - 1), NEW p \in Nat, p = BLOCK_LEN * q + r
  PROVE  StreamByte(p) = <<q, r>>
BY DivisionIs, WindowAssumption DEF StreamByte

LEMMA StreamByteType ==
  ASSUME NEW p \in Nat
  PROVE  StreamByte(p) \in Nat \X (0..(BLOCK_LEN - 1))
<1>1. p \div BLOCK_LEN \in Nat /\ p % BLOCK_LEN \in 0..(BLOCK_LEN - 1)
  BY DivisionOf, WindowAssumption
<1> QED
  BY <1>1 DEF StreamByte

LEMMA WindowType ==
  ASSUME NEW w \in Nat, seek \in Nat
  PROVE  Window(seek, w) \in [Buffer -> {Untouched} \cup (Nat \X (0..(BLOCK_LEN - 1)))]
<1>1. \A j \in Buffer : seek + j - 1 \in Nat
  BY WindowAssumption DEF Buffer
<1> QED
  BY <1>1, StreamByteType DEF Window

\* A part of a block, copied behind what is written of the window.
LEMMA CopiedExtends ==
  ASSUME NEW p \in Nat, NEW n \in Nat, NEW c \in Nat, NEW k \in Nat, seek \in Nat,
         k + n <= BLOCK_LEN, seek + p = BLOCK_LEN * c + k, out = Window(seek, p)
  PROVE  Copied(n, p, c, k) = Window(seek, p + n)
<1> SUFFICES ASSUME NEW j \in Buffer
             PROVE  (IF j \in (p + 1)..(p + n) THEN <<c, k + (j - p - 1)>> ELSE out[j])
                      = (IF j <= p + n THEN StreamByte(seek + j - 1) ELSE Untouched)
  BY DEF Copied, Window
<1> DEFINE b == BLOCK_LEN * c
<1>0. j \in Nat \ {0} /\ b \in Nat /\ BLOCK_LEN \in Nat \ {0} /\ seek + p = b + k
  BY WindowAssumption DEF Buffer
<1>1. out[j] = IF j <= p THEN StreamByte(seek + j - 1) ELSE Untouched
  BY DEF Window
<1>2. CASE j \in (p + 1)..(p + n)
  <2> DEFINE r == k + (j - p - 1)
  <2>0. r \in 0..(BLOCK_LEN - 1) /\ seek + j - 1 \in Nat /\ seek + j - 1 = b + r
    <3> HIDE DEF b
    <3> QED  BY <1>0, <1>2
  <2>1. StreamByte(seek + j - 1) = <<c, r>>
    <3> HIDE DEF r
    <3> QED  BY <2>0, ByteOf
  <2> QED
    BY <2>1, <1>2, <1>0
<1>3. CASE j \notin (p + 1)..(p + n)
  BY <1>3, <1>1, <1>0
<1> QED
  BY <1>2, <1>3

\* Whole blocks, written behind what is written of the window.
LEMMA BlocksExtend ==
  ASSUME NEW p \in Nat, NEW n \in Nat, NEW c \in Nat, seek \in Nat,
         seek + p = BLOCK_LEN * c, out = Window(seek, p)
  PROVE  Blocks(n, p, c) = Window(seek, p + n * BLOCK_LEN)
<1> DEFINE nb == n * BLOCK_LEN
<1>0. nb \in Nat /\ BLOCK_LEN \in Nat \ {0}
  BY WindowAssumption
<1> SUFFICES ASSUME NEW j \in Buffer
             PROVE  (IF j \in (p + 1)..(p + nb)
                     THEN <<c + (j - p - 1) \div BLOCK_LEN, (j - p - 1) % BLOCK_LEN>>
                     ELSE out[j])
                      = (IF j <= p + nb THEN StreamByte(seek + j - 1) ELSE Untouched)
  BY DEF Blocks, Window
<1>a. j \in Nat \ {0}
  BY <1>0, WindowAssumption DEF Buffer
<1>1. out[j] = IF j <= p THEN StreamByte(seek + j - 1) ELSE Untouched
  BY DEF Window
<1> HIDE DEF nb
<1>2. CASE j \in (p + 1)..(p + nb)
  <2> DEFINE x == j - p - 1
             q == x \div BLOCK_LEN
             r == x % BLOCK_LEN
  <2>0. x \in Nat
    BY <1>2, <1>0, <1>a
  <2>1. q \in Nat /\ r \in 0..(BLOCK_LEN - 1) /\ x = BLOCK_LEN * q + r
    <3> HIDE DEF x
    <3> QED  BY <2>0, <1>0, DivisionOf
  <2>2. seek + j - 1 \in Nat /\ seek + j - 1 = BLOCK_LEN * c + x
    <3> DEFINE b == BLOCK_LEN * c
    <3>1. b \in Nat /\ seek + p = b
      BY <1>0
    <3> HIDE DEF b
    <3>2. seek + j - 1 \in Nat /\ seek + j - 1 = b + x
      BY <3>1, <2>0, <1>a
    <3> QED
      BY <3>2 DEF b
  <2> HIDE DEF x, q, r
  <2>3. c + q \in Nat /\ BLOCK_LEN * (c + q) + r = BLOCK_LEN * c + (BLOCK_LEN * q + r)
    BY <2>1, <1>0
  <2>4. StreamByte(seek + j - 1) = <<c + q, r>>
    BY <2>1, <2>2, <2>3, ByteOf
  <2> QED
    BY <2>4, <1>2, <1>0, <1>a DEF x, q, r
<1>3. CASE j \notin (p + 1)..(p + nb)
  BY <1>3, <1>1, <1>0, <1>a
<1> QED
  BY <1>2, <1>3
-----------------------------------------------------------------------------
LEMMA InitHolds == Init => IInv
<1> SUFFICES ASSUME Init PROVE IInv
  OBVIOUS
<1>1. TypeOK
  BY WindowAssumption DEF Init, TypeOK
<1>2. Places
  BY DEF Init, Places
<1>3. Written = 0
  BY DEF Init, Written
<1>4. \A j \in Buffer : ~(j <= 0)
  BY WindowAssumption DEF Buffer
<1>5. out = Window(seek, 0)
  BY <1>4 DEF Init, Window
<1> QED
  BY <1>1, <1>2, <1>3, <1>5 DEF IInv

LEMMA CallKeeps ==
  ASSUME IInv, NEW s \in 0..MaxSeek, NEW n \in 1..MaxOutLen, Call(s, n)
  PROVE  IInv'
<1>0. s \in Nat /\ n \in 0..MaxOutLen /\ n > 0 /\ BLOCK_LEN \in Nat \ {0}
  BY WindowAssumption
<1>1. /\ s \div BLOCK_LEN \in Nat /\ s % BLOCK_LEN \in 0..(BLOCK_LEN - 1)
      /\ s = BLOCK_LEN * (s \div BLOCK_LEN) + (s % BLOCK_LEN)
  BY <1>0, DivisionOf
<1>a. n \in Nat
  BY <1>0
<1>b. n \div BLOCK_LEN \in Nat
  BY <1>0, <1>a, DivisionOf
<1>2. i = 0 /\ pc = "idle"
  BY DEF IInv, Places, Call
<1>3. TypeOK'
  BY <1>0, <1>1, <1>2, WindowAssumption DEF IInv, TypeOK, Call
<1>4. s % BLOCK_LEN = 0 => s + 0 = BLOCK_LEN * (s \div BLOCK_LEN)
  BY <1>0, <1>1
<1>5. Places'
  BY <1>0, <1>1, <1>b, <1>2, <1>4 DEF Places, Aligned, Call
<1>6. Written' = 0
  BY <1>2, <1>0 DEF Written, Call
<1>7. \A j \in Buffer : ~(j <= 0)
  BY WindowAssumption DEF Buffer
<1>8. out' = Window(seek', 0)
  BY <1>7 DEF Call, Window, Buffer
<1> QED
  BY <1>3, <1>5, <1>6, <1>8 DEF IInv

LEMMA FirstBlockKeeps ==
  ASSUME IInv, FirstBlock
  PROVE  IInv'
<1> DEFINE offset == seek % BLOCK_LEN
           q == seek \div BLOCK_LEN
           bytes == Capped(out_len, BLOCK_LEN - offset)
<1>0. /\ seek \in Nat /\ out_len \in 0..MaxOutLen /\ BLOCK_LEN \in Nat \ {0}
      /\ asked \in 0..MaxOutLen /\ MaxOutLen \in Nat
      /\ at = 0 /\ i = 0 /\ out_len = asked /\ output_block_counter = q /\ pc = "first"
  BY WindowAssumption DEF IInv, TypeOK, Places, FirstBlock
<1>1. q \in Nat /\ offset \in 0..(BLOCK_LEN - 1) /\ seek = BLOCK_LEN * q + offset
  BY <1>0, DivisionOf
<1> HIDE DEF q, offset
<1>2. /\ bytes \in 0..out_len /\ offset + bytes <= BLOCK_LEN
      /\ out_len - bytes > 0 => offset + bytes = BLOCK_LEN
  BY <1>0, <1>1 DEF Capped
<1> HIDE DEF bytes
<1>3. /\ out' = Copied(bytes, 0, q, offset) /\ at' = bytes /\ out_len' = out_len - bytes
      /\ output_block_counter' = q + 1 /\ pc' = "whole" /\ seek' = seek
      /\ asked' = asked /\ i' = 0
  BY <1>0, <1>2, <1>1 DEF FirstBlock, Following, bytes, offset
<1>4. Written = 0
  BY <1>0 DEF Written
<1>5. out = Window(seek, 0)
  BY <1>4 DEF IInv
<1>6. Copied(bytes, 0, q, offset) = Window(seek, 0 + bytes)
  BY <1>0, <1>1, <1>2, <1>5, CopiedExtends
<1>7. out' = Window(seek', bytes)
  BY <1>2, <1>3, <1>6, 0 + bytes = bytes
<1>8. Written' = bytes
  BY <1>3, <1>2, <1>0 DEF Written
<1>9. out_len - bytes > 0 => seek + bytes = BLOCK_LEN * (q + 1)
  BY <1>0, <1>1, <1>2
<1>a. out_len - bytes \in Nat
  BY <1>0, <1>2
<1>10. (out_len - bytes) \div BLOCK_LEN \in Nat
  BY <1>0, <1>a, DivisionOf
<1>11. Places'
  BY <1>0, <1>2, <1>3, <1>9, <1>10 DEF Places, Aligned
<1>12. bytes \in Nat /\ seek' \in Nat
  BY <1>0, <1>2, <1>3
<1>13. out' \in [Buffer -> {Untouched} \cup (Nat \X (0..(BLOCK_LEN - 1)))]
  BY <1>3, <1>6, <1>12, WindowType, 0 + bytes = bytes
<1>14. TypeOK'
  BY <1>0, <1>1, <1>2, <1>3, <1>13 DEF IInv, TypeOK
<1> QED
  BY <1>7, <1>8, <1>11, <1>14 DEF IInv

\* In blake3_xof_many there is something to write, at a block's boundary.
LEMMA InXofMany ==
  ASSUME IInv, pc = "whole"
  PROVE  LET n == out_len \div BLOCK_LEN
         IN  /\ n \in 0..out_len /\ BLOCK_LEN * n \in 0..out_len /\ i \in 0..n
             /\ at \in Nat /\ at + BLOCK_LEN * i \in Nat /\ out = Window(seek, at + BLOCK_LEN * i)
             /\ seek \in Nat /\ output_block_counter \in Nat
             /\ n > 0 => seek + at = BLOCK_LEN * output_block_counter
<1> DEFINE n == out_len \div BLOCK_LEN
<1>1. out_len \in Nat /\ BLOCK_LEN \in Nat \ {0} /\ at \in Nat /\ i \in Nat
  BY WindowAssumption DEF IInv, TypeOK
<1>2. n \in 0..out_len /\ BLOCK_LEN * n \in 0..out_len
  BY <1>1, DivisionOf
<1>3. i <= n /\ Aligned
  BY DEF IInv, Places
<1>4. n > 0 => out_len > 0
  BY <1>1, <1>2
<1>5. BLOCK_LEN * i \in Nat
  BY <1>1
<1>6. Written = at + BLOCK_LEN * i
  BY DEF Written
<1> QED
  BY <1>1, <1>2, <1>3, <1>4, <1>5, <1>6, WindowAssumption DEF IInv, TypeOK, Aligned

LEMMA WideXofKeeps ==
  ASSUME IInv, WideXof
  PROVE  IInv'
<1> DEFINE n == out_len \div BLOCK_LEN
           w == at + n * BLOCK_LEN
<1>0. /\ pc = "whole" /\ i = 0 /\ n > 0 /\ i' = n
      /\ out' = Blocks(n, at, output_block_counter)
      /\ UNCHANGED <<pc, seek, asked, output_block_counter, at, out_len>>
  BY DEF WideXof
<1>1. /\ n \in 0..out_len /\ at \in Nat /\ out = Window(seek, at + BLOCK_LEN * i)
      /\ seek \in Nat /\ output_block_counter \in Nat /\ out_len \in 0..MaxOutLen
      /\ seek + at = BLOCK_LEN * output_block_counter /\ BLOCK_LEN \in Nat \ {0}
  BY <1>0, InXofMany, WindowAssumption DEF IInv, TypeOK
<1>2. at + BLOCK_LEN * i = at
  BY <1>0, <1>1
<1>3. n \in Nat /\ w \in Nat
  BY <1>1, WindowAssumption
<1>4. out' = Window(seek, w)
  BY <1>0, <1>1, <1>2, <1>3, BlocksExtend
<1>5. out' = Window(seek', w)
  BY <1>4, <1>0
<1>6. Written' = w
  BY <1>0, <1>1, <1>3, n * BLOCK_LEN = BLOCK_LEN * n DEF Written
<1>7. out' \in [Buffer -> {Untouched} \cup (Nat \X (0..(BLOCK_LEN - 1)))]
  BY <1>4, <1>3, <1>1, WindowType
<1>8. TypeOK'
  BY <1>0, <1>1, <1>7, WindowAssumption DEF IInv, TypeOK
<1>9. Places'
  BY <1>0, <1>1, <1>3 DEF IInv, Places, Aligned
<1> QED
  BY <1>5, <1>6, <1>8, <1>9 DEF IInv

LEMMA XofBlockKeeps ==
  ASSUME IInv, XofBlock
  PROVE  IInv'
<1> DEFINE n == out_len \div BLOCK_LEN
           b == BLOCK_LEN * i
           c == output_block_counter
<1>0. /\ pc = "whole" /\ i < n /\ i' = i + 1
      /\ out' = Blocks(1, at + b, c + i)
      /\ UNCHANGED <<pc, seek, asked, output_block_counter, at, out_len>>
  BY DEF XofBlock
<1>1. /\ n \in 0..out_len /\ i \in 0..n /\ at \in Nat /\ at + b \in Nat
      /\ out = Window(seek, at + b) /\ seek \in Nat /\ c \in Nat /\ out_len \in 0..MaxOutLen
      /\ n > 0 => seek + at = BLOCK_LEN * c
      /\ BLOCK_LEN \in Nat \ {0}
  BY <1>0, InXofMany, WindowAssumption DEF IInv, TypeOK
<1>2. seek + at = BLOCK_LEN * c /\ i \in Nat
  BY <1>0, <1>1
<1>3. b \in Nat /\ BLOCK_LEN * (c + i) = BLOCK_LEN * c + b /\ BLOCK_LEN * (i + 1) = b + BLOCK_LEN
  BY <1>1, <1>2
<1>4. c + i \in Nat /\ seek + (at + b) = BLOCK_LEN * (c + i)
  <2> DEFINE bc == BLOCK_LEN * c
             bci == BLOCK_LEN * (c + i)
  <2>1. bc \in Nat /\ bci = bc + b /\ seek + at = bc
    BY <1>1, <1>2, <1>3
  <2> HIDE DEF bc, bci, b
  <2>2. seek + (at + b) = bci
    BY <2>1, <1>1, <1>3
  <2> QED
    BY <2>2, <1>1, <1>2 DEF bci
<1>5. out' = Window(seek, (at + b) + 1 * BLOCK_LEN)
  BY <1>0, <1>1, <1>4, BlocksExtend
<1>6. at + BLOCK_LEN * (i + 1) = (at + b) + 1 * BLOCK_LEN
  BY <1>1, <1>3
<1>7. out' = Window(seek', at + BLOCK_LEN * (i + 1))
  BY <1>5, <1>6, <1>0
<1>8. Written' = at + BLOCK_LEN * (i + 1)
  BY <1>0 DEF Written
<1>9. out' \in [Buffer -> {Untouched} \cup (Nat \X (0..(BLOCK_LEN - 1)))]
  BY <1>5, <1>1, WindowType, (at + b) + 1 * BLOCK_LEN \in Nat
<1>10. TypeOK'
  BY <1>0, <1>1, <1>9, WindowAssumption DEF IInv, TypeOK
<1>11. Places'
  BY <1>0, <1>1 DEF IInv, Places, Aligned
<1> QED
  BY <1>7, <1>8, <1>10, <1>11 DEF IInv

LEMMA PassBlocksKeeps ==
  ASSUME IInv, PassBlocks
  PROVE  IInv'
<1> DEFINE n == out_len \div BLOCK_LEN
           r == out_len % BLOCK_LEN
           b == BLOCK_LEN * n
           c == output_block_counter
<1>0. /\ pc = "whole" /\ i = n /\ i' = 0 /\ c' = c + n /\ at' = at + n * BLOCK_LEN
      /\ out_len' = r /\ pc' = IF r # 0 THEN "last" ELSE "idle"
      /\ UNCHANGED <<seek, asked, out>>
  BY DEF PassBlocks, Rest
<1>1. /\ at \in Nat /\ out = Window(seek, at + BLOCK_LEN * i) /\ seek \in Nat /\ c \in Nat
      /\ n > 0 => seek + at = BLOCK_LEN * c
      /\ out_len \in 0..MaxOutLen /\ MaxOutLen \in Nat /\ asked \in 0..MaxOutLen
      /\ at + out_len = asked /\ Aligned /\ BLOCK_LEN \in Nat \ {0}
  BY <1>0, InXofMany, WindowAssumption DEF IInv, TypeOK, Places
<1>a. out_len \in Nat
  BY <1>1
<1>2. n \in 0..out_len /\ b \in 0..out_len /\ r \in 0..(BLOCK_LEN - 1) /\ out_len = b + r
  BY <1>1, <1>a, DivisionOf
<1>3. n * BLOCK_LEN = b /\ BLOCK_LEN * (c + n) = BLOCK_LEN * c + b
  BY <1>1, <1>2
<1>4. r > 0 => seek + (at + b) = BLOCK_LEN * (c + n)
  <2> DEFINE bc == BLOCK_LEN * c
             bcn == BLOCK_LEN * (c + n)
  <2>1. bc \in Nat /\ bcn = bc + b /\ (out_len > 0 => seek + at = bc)
    BY <1>1, <1>3 DEF Aligned
  <2> HIDE DEF bc, bcn, b, r
  <2>2. r > 0 => seek + (at + b) = bcn
    BY <2>1, <1>1, <1>2
  <2> QED
    BY <2>2 DEF bcn
<1>5. at' = at + b /\ at + b \in Nat /\ at + b + r = asked
  <2> HIDE DEF b, r
  <2> QED  BY <1>0, <1>1, <1>2, <1>3
<1>6. Written' = at + b
  <2>1. CASE r # 0
    <3>1. pc' # "idle" /\ BLOCK_LEN * 0 = 0
      BY <1>0, <1>1, <2>1
    <3> QED  BY <3>1, <1>0, <1>5 DEF Written
  <2>2. CASE r = 0
    <3>1. pc' = "idle" /\ at + b = asked
      <4> HIDE DEF b, r
      <4> QED  BY <1>0, <1>5, <1>1, <1>2, <2>2
    <3> QED  BY <3>1, <1>0 DEF Written
  <2> QED
    BY <2>1, <2>2
<1>7. out' = Window(seek', at + b)
  BY <1>0, <1>1
<1>8. Places'
  <2> HIDE DEF b, r, n
  <2> QED  BY <1>0, <1>1, <1>2, <1>4, <1>5 DEF Places, Aligned
<1>9. TypeOK'
  <2> HIDE DEF b, r, n
  <2> QED  BY <1>0, <1>1, <1>2, <1>5 DEF IInv, TypeOK
<1> QED
  BY <1>6, <1>7, <1>8, <1>9 DEF IInv

LEMMA LastBlockKeeps ==
  ASSUME IInv, LastBlock
  PROVE  IInv'
<1> DEFINE b == BLOCK_LEN * output_block_counter
<1>0. /\ pc = "last" /\ pc' = "idle" /\ out' = Copied(out_len, at, output_block_counter, 0)
      /\ UNCHANGED <<seek, asked, output_block_counter, i, at, out_len>>
  BY DEF LastBlock
<1>1. /\ at \in Nat /\ out_len \in Nat /\ asked \in Nat /\ seek \in Nat
      /\ output_block_counter \in Nat /\ BLOCK_LEN \in Nat \ {0}
      /\ at + out_len = asked /\ i = 0 /\ out_len < BLOCK_LEN /\ Aligned
  BY <1>0, WindowAssumption DEF IInv, TypeOK, Places
<1>2. Written = at
  BY <1>0, <1>1, BLOCK_LEN * 0 = 0 DEF Written
<1>3. out = Window(seek, at)
  BY <1>2 DEF IInv
<1>4. out' = Window(seek, asked)
  <2>1. CASE out_len = 0
    <3>1. Copied(0, at, output_block_counter, 0) = out
      <4>1. \A j \in Buffer : j \notin (at + 1)..(at + 0)
        BY <1>1
      <4> QED  BY <4>1 DEF Copied, IInv, TypeOK
    <3> QED  BY <3>1, <1>3, <1>0, <1>1, <2>1
  <2>2. CASE out_len > 0
    <3>1. seek + at = b + 0 /\ 0 + out_len <= BLOCK_LEN
      BY <2>2, <1>1 DEF Aligned
    <3>2. Copied(out_len, at, output_block_counter, 0) = Window(seek, at + out_len)
      BY <3>1, <1>1, <1>3, CopiedExtends
    <3> QED  BY <3>2, <1>0, <1>1
  <2> QED
    BY <2>1, <2>2, <1>1
<1>5. out' = Window(seek', Written')
  BY <1>4, <1>0 DEF Written
<1>6. out' \in [Buffer -> {Untouched} \cup (Nat \X (0..(BLOCK_LEN - 1)))]
  BY <1>4, <1>1, WindowType
<1>7. TypeOK'
  BY <1>0, <1>6 DEF IInv, TypeOK
<1>8. Places'
  BY <1>0, <1>1 DEF Places
<1> QED
  BY <1>5, <1>7, <1>8 DEF IInv
-----------------------------------------------------------------------------
(***************************************************************************)
(* The invariant: the buffer holds the window as far as it is written.     *)
(***************************************************************************)
THEOREM Invariant == Spec => []IInv
<1>1. Init => IInv
  BY InitHolds
<1>2. IInv /\ [Next]_vars => IInv'
  <2> SUFFICES ASSUME IInv, [Next]_vars PROVE IInv'
    OBVIOUS
  <2>1. ASSUME NEW s \in 0..MaxSeek, NEW n \in 1..MaxOutLen, Call(s, n) PROVE IInv'
    BY <2>1, CallKeeps
  <2>2. CASE FirstBlock
    BY <2>2, FirstBlockKeeps
  <2>3. CASE WideXof
    BY <2>3, WideXofKeeps
  <2>4. CASE XofBlock
    BY <2>4, XofBlockKeeps
  <2>5. CASE PassBlocks
    BY <2>5, PassBlocksKeeps
  <2>6. CASE LastBlock
    BY <2>6, LastBlockKeeps
  <2>7. CASE UNCHANGED vars
    BY <2>7 DEF vars, IInv, TypeOK, Places, Aligned, Window, Written, StreamByte, Buffer
  <2> QED
    BY <2>1, <2>2, <2>3, <2>4, <2>5, <2>6, <2>7 DEF Next
<1> QED
  BY <1>1, <1>2, PTL DEF Spec

\* Every variable stays within its type (the fields of output_root_bytes).
THEOREM TypeCorrect == Spec => []TypeOK
<1>1. IInv => TypeOK
  BY DEF IInv
<1> QED
  BY <1>1, Invariant, PTL

LEMMA WrittenInWindow ==
  ASSUME IInv
  PROVE  Written \in 0..asked /\ asked \in 0..MaxOutLen /\ MaxOutLen \in Nat
<1>0. /\ asked \in 0..MaxOutLen /\ MaxOutLen \in Nat /\ out_len \in Nat /\ at \in Nat
      /\ i \in Nat /\ BLOCK_LEN \in Nat \ {0} /\ pc \in {"idle", "first", "whole", "last"}
  BY WindowAssumption DEF IInv, TypeOK
<1>1. CASE pc = "idle"
  BY <1>0, <1>1 DEF Written
<1>2. CASE pc \in {"first", "last"}
  <2>1. i = 0 /\ BLOCK_LEN * 0 = 0 /\ at <= asked
    BY <1>0, <1>2 DEF IInv, Places
  <2> QED  BY <2>1, <1>0, <1>2 DEF Written
<1>3. CASE pc = "whole"
  <2> DEFINE n == out_len \div BLOCK_LEN
             bn == BLOCK_LEN * n
             bi == BLOCK_LEN * i
  <2>1. n \in Nat /\ bn \in 0..out_len
    BY <1>0, DivisionOf
  <2>2. i <= n /\ at + out_len = asked
    BY <1>3 DEF IInv, Places
  <2>3. bi \in Nat /\ bi <= bn
    <3> HIDE DEF n
    <3> QED  BY <2>1, <2>2, <1>0
  <2>4. Written = at + bi
    BY <1>3 DEF Written
  <2> HIDE DEF n, bn, bi
  <2> QED
    BY <2>1, <2>2, <2>3, <2>4, <1>0
<1> QED
  BY <1>0, <1>1, <1>2, <1>3

(***************************************************************************)
(* For every block length and window: what is in the buffer is the output, *)
(* and nothing is written behind the window.                               *)
(***************************************************************************)
THEOREM AlwaysOnlyTheWindow == Spec => []OnlyTheWindow
<1>1. ASSUME IInv PROVE OnlyTheWindow
  <2> SUFFICES ASSUME NEW j \in Buffer, out[j] # Untouched
               PROVE  j <= asked /\ out[j] = StreamByte(seek + j - 1)
    BY DEF OnlyTheWindow
  <2>1. out[j] = IF j <= Written THEN StreamByte(seek + j - 1) ELSE Untouched
    BY <1>1 DEF IInv, Window
  <2>2. j \in Int /\ Written \in 0..asked /\ asked \in Int
    BY <1>1, WrittenInWindow, WindowAssumption DEF Buffer
  <2> QED
    BY <2>1, <2>2
<1> QED
  BY <1>1, Invariant, PTL

\* For every block length and window: a call that is over wrote all of it.
THEOREM WindowAlwaysComplete == Spec => []WindowComplete
<1>1. ASSUME IInv PROVE WindowComplete
  <2> SUFFICES ASSUME pc = "idle", NEW j \in 1..asked PROVE out[j] # Untouched
    BY DEF WindowComplete
  <2>0. /\ asked \in 0..MaxOutLen /\ MaxOutLen \in Nat /\ BLOCK_LEN \in Nat \ {0}
        /\ seek \in Nat
    BY <1>1, WindowAssumption DEF IInv, TypeOK
  <2>1. j \in Buffer /\ seek + j - 1 \in Nat /\ j <= Written
    BY <2>0 DEF Buffer, Written
  <2>2. out[j] = StreamByte(seek + j - 1)
    BY <1>1, <2>1 DEF IInv, Window
  <2>3. StreamByte(seek + j - 1) # Untouched
    BY DEF StreamByte, Untouched
  <2> QED
    BY <2>2, <2>3
<1> QED
  BY <1>1, Invariant, PTL

\* A bound on the steps until output_root_bytes returns: those that write
\* blocks, and one each for the two ends.
OutputStepsLeft ==
  CASE pc = "first" -> out_len + 3
    [] pc = "whole" -> (out_len - i) + 2
    [] pc = "last" -> 1
    [] OTHER -> 0

\* A step of a call under way lowers it.
OutputGoesOn == pc # "idle" => OutputStepsLeft' < OutputStepsLeft

(***************************************************************************)
(* However long the window, each step of output_root_bytes and of the loop *)
(* of blake3_xof_many brings a natural number nearer to 0.                 *)
(***************************************************************************)
THEOREM OutputIsBounded ==
  Spec => [](OutputStepsLeft \in Nat) /\ [][OutputGoesOn]_vars
<1>1. ASSUME IInv
      PROVE  /\ BLOCK_LEN \in Nat \ {0} /\ out_len \in Nat /\ i \in Nat
             /\ pc = "first" => i = 0
             /\ pc = "whole" => out_len \div BLOCK_LEN \in 0..out_len /\ out_len - i \in Nat
  <2>1. BLOCK_LEN \in Nat \ {0} /\ out_len \in Nat /\ i \in Nat /\ (pc = "first" => i = 0)
    BY <1>1, WindowAssumption DEF IInv, TypeOK, Places
  <2>2. out_len \div BLOCK_LEN \in 0..out_len
    BY <2>1, DivisionOf
  <2>3. pc = "whole" => i <= out_len \div BLOCK_LEN
    BY <1>1 DEF IInv, Places
  <2> QED
    BY <2>1, <2>2, <2>3
<1>2. IInv => OutputStepsLeft \in Nat
  BY <1>1 DEF OutputStepsLeft
<1>3. ASSUME IInv, [Next]_vars PROVE [OutputGoesOn]_vars
  <2> SUFFICES ASSUME Next, pc # "idle" PROVE OutputStepsLeft' < OutputStepsLeft
    BY <1>3 DEF OutputGoesOn
  <2> DEFINE n == out_len \div BLOCK_LEN
  <2>1. CASE FirstBlock
    <3> DEFINE offset == seek % BLOCK_LEN
               bytes == Capped(out_len, BLOCK_LEN - offset)
    <3>1. /\ out_len \in Nat /\ BLOCK_LEN \in Nat \ {0} /\ seek \in Nat
          /\ pc = "first" /\ i = 0
      BY <1>3, <2>1, WindowAssumption DEF IInv, TypeOK, Places, FirstBlock
    <3>2. offset \in 0..(BLOCK_LEN - 1)
      BY <3>1, DivisionOf
    <3> HIDE DEF offset
    <3>3. bytes \in Nat
      BY <3>1, <3>2 DEF Capped
    <3> HIDE DEF bytes
    <3>4. pc' = "whole" /\ out_len' = out_len - bytes /\ i' = 0
      BY <2>1, <3>1, <3>2, <3>3 DEF FirstBlock, bytes, offset
    <3>5. OutputStepsLeft = out_len + 3 /\ OutputStepsLeft' = ((out_len - bytes) - 0) + 2
      BY <3>1, <3>4 DEF OutputStepsLeft
    <3> QED
      BY <3>1, <3>3, <3>5
  <2>2. CASE WideXof
    <3>1. pc = "whole" /\ pc' = "whole" /\ i = 0 /\ n > 0 /\ i' = n /\ out_len' = out_len
      BY <2>2 DEF WideXof
    <3>2. OutputStepsLeft = (out_len - 0) + 2 /\ OutputStepsLeft' = (out_len - n) + 2
      BY <3>1 DEF OutputStepsLeft
    <3>3. n \in 0..out_len /\ out_len \in Nat
      BY <1>1, <1>3, <3>1
    <3> HIDE DEF n
    <3> QED
      BY <3>1, <3>2, <3>3
  <2>3. CASE XofBlock
    <3>1. pc = "whole" /\ pc' = "whole" /\ i' = i + 1 /\ out_len' = out_len
      BY <2>3 DEF XofBlock
    <3>2. OutputStepsLeft = (out_len - i) + 2 /\ OutputStepsLeft' = (out_len - (i + 1)) + 2
      BY <3>1 DEF OutputStepsLeft
    <3> QED
      BY <1>1, <1>3, <3>2
  <2>4. CASE PassBlocks
    <3>1. pc = "whole" /\ pc' \in {"last", "idle"}
      BY <2>4 DEF PassBlocks
    <3>2. OutputStepsLeft = (out_len - i) + 2 /\ OutputStepsLeft' \in {0, 1}
      BY <3>1 DEF OutputStepsLeft
    <3>3. out_len - i \in Nat
      BY <1>1, <1>3, <3>1
    <3> QED
      BY <3>2, <3>3
  <2>5. CASE LastBlock
    BY <2>5 DEF LastBlock, OutputStepsLeft
  <2> QED
    BY <2>1, <2>2, <2>3, <2>4, <2>5 DEF Next, Call
<1> QED
  BY <1>2, <1>3, Invariant, PTL DEF Spec
-----------------------------------------------------------------------------
(***************************************************************************)
(* KeyModes.  What a compression was made for determines its key words and *)
(* its flags; the invariant says that every compression was made so, and   *)
(* the rest is that words and flags determine what it was made for.        *)
(***************************************************************************)
Bit(condition, value) == IF condition THEN value ELSE 0

\* What a part is, and what its flags add up to.
LEMMA PartIs ==
  ASSUME NEW p \in Parts
  PROVE  /\ p = [kind |-> p.kind, start |-> p.start, end |-> p.end, root |-> p.root]
         /\ p.kind \in {"chunk", "parent"}
         /\ p.start \in BOOLEAN /\ p.end \in BOOLEAN /\ p.root \in BOOLEAN
         /\ PartFlags(p) = Bit(p.start, 1) + Bit(p.end, 2) + Bit(p.kind = "parent", 4)
                             + Bit(p.root, 8)
BY DEF Parts, PartFlags, Bit, CHUNK_START, CHUNK_END, PARENT, ROOT

\* Each flag is one bit of four: their sum tells them apart.
LEMMA PartFlagsInjective ==
  ASSUME NEW p \in Parts, NEW q \in Parts
  PROVE  /\ PartFlags(p) \in 0..15
         /\ PartFlags(p) = PartFlags(q) => p = q
<1>1. PartFlags(p) \in 0..15
  BY PartIs DEF Bit
<1>2. ASSUME PartFlags(p) = PartFlags(q)
      PROVE  p = q
  <2>1. /\ (p.start <=> q.start) /\ (p.end <=> q.end) /\ (p.root <=> q.root)
        /\ (p.kind = "parent" <=> q.kind = "parent")
    BY <1>2, PartIs DEF Bit
  <2>2. p.start = q.start /\ p.end = q.end /\ p.root = q.root /\ p.kind = q.kind
    BY <2>1, PartIs
  <2> QED
    BY <2>2, PartIs
<1> QED
  BY <1>1, <1>2

\* A mode's flags are above those of a part.
ModeBits == {0, KEYED_HASH, DERIVE_KEY_CONTEXT, DERIVE_KEY_MATERIAL}

FlagsByte(b, p) == (b + PartFlags(p)) % 256

LEMMA FlagsInjective ==
  ASSUME NEW b \in ModeBits, NEW c \in ModeBits, NEW p \in Parts, NEW q \in Parts,
         FlagsByte(b, p) = FlagsByte(c, q)
  PROVE  b = c /\ p = q
<1>1. /\ b \in {0, 16, 32, 64} /\ c \in {0, 16, 32, 64}
      /\ PartFlags(p) \in 0..15 /\ PartFlags(q) \in 0..15
  BY PartFlagsInjective DEF ModeBits, KEYED_HASH, DERIVE_KEY_CONTEXT, DERIVE_KEY_MATERIAL
<1>2. b + PartFlags(p) = c + PartFlags(q)
  <2>1. \A s \in 0..255 : s % 256 = s
    OBVIOUS
  <2>2. b + PartFlags(p) \in 0..255 /\ c + PartFlags(q) \in 0..255
    BY <1>1
  <2> QED
    BY <2>1, <2>2 DEF FlagsByte
<1>3. b = c /\ PartFlags(p) = PartFlags(q)
  <2> DEFINE s == PartFlags(p)
             t == PartFlags(q)
  <2>1. s \in 0..15 /\ t \in 0..15 /\ b + s = c + t
    BY <1>1, <1>2
  <2> HIDE DEF s, t
  <2>2. b = c
    BY <1>1, <2>1
  <2>3. s = t
    BY <1>1, <2>1, <2>2
  <2> QED
    BY <2>2, <2>3 DEF s, t
<1> QED
  BY <1>3, PartFlagsInjective
-----------------------------------------------------------------------------
(***************************************************************************)
(* Key words.                                                              *)
(***************************************************************************)
KeyBytes == [1..KEY_LEN -> 0..255]

\* Four bytes make up a word in one way only.
LEMMA WordInjective ==
  ASSUME NEW k, NEW l, NEW o \in Nat,
         \A j \in (o + 1)..(o + 4) : k[j] \in 0..255 /\ l[j] \in 0..255,
         load32(k, o) = load32(l, o)
  PROVE  \A j \in (o + 1)..(o + 4) : k[j] = l[j]
<1> DEFINE a == k[o + 1]  b == k[o + 2]  c == k[o + 3]  d == k[o + 4]
           e == l[o + 1]  f == l[o + 2]  g == l[o + 3]  h == l[o + 4]
<1>1. /\ a \in 0..255 /\ b \in 0..255 /\ c \in 0..255 /\ d \in 0..255
      /\ e \in 0..255 /\ f \in 0..255 /\ g \in 0..255 /\ h \in 0..255
  OBVIOUS
<1>2. a + 256 * b + 65536 * c + 16777216 * d = e + 256 * f + 65536 * g + 16777216 * h
  BY DEF load32
<1>3. a = e /\ b = f /\ c = g /\ d = h
  <2> HIDE DEF a, b, c, d, e, f, g, h
  <2> QED
    BY <1>1, <1>2
<1> TAKE j \in (o + 1)..(o + 4)
<1>4. j = o + 1 \/ j = o + 2 \/ j = o + 3 \/ j = o + 4
  OBVIOUS
<1> QED
  BY <1>3, <1>4

\* Keys of the same words are the same.
LEMMA WordsInjective ==
  ASSUME NEW k \in KeyBytes, NEW l \in KeyBytes, load_key_words(k) = load_key_words(l)
  PROVE  k = l
<1> SUFFICES \A j \in 1..KEY_LEN : k[j] = l[j]
  <2>1. /\ k = [j \in 1..KEY_LEN |-> k[j]]
        /\ l = [j \in 1..KEY_LEN |-> l[j]]
    BY DEF KeyBytes
  <2> QED
    BY <2>1
<1> TAKE j \in 1..KEY_LEN
<1> DEFINE n == KEY_LEN \div 4
           w == (j - 1) \div 4 + 1
           first == 4 * (w - 1)
<1>1. KEY_LEN \in Nat /\ KEY_LEN = 4 * n /\ n \in Nat
  BY KeysAssumption
<1>2. w \in 1..n /\ first \in Nat /\ first + 4 <= KEY_LEN /\ j \in (first + 1)..(first + 4)
  BY <1>1
<1>3. load32(k, first) = load32(l, first)
  <2>1. load_key_words(k)[w] = load_key_words(l)[w]
    OBVIOUS
  <2> QED
    BY <1>2, <2>1 DEF load_key_words
<1> HIDE DEF n, w, first
<1>4. \A m \in (first + 1)..(first + 4) : k[m] \in 0..255 /\ l[m] \in 0..255
  <2>1. (first + 1)..(first + 4) \subseteq 1..KEY_LEN
    BY <1>1, <1>2
  <2> QED
    BY <2>1 DEF KeyBytes
<1>5. \A m \in (first + 1)..(first + 4) : k[m] = l[m]
  BY <1>2, <1>3, <1>4, WordInjective
<1> QED
  BY <1>2, <1>5
-----------------------------------------------------------------------------
(***************************************************************************)
(* The inductive invariant.                                                *)
(***************************************************************************)
\* What a compression, or a hasher, may be for.
Keyed == {<<"keyed", k>> : k \in Keys}
Derived == {<<"derive", c>> : c \in Contexts}
HasherModes == {<<"hash">>} \cup Keyed \cup Derived

WordsOf(for) ==
  IF for[1] = "keyed" THEN load_key_words(for[2])
  ELSE IF for[1] = "derive" THEN load_key_words(context_key[for[2]])
  ELSE IV

BitsOf(for) ==
  IF for[1] = "keyed" THEN KEYED_HASH
  ELSE IF for[1] = "derive" THEN DERIVE_KEY_MATERIAL
  ELSE IF for[1] = "context" THEN DERIVE_KEY_CONTEXT
  ELSE 0

MadeRight(x) ==
  \E for \in HasherModes \cup {<<"context">>}, p \in Parts :
    x = Compression(WordsOf(for), BitsOf(for), for, p)

\* A context has one key, and a key of at most one context.
OneKeyEach ==
  /\ context_key \in [Contexts -> Keys]
  /\ \A c, d \in Contexts : context_key[c] = context_key[d] => c = d

ModesInv ==
  /\ OneKeyEach
  /\ mode \in HasherModes
  /\ key = WordsOf(mode)
  /\ flags = BitsOf(mode)
  /\ MadeRight(last)
  /\ MadeRight(earlier)

\* A hasher that was not used yet has made what it pretends to have made.
LEMMA ModesInitHolds == ModesInit => ModesInv
<1> SUFFICES ASSUME ModesInit
             PROVE  ModesInv
  OBVIOUS
<1>1. OneKeyEach
  BY DEF ModesInit, OneKeyEach
<1>2. mode = <<"hash">> /\ mode \in HasherModes
  BY DEF ModesInit, HasherModes
<1>3. <<"hash">>[1] = "hash"
  OBVIOUS
<1>4. WordsOf(<<"hash">>) = IV /\ BitsOf(<<"hash">>) = 0
  BY <1>3 DEF WordsOf, BitsOf
<1>5. MadeRight(last)
  BY <1>2, <1>4 DEF ModesInit, MadeRight
<1> QED
  BY <1>1, <1>2, <1>4, <1>5 DEF ModesInit, ModesInv

\* Compressions that were made stay right when the keys of contexts do.
LEMMA RightStays ==
  ASSUME UNCHANGED context_key
  PROVE  /\ \A for : WordsOf(for)' = WordsOf(for)
         /\ \A x : MadeRight(x) => MadeRight(x)'
BY DEF WordsOf, BitsOf, MadeRight

\* What a hasher is initialised for settles its words and flags, and every
\* compression is made with the words and flags of what it is for.
LEMMA ModesNextKeeps ==
  ASSUME ModesInv, [ModesNext]_modesVars
  PROVE  ModesInv'
<1>1. UNCHANGED context_key
  BY DEF ModesNext, modesVars, hasher_init, hasher_init_keyed, hasher_init_derive_key, Compress
<1>2. OneKeyEach'
  BY <1>1 DEF ModesInv, OneKeyEach
<1>3. \A x : MadeRight(x) => MadeRight(x)'
  BY <1>1, RightStays
<1>4. ASSUME NEW for \in HasherModes \cup {<<"context">>}, NEW p \in Parts,
             Made(Compression(WordsOf(for), BitsOf(for), for, p))
      PROVE  MadeRight(last)' /\ MadeRight(earlier)'
  <2>1. MadeRight(Compression(WordsOf(for), BitsOf(for), for, p))
    BY DEF MadeRight
  <2>2. MadeRight(last') /\ MadeRight(earlier')
    BY <1>4, <2>1 DEF Made, ModesInv
  <2> QED
    BY <1>1, <2>2 DEF MadeRight, WordsOf, BitsOf
<1>5. UNCHANGED <<last, earlier>> => MadeRight(last)' /\ MadeRight(earlier)'
  BY <1>1 DEF ModesInv, MadeRight, WordsOf, BitsOf
<1>6. CASE UNCHANGED modesVars
  <2>1. UNCHANGED <<key, flags, mode, last, earlier>>
    BY <1>6 DEF modesVars
  <2>2. WordsOf(mode)' = WordsOf(mode) /\ BitsOf(mode)' = BitsOf(mode)
    BY <1>1, <2>1 DEF WordsOf, BitsOf
  <2> QED
    BY <1>2, <1>5, <2>1, <2>2 DEF ModesInv
<1>7. CASE hasher_init
  <2>1. key' = IV /\ flags' = 0 /\ mode' = <<"hash">> /\ UNCHANGED <<last, earlier>>
    BY <1>7 DEF hasher_init, hasher_init_base
  <2>2. mode' \in HasherModes /\ WordsOf(mode)' = IV /\ BitsOf(mode)' = 0
    BY <2>1 DEF HasherModes, WordsOf, BitsOf
  <2> QED
    BY <1>2, <1>5, <2>1, <2>2 DEF ModesInv
<1>8. ASSUME NEW k \in Keys, hasher_init_keyed(k)
      PROVE  ModesInv'
  <2>1. /\ key' = load_key_words(k) /\ flags' = KEYED_HASH /\ mode' = <<"keyed", k>>
        /\ UNCHANGED <<last, earlier>>
    BY <1>8 DEF hasher_init_keyed, hasher_init_base
  <2>2. mode' \in HasherModes /\ WordsOf(mode)' = load_key_words(k) /\ BitsOf(mode)' = KEYED_HASH
    BY <2>1 DEF HasherModes, Keyed, WordsOf, BitsOf
  <2> QED
    BY <1>2, <1>5, <2>1, <2>2 DEF ModesInv
<1>9. ASSUME NEW c \in Contexts, hasher_init_derive_key(c)
      PROVE  ModesInv'
  <2>1. /\ key' = load_key_words(context_key[c]) /\ flags' = DERIVE_KEY_MATERIAL
        /\ mode' = <<"derive", c>>
    BY <1>9 DEF hasher_init_derive_key, hasher_init_base
  <2>2. /\ mode' \in HasherModes
        /\ WordsOf(mode)' = load_key_words(context_key[c])
        /\ BitsOf(mode)' = DERIVE_KEY_MATERIAL
    BY <1>1, <2>1 DEF HasherModes, Derived, WordsOf, BitsOf
  <2>3. PICK p \in Parts : Made(Compression(IV, DERIVE_KEY_CONTEXT, <<"context">>, p))
    BY <1>9 DEF hasher_init_derive_key
  <2>4. WordsOf(<<"context">>) = IV /\ BitsOf(<<"context">>) = DERIVE_KEY_CONTEXT
    BY DEF WordsOf, BitsOf
  <2>5. MadeRight(last)' /\ MadeRight(earlier)'
    BY <1>4, <2>3, <2>4
  <2> QED
    BY <1>2, <2>1, <2>2, <2>5 DEF ModesInv
<1>10. ASSUME NEW p \in Parts, Compress(p)
       PROVE  ModesInv'
  <2>1. Made(Compression(key, flags, mode, p)) /\ UNCHANGED <<key, flags, mode>>
    BY <1>10 DEF Compress
  <2>2. key = WordsOf(mode) /\ flags = BitsOf(mode) /\ mode \in HasherModes
    BY DEF ModesInv
  <2>3. MadeRight(last)' /\ MadeRight(earlier)'
    BY <1>4, <2>1, <2>2
  <2>4. WordsOf(mode)' = WordsOf(mode) /\ BitsOf(mode)' = BitsOf(mode)
    BY <1>1, <2>1 DEF WordsOf, BitsOf
  <2> QED
    BY <1>2, <2>1, <2>2, <2>3, <2>4 DEF ModesInv
<1> QED
  BY <1>6, <1>7, <1>8, <1>9, <1>10 DEF ModesNext

\* The modes, and what each implies of words and flags.
LEMMA ModeOfFlags ==
  ASSUME NEW f \in HasherModes \cup {<<"context">>}
  PROVE  /\ BitsOf(f) \in ModeBits
         /\ BitsOf(f) = 0 => f = <<"hash">>
         /\ BitsOf(f) = DERIVE_KEY_CONTEXT => f = <<"context">>
         /\ BitsOf(f) = KEYED_HASH =>
              \E k \in Keys : f = <<"keyed", k>> /\ WordsOf(f) = load_key_words(k)
         /\ BitsOf(f) = DERIVE_KEY_MATERIAL =>
              \E c \in Contexts : f = <<"derive", c>> /\ WordsOf(f) = load_key_words(context_key[c])
<1> USE DEF KEYED_HASH, DERIVE_KEY_CONTEXT, DERIVE_KEY_MATERIAL
<1>1. CASE f = <<"hash">>
  <2>1. BitsOf(f) = 0
    BY <1>1 DEF BitsOf
  <2> QED
    BY <1>1, <2>1 DEF ModeBits
<1>2. CASE f = <<"context">>
  <2>1. BitsOf(f) = DERIVE_KEY_CONTEXT
    BY <1>2 DEF BitsOf
  <2> QED
    BY <1>2, <2>1 DEF ModeBits
<1>3. ASSUME NEW k \in Keys, f = <<"keyed", k>>
      PROVE  BitsOf(f) = KEYED_HASH /\ WordsOf(f) = load_key_words(k)
  BY <1>3 DEF BitsOf, WordsOf
<1>4. ASSUME NEW c \in Contexts, f = <<"derive", c>>
      PROVE  BitsOf(f) = DERIVE_KEY_MATERIAL /\ WordsOf(f) = load_key_words(context_key[c])
  BY <1>4 DEF BitsOf, WordsOf
<1>5. CASE f \in Keyed
  <2>1. PICK k \in Keys : f = <<"keyed", k>>
    BY <1>5 DEF Keyed
  <2> QED
    BY <1>3, <2>1 DEF ModeBits
<1>6. CASE f \in Derived
  <2>1. PICK c \in Contexts : f = <<"derive", c>>
    BY <1>6 DEF Derived
  <2> QED
    BY <1>4, <2>1 DEF ModeBits
<1> QED
  BY <1>1, <1>2, <1>5, <1>6 DEF HasherModes

\* Words and flags determine what a compression was made for.
LEMMA RightAreApart ==
  ASSUME OneKeyEach, NEW x, NEW y, MadeRight(x), MadeRight(y),
         x.key = y.key, x.flags = y.flags
  PROVE  x.for = y.for /\ x.part = y.part
<1> DEFINE Fors == HasherModes \cup {<<"context">>}
<1>1. PICK f \in Fors, p \in Parts : x = Compression(WordsOf(f), BitsOf(f), f, p)
  BY DEF MadeRight
<1>2. PICK g \in Fors, q \in Parts : y = Compression(WordsOf(g), BitsOf(g), g, q)
  BY DEF MadeRight
<1>3. /\ x.for = f /\ x.part = p /\ x.key = WordsOf(f)
      /\ x.flags = FlagsByte(BitsOf(f), p)
      /\ y.for = g /\ y.part = q /\ y.key = WordsOf(g)
      /\ y.flags = FlagsByte(BitsOf(g), q)
  BY <1>1, <1>2 DEF Compression, FlagsByte
<1>4. BitsOf(f) \in ModeBits /\ BitsOf(g) \in ModeBits
  BY ModeOfFlags
<1>5. BitsOf(f) = BitsOf(g) /\ p = q
  <2> DEFINE b == BitsOf(f)
             c == BitsOf(g)
  <2>1. b \in ModeBits /\ c \in ModeBits /\ FlagsByte(b, p) = FlagsByte(c, q)
    BY <1>3, <1>4
  <2> HIDE DEF b, c
  <2>2. b = c /\ p = q
    BY <2>1, FlagsInjective
  <2> QED
    BY <2>2 DEF b, c
<1>6. WordsOf(f) = WordsOf(g)
  BY <1>3
<1>7. f = g
  <2>1. CASE BitsOf(f) = 0 \/ BitsOf(f) = DERIVE_KEY_CONTEXT
    BY <1>5, <2>1, ModeOfFlags
  <2>2. CASE BitsOf(f) = KEYED_HASH
    <3>1. PICK k \in Keys : f = <<"keyed", k>> /\ WordsOf(f) = load_key_words(k)
      BY <2>2, ModeOfFlags
    <3>2. PICK l \in Keys : g = <<"keyed", l>> /\ WordsOf(g) = load_key_words(l)
      BY <1>5, <2>2, ModeOfFlags
    <3>3. k \in KeyBytes /\ l \in KeyBytes
      BY KeysAssumption DEF KeyBytes
    <3>4. k = l
      BY <1>6, <3>1, <3>2, <3>3, WordsInjective
    <3> QED
      BY <3>1, <3>2, <3>4
  <2>3. CASE BitsOf(f) = DERIVE_KEY_MATERIAL
    <3>1. PICK c \in Contexts : f = <<"derive", c>> /\ WordsOf(f) = load_key_words(context_key[c])
      BY <2>3, ModeOfFlags
    <3>2. PICK d \in Contexts : g = <<"derive", d>> /\ WordsOf(g) = load_key_words(context_key[d])
      BY <1>5, <2>3, ModeOfFlags
    <3>3. context_key[c] \in KeyBytes /\ context_key[d] \in KeyBytes
      BY KeysAssumption DEF KeyBytes, OneKeyEach
    <3>4. context_key[c] = context_key[d]
      BY <1>6, <3>1, <3>2, <3>3, WordsInjective
    <3>5. c = d
      BY <3>4 DEF OneKeyEach
    <3> QED
      BY <3>1, <3>2, <3>5
  <2> QED
    BY <1>4, <2>1, <2>2, <2>3 DEF ModeBits
<1> QED
  BY <1>3, <1>5, <1>7

\* The invariant.
LEMMA ModesInvariant == ModesSpec => []ModesInv
BY ModesInitHolds, ModesNextKeeps, PTL DEF ModesSpec

(***************************************************************************)
(* Compressions for different modes, keys, contexts or places in the tree  *)
(* differ in key words or flags, in whatever order one piece of memory is  *)
(* initialised for them (hasher_init_base and its callers).                *)
(***************************************************************************)
THEOREM ModesAlwaysApart == ModesSpec => []ModesApart
<1>1. ModesInv => ModesApart
  BY RightAreApart DEF ModesInv, ModesApart
<1> QED
  BY <1>1, ModesInvariant, PTL
=============================================================================
