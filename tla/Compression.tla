---------------------------- MODULE Compression -----------------------------
(***************************************************************************)
(* The compression function (native/blake3_c/blake3_portable.c) on words   *)
(* of 32 bits, one step per call of g.                                     *)
(*                                                                         *)
(* TLC's integers cannot hold a uint32_t, so a word is a pair of halves of *)
(* 16 bits, the higher first; a counter is a pair of words.  Arrays are    *)
(* indexed from 0 as in the code, sequences of bytes from 1.  Every other  *)
(* module takes this function to be injective.                             *)
(***************************************************************************)
EXTENDS Integers, Sequences, Bitwise

CONSTANT
  Inputs      \* records [cv, block, block_len, counter, flags, expected]

VARIABLES
  pc,         \* "idle", "mix" or "done"
  in,         \* the arguments of the running call
  state,      \* uint32_t state[16]
  round, k    \* the next call of g: the k-th of a round

vars == <<pc, in, state, round, k>>

Half == 65536
Words(f(_), n) == [i \in 0..(n - 1) |-> f(i)]

Plus(v, w) ==
  LET lo == v[2] + w[2] IN <<(v[1] + w[1] + lo \div Half) % Half, lo % Half>>
Xor32(v, w) == <<v[1] ^^ w[1], v[2] ^^ w[2]>>
Or32(v, w) == <<v[1] | w[1], v[2] | w[2]>>

\* A word rotated: by a swap of its halves for 16, and bit by bit for the rest.
rotr32(w, c) ==
  LET hi == IF c < 16 THEN w[1] ELSE w[2]
      lo == IF c < 16 THEN w[2] ELSE w[1]
      p  == 2 ^ (c % 16)
  IN  <<hi \div p + (lo % p) * (Half \div p), lo \div p + (hi % p) * (Half \div p)>>

\* A word from its bytes, the lowest first, and back.
load32(bytes, i) ==
  <<bytes[i + 3] + 256 * bytes[i + 4], bytes[i + 1] + 256 * bytes[i + 2]>>
store32(w) == <<w[2] % 256, w[2] \div 256, w[1] % 256, w[1] \div 256>>

store_cv_words(cv) == [j \in 1..32 |-> store32(cv[(j - 1) \div 4])[1 + ((j - 1) % 4)]]

counter_low(counter) == counter[2]
counter_high(counter) == counter[1]

load_key_words(key) == LET At(i) == load32(key, 4 * i) IN Words(At, 8)
load_block_words(block) == LET At(i) == load32(block, 4 * i) IN Words(At, 16)

IV ==
  LET W == <<<<27145, 58983>>, <<47975, 44677>>, <<15470, 62322>>, <<42319, 62778>>,
             <<20750, 21119>>, <<39685, 26764>>, <<8067, 55723>>, <<23520, 52505>>>>
      At(i) == W[i + 1]
  IN  Words(At, 8)

MSG_SCHEDULE ==
  <<<<0, 1, 2, 3, 4, 5, 6, 7, 8, 9, 10, 11, 12, 13, 14, 15>>,
    <<2, 6, 3, 10, 7, 0, 4, 13, 1, 11, 12, 5, 9, 14, 15, 8>>,
    <<3, 4, 10, 12, 13, 2, 7, 14, 6, 5, 9, 0, 11, 15, 8, 1>>,
    <<10, 7, 12, 9, 14, 3, 13, 15, 4, 0, 11, 2, 5, 8, 1, 6>>,
    <<12, 13, 9, 11, 15, 10, 14, 8, 7, 2, 5, 3, 0, 1, 6, 4>>,
    <<9, 14, 11, 5, 8, 12, 15, 1, 13, 3, 0, 10, 2, 6, 4, 7>>,
    <<11, 15, 5, 0, 1, 9, 8, 6, 14, 10, 2, 12, 3, 4, 7, 13>>>>

\* The words a round mixes, call by call: the columns, then the diagonals.
Lanes == <<<<0, 4, 8, 12>>, <<1, 5, 9, 13>>, <<2, 6, 10, 14>>, <<3, 7, 11, 15>>,
           <<0, 5, 10, 15>>, <<1, 6, 11, 12>>, <<2, 7, 8, 13>>, <<3, 4, 9, 14>>>>

\* Half of g: add, exclusive-or and rotate, with one word of the message.
HalfG_Or(s, l, x, r1, r2) ==
  LET a == Plus(Plus(s[l[1]], s[l[2]]), x)
      d == rotr32(Or32(s[l[4]], a), r1)
      c == Plus(s[l[3]], d)
      b == rotr32(Xor32(s[l[2]], c), r2)
  IN  [s EXCEPT ![l[1]] = a, ![l[2]] = b, ![l[3]] = c, ![l[4]] = d]
HalfG(s, l, x, r1, r2) ==
  LET a == Plus(Plus(s[l[1]], s[l[2]]), x)
      d == rotr32(Xor32(s[l[4]], a), r1)
      c == Plus(s[l[3]], d)
      b == rotr32(Xor32(s[l[2]], c), r2)
  IN  [s EXCEPT ![l[1]] = a, ![l[2]] = b, ![l[3]] = c, ![l[4]] = d]

g(s, l, x, y) == HalfG(HalfG(s, l, x, 16, 12), l, y, 8, 7)

\* The word of the message for the j-th argument of round r.
Scheduled_First(block, r, j) == load_block_words(block)[MSG_SCHEDULE[1][j]]
Scheduled(block, r, j) == load_block_words(block)[MSG_SCHEDULE[r + 1][j]]

\* The state before the rounds.
Start(x) ==
  LET At(i) == CASE i < 8  -> x.cv[i]
                 [] i \in 8..11 -> IV[i - 8]
                 [] i = 12 -> counter_low(x.counter)
                 [] i = 13 -> counter_high(x.counter)
                 [] i = 14 -> <<0, x.block_len>>
                 [] i = 15 -> <<0, x.flags>>
  IN  Words(At, 16)

\* compress_in_place: the chaining value.
InPlace_NoFold(s) == [i \in 0..7 |-> s[i]]
InPlace(s) == [i \in 0..7 |-> Xor32(s[i], s[i + 8])]

\* compress_xof: a block of output, as bytes.
Xof(s, cv) ==
  [j \in 1..64 |->
     LET i == (j - 1) \div 4
     IN  store32(IF i < 8 THEN Xor32(s[i], s[i + 8])
                          ELSE Xor32(s[i], cv[i - 8]))[1 + ((j - 1) % 4)]]
-----------------------------------------------------------------------------
Init ==
  /\ pc = "idle"
  /\ in \in Inputs
  /\ state = Start(in)
  /\ round = 0
  /\ k = 1

compress_pre(x) ==
  /\ pc \in {"idle", "done"}
  /\ in' = x
  /\ state' = Start(x)
  /\ round' = 0 /\ k' = 1
  /\ pc' = "mix"

\* A call of g in round_fn.
Mix ==
  /\ pc = "mix"
  /\ state' = g(state, Lanes[k], Scheduled(in.block, round, 2 * k - 1),
                                 Scheduled(in.block, round, 2 * k))
  /\ k' = 1 + (k % 8)
  /\ round' = IF k = 8 THEN round + 1 ELSE round
  /\ pc' = IF k = 8 /\ round = 6 THEN "done" ELSE "mix"
  /\ UNCHANGED in
-----------------------------------------------------------------------------
Next ==
  \/ \E x \in Inputs : compress_pre(x)
  \/ Mix

Spec == Init /\ [][Next]_vars
-----------------------------------------------------------------------------
(***************************************************************************)
(* The block of output starts with the bytes the tests of the repository   *)
(* expect of the message (commonTest/.../Blake3Test.kt and the tests of    *)
(* the other variants).                                                    *)
(***************************************************************************)
KnownAnswers ==
  pc = "done" => \A j \in 1..Len(in.expected) : Xof(state, in.cv)[j] = in.expected[j]

(***************************************************************************)
(* A chaining value, stored as output_chaining_value stores it, is the     *)
(* first half of the block of output, and loads as what it was: the two    *)
(* ways to leave the function, of which a message of one block shows only  *)
(* the second, agree.                                                      *)
(***************************************************************************)
HalvesAgree ==
  pc = "done" =>
    LET cv == store_cv_words(InPlace(state)) IN
      /\ cv = SubSeq(Xof(state, in.cv), 1, 32)
      /\ load_key_words(cv) = InPlace(state)

(***************************************************************************)
(* g loses nothing: the state before a call can be computed from the one   *)
(* after it, by the inverse of every operation in the opposite order.      *)
(* Inputs that differ in anything but the message never meet in the state. *)
(***************************************************************************)
Minus(v, w) ==
  LET lo == v[2] - w[2] + Half IN <<(v[1] - w[1] - 1 + lo \div Half) % Half, lo % Half>>
rotl32(w, c) == rotr32(w, 32 - c)

HalfGInverse(s, l, x, r1, r2) ==
  LET b == Xor32(rotl32(s[l[2]], r2), s[l[3]])
      c == Minus(s[l[3]], s[l[4]])
      d == Xor32(rotl32(s[l[4]], r1), s[l[1]])
      a == Minus(Minus(s[l[1]], b), x)
  IN  [s EXCEPT ![l[1]] = a, ![l[2]] = b, ![l[3]] = c, ![l[4]] = d]

MixingLosesNothing ==
  [][pc = "mix" =>
       state = HalfGInverse(
                 HalfGInverse(state', Lanes[k], Scheduled(in.block, round, 2 * k), 8, 7),
                 Lanes[k], Scheduled(in.block, round, 2 * k - 1), 16, 12)]_vars
=============================================================================
