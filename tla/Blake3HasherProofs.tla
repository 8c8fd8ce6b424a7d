------------------------- MODULE Blake3HasherProofs -------------------------
(***************************************************************************)
(* The hasher's invariants hold for every chunk length, bound on the       *)
(* message and stack depth.                                                *)
(*                                                                         *)
(* Lemmas about 1 bits and how the trees of Blake3Tree are put together    *)
(* come first, after those of SubtreeWideProofs about numbers, powers of   *)
(* two and trees; where they speak of a mode it is md, since mode is the   *)
(* hasher's.                                                               *)
(*                                                                         *)
(* The heart of the invariant is the popcount rule.  Beside being          *)
(* canonical, a stack is indexed: the chunks below entry i have i - 1 bits *)
(* set.  Adding a subtree of s chunks to a multiple of s adds at most one  *)
(* bit, and exactly one to a multiple of 2s.  So an excess of entries over *)
(* bits means that the two on top are of equal size, and no excess means   *)
(* that no two are.                                                        *)
(*                                                                         *)
(* The second half is about which nodes are compressed: TreeInv says that  *)
(* each chaining value is that of the complete subtree of its chunks and   *)
(* that what finalize rolls up is an end of the message's tree.  From it   *)
(* follow lazy merging, for every continuation of the message, and that    *)
(* the hasher implements Blake3Hash.  The end ties the hasher to           *)
(* ChunkState and bounds the steps of its calls.                           *)
(***************************************************************************)
EXTENDS Blake3Hasher, SubtreeWideProofs

-----------------------------------------------------------------------------
(***************************************************************************)
(* 1 bits.                                                                 *)
(***************************************************************************)
\* popcnt counts a finite set: its values are naturals.
LEMMA BitsOfFinite ==
  ASSUME NEW c \in Nat
  PROVE  IsFiniteSet(BitsOf(c)) /\ popcnt(c) \in Nat
<1>1. 1 \in Int /\ MaxLen \in Int
  BY Pow2Type
<1>2. IsFiniteSet(1..MaxLen)
  BY <1>1, FS_Interval
<1>3. BitsOf(c) \subseteq 1..MaxLen
  BY Pow2Type DEF BitsOf
<1>4. IsFiniteSet(BitsOf(c))
  BY <1>2, <1>3, FS_Subset
<1> QED
  BY <1>4, FS_CardinalityType DEF popcnt

\* No chunks, no 1 bits: the stack of an empty message is empty.
LEMMA PopcntZero == popcnt(0) = 0
<1>1. BitsOf(0) = {}
  <2> SUFFICES ASSUME NEW p \in Pow2 PROVE (0 \div p) % 2 = 0
    BY DEF BitsOf
  <2>1. p \in Nat \ {0}
    BY Pow2Type
  <2>2. (p * 0) \div p = 0
    BY <2>1, MultipleMod
  <2> QED
    BY <2>1, <2>2
<1> QED
  BY <1>1, FS_EmptySet DEF popcnt

\* A multiple of a power of two has none of the 1 bits below it.
LEMMA NoBitBelow ==
  ASSUME NEW p \in Pow2, NEW q \in Pow2, q < p, NEW c \in Nat, c % p = 0
  PROVE  q \notin BitsOf(c)
<1>1. p \in Nat \ {0} /\ q \in Nat \ {0}
  BY Pow2Type
<1>2. 2 * q \in Nat \ {0} /\ p % (2 * q) = 0
  BY <1>1, Pow2Double
<1>3. c % (2 * q) = 0
  BY <1>1, <1>2, ModTransitive
<1>4. PICK k \in Nat : c = (2 * q) * k
  BY <1>2, <1>3, ModMultiple
<1>5. 2 * k \in Nat /\ c = q * (2 * k)
  BY <1>1, <1>4
<1>6. c \div q = 2 * k
  BY <1>1, <1>5, MultipleMod
<1>7. (2 * k) % 2 = 0
  BY MultipleMod, 2 \in Nat \ {0}
<1> QED
  BY <1>6, <1>7 DEF BitsOf

\* Adding p to a multiple of 2p sets one bit and leaves the others.
LEMMA PopcntAdd ==
  ASSUME NEW p \in Pow2, NEW c \in Nat, c % (2 * p) = 0
  PROVE  popcnt(c + p) = popcnt(c) + 1
<1>1. p \in Nat \ {0} /\ 2 * p \in Nat \ {0} /\ c + p \in Nat
  BY Pow2Type
<1>2. PICK m \in Nat : c = (2 * p) * m
  BY <1>1, ModMultiple
<1>3. c = p * (2 * m) /\ c + p = p * (2 * m + 1) /\ 2 * m \in Nat /\ 2 * m + 1 \in Nat
  BY <1>1, <1>2
<1>4. c \div p = 2 * m /\ (c + p) \div p = 2 * m + 1 /\ c % p = 0 /\ (c + p) % p = 0
  BY <1>1, <1>3, MultipleMod
<1>5. p \notin BitsOf(c) /\ p \in BitsOf(c + p)
  <2>1. (2 * m) % 2 = 0 /\ (2 * m + 1) % 2 = 1
    BY DivisionIs, 2 \in Nat \ {0}, 0 \in 0..1, 1 \in 0..1, 2 * m + 0 = 2 * m
  <2> QED
    BY <1>4, <2>1 DEF BitsOf
<1>6. ASSUME NEW q \in Pow2, q < p
      PROVE  q \notin BitsOf(c) /\ q \notin BitsOf(c + p)
  BY <1>1, <1>4, <1>6, NoBitBelow
<1>7. ASSUME NEW q \in Pow2, p < q
      PROVE  q \in BitsOf(c) <=> q \in BitsOf(c + p)
  <2> DEFINE k == c \div q
             r == c % q
  <2>1. q \in Nat \ {0} /\ q % (2 * p) = 0
    BY <1>7, Pow2Type, Pow2Double
  <2>2. PICK u \in Nat : q = (2 * p) * u
    BY <1>1, <2>1, ModMultiple
  <2>3. k \in Nat /\ r \in 0..(q-1) /\ c = q * k + r
    BY <2>1, DivisionOf
  <2> HIDE DEF k, r
  <2>4. r = (2 * p) * (m - u * k)
    BY <1>1, <1>2, <2>2, <2>3
  <2>5. m - u * k \in Int /\ u \in Int
    BY <2>3
  <2>6. m - u * k < u
    BY <1>1, <2>1, <2>2, <2>3, <2>4, <2>5
  <2>7. (2 * p) * (m - u * k) <= (2 * p) * (u - 1)
    BY <1>1, <2>5, <2>6
  <2>8. r + 2 * p <= q
    BY <1>1, <2>2, <2>4, <2>5, <2>7
  <2>9. r + p \in 0..(q-1)
    BY <1>1, <2>1, <2>3, <2>8
  <2>10. c + p = q * k + (r + p)
    BY <1>1, <2>1, <2>3
  <2>11. (c + p) \div q = k
    BY <2>1, <2>3, <2>9, <2>10, DivisionIs
  <2> QED
    BY <2>11 DEF BitsOf, k
<1>8. BitsOf(c + p) = BitsOf(c) \cup {p}
  <2> SUFFICES ASSUME NEW q \in Pow2
               PROVE  q \in BitsOf(c + p) <=> q \in BitsOf(c) \/ q = p
    BY DEF BitsOf
  <2>1. q \in Nat /\ (q < p \/ q = p \/ p < q)
    BY <1>1, Pow2Type
  <2> QED
    BY <1>5, <1>6, <1>7, <2>1
<1>9. IsFiniteSet(BitsOf(c))
  BY BitsOfFinite
<1>10. Cardinality(BitsOf(c) \cup {p}) = Cardinality(BitsOf(c)) + 1
  BY <1>5, <1>9, FS_AddElement
<1> QED
  BY <1>8, <1>10 DEF popcnt

\* Adding p to a multiple of p adds at most one bit.
LEMMA PopcntAddAtMost ==
  \A p \in Pow2, c \in Nat : c % p = 0 => popcnt(c + p) <= popcnt(c) + 1
<1> DEFINE Bad == {p \in Pow2 : \E c \in Nat : c % p = 0 /\ popcnt(c + p) > popcnt(c) + 1}
<1>0. ASSUME NEW p \in Pow2, NEW c \in Nat
      PROVE  popcnt(c + p) \in Nat /\ popcnt(c) \in Nat
  BY Pow2Type, BitsOfFinite, c + p \in Nat
<1> SUFFICES ASSUME Bad # {} PROVE FALSE
  BY <1>0
<1>1. Bad \in SUBSET (0..MaxLen) /\ MaxLen \in Nat
  BY Pow2Type
<1>2. PICK p \in Bad : \A x \in Bad : x <= p
  <2> HIDE DEF Bad
  <2> QED
    BY <1>1, GreatestElement
<1>3. PICK c \in Nat : c % p = 0 /\ popcnt(c + p) > popcnt(c) + 1
  OBVIOUS
<1>4. p \in Pow2 /\ p \in Nat \ {0} /\ 2 * p \in Nat \ {0} /\ c + p \in Nat
  BY Pow2Type
<1>5. PICK k \in Nat : c = p * k
  BY <1>3, <1>4, ModMultiple
<1>6. PICK j \in Nat : k = 2 * j \/ k = 2 * j + 1
  <2>1. k \div 2 \in Nat /\ (k = 2 * (k \div 2) \/ k = 2 * (k \div 2) + 1)
    OBVIOUS
  <2> QED
    BY <2>1
<1>7. CASE k = 2 * j
  <2>1. c = (2 * p) * j
    BY <1>4, <1>5, <1>7
  <2>2. c % (2 * p) = 0
    BY <1>4, <2>1, MultipleMod
  <2>3. popcnt(c + p) = popcnt(c) + 1
    BY <1>4, <2>2, PopcntAdd
  <2> QED
    BY <1>0, <1>3, <1>4, <2>3
<1>8. CASE k = 2 * j + 1
  <2> DEFINE b == (2 * p) * j
  <2>1. b \in Nat /\ c = b + p /\ c + p = b + 2 * p
    BY <1>4, <1>5, <1>8
  <2>2. b % (2 * p) = 0
    BY <1>4, MultipleMod
  <2> HIDE DEF b
  <2>3. popcnt(c) = popcnt(b) + 1
    BY <1>4, <2>1, <2>2, PopcntAdd
  <2>4. CASE 2 * p \in Pow2
    <3>1. 2 * p \notin Bad
      BY <1>2, <1>4
    <3>2. ~(popcnt(b + 2 * p) > popcnt(b) + 1)
      BY <2>1, <2>2, <2>4, <3>1
    <3> QED
      BY <1>0, <1>3, <1>4, <2>1, <2>3, <2>4, <3>2
  <2>5. CASE 2 * p \notin Pow2
    <3>1. BitsOf(c + p) = {}
      <4> SUFFICES ASSUME NEW q \in Pow2
                   PROVE  ((c + p) \div q) % 2 = 0
        BY DEF BitsOf
      <4>1. q \in Nat \ {0}
        BY Pow2Type
      <4>2. q <= p
        BY <1>4, <2>5, <4>1, Pow2Double
      <4>3. PICK u \in Nat : p = q * u
        BY <1>4, <4>1, <4>2, Pow2Chain, ModMultiple
      <4>4. u * (j + 1) \in Nat
        BY <1>4, <1>6
      <4>5. c + p = q * (2 * (u * (j + 1)))
        BY <1>4, <1>5, <1>8, <4>1, <4>3
      <4>6. (c + p) \div q = 2 * (u * (j + 1))
        BY <4>1, <4>4, <4>5, MultipleMod, 2 * (u * (j + 1)) \in Nat
      <4> QED
        BY <4>4, <4>6, MultipleMod, 2 \in Nat \ {0}
    <3>2. popcnt(c + p) = 0
      BY <3>1, FS_EmptySet DEF popcnt
    <3> QED
      BY <1>0, <1>3, <1>4, <3>2
  <2> QED
    BY <2>4, <2>5
<1> QED
  BY <1>6, <1>7, <1>8
-----------------------------------------------------------------------------
(***************************************************************************)
(* Putting trees together.                                                 *)
(***************************************************************************)
\* Two complete halves and their parent.
LEMMA CompleteJoin ==
  ASSUME NEW md, NEW s \in Pow2, 2 * s \in Pow2, NEW lo \in Nat, lo % (2 * s) = 0
  PROVE  SubtreeNodes(md, lo, 2 * s) =
           SubtreeNodes(md, lo, s) \cup SubtreeNodes(md, lo + s, s)
             \cup {ParentNode(md, lo, lo + s, lo + 2 * s)}
<1>1. s \in Nat \ {0} /\ 2 * s \in Nat \ {0} /\ lo + s \in Nat
  BY Pow2Type
<1>2. lo % s = 0 /\ (lo + s) % s = 0
  <2>1. (2 * s) % s = 0 /\ s % s = 0
    BY <1>1, MultipleMod, 2 * s = s * 2, s = s * 1
  <2>2. lo % s = 0
    BY <1>1, <2>1, ModTransitive
  <2> QED
    BY <1>1, <2>1, <2>2, ModSum
<1> SUFFICES ASSUME NEW node
             PROVE  node \in SubtreeNodes(md, lo, 2 * s) <=>
                      \/ node \in SubtreeNodes(md, lo, s)
                      \/ node \in SubtreeNodes(md, lo + s, s)
                      \/ node = ParentNode(md, lo, lo + s, lo + 2 * s)
  OBVIOUS
<1> DEFINE ChunkIn(a, n) ==
             \E c \in a..(a + n - 1) : node = ChunkNode(md, c, c * CHUNK_LEN, CHUNK_LEN)
           ParentIn(a, n) ==
             \E c \in a..(a + n - 1), p \in Pow2 :
               /\ c % (2 * p) = 0 /\ c + 2 * p <= a + n
               /\ node = ParentNode(md, c, c + p, c + 2 * p)
<1>3. /\ node \in SubtreeNodes(md, lo, 2 * s) <=> ChunkIn(lo, 2 * s) \/ ParentIn(lo, 2 * s)
      /\ node \in SubtreeNodes(md, lo, s) <=> ChunkIn(lo, s) \/ ParentIn(lo, s)
      /\ node \in SubtreeNodes(md, lo + s, s) <=> ChunkIn(lo + s, s) \/ ParentIn(lo + s, s)
  <2>1. /\ node \in SubtreeNodes(md, lo, 2 * s) <=> OfSubtree(node, md, lo, 2 * s)
        /\ node \in SubtreeNodes(md, lo, s) <=> OfSubtree(node, md, lo, s)
        /\ node \in SubtreeNodes(md, lo + s, s) <=> OfSubtree(node, md, lo + s, s)
    BY <1>1, <1>2, InSubtree
  <2> QED
    BY <2>1 DEF OfSubtree
<1>4. lo..(lo + 2 * s - 1) = (lo..(lo + s - 1)) \cup ((lo + s)..((lo + s) + s - 1))
  BY <1>1
<1>5. ChunkIn(lo, 2 * s) <=> ChunkIn(lo, s) \/ ChunkIn(lo + s, s)
  BY <1>4
<1>6. ASSUME ParentIn(lo, 2 * s)
      PROVE  \/ ParentIn(lo, s) \/ ParentIn(lo + s, s)
             \/ node = ParentNode(md, lo, lo + s, lo + 2 * s)
  <2>1. PICK c \in lo..(lo + 2 * s - 1), p \in Pow2 :
          /\ c % (2 * p) = 0 /\ c + 2 * p <= lo + 2 * s
          /\ node = ParentNode(md, c, c + p, c + 2 * p)
    BY <1>6
  <2>2. p \in Nat \ {0}
    BY Pow2Type
  <2>3. CASE c \in (lo + s)..((lo + s) + s - 1)
    <3>1. c + 2 * p <= (lo + s) + s
      BY <1>1, <2>1, <2>2
    <3> QED
      BY <2>1, <2>3, <3>1
  <2>4. CASE c \in lo..(lo + s - 1)
    <3>1. c + 2 * p <= lo + s \/ (c = lo /\ s <= p)
      BY <1>2, <2>1, <2>4, NodeAt
    <3>2. c = lo /\ s <= p => p = s
      BY <1>1, <2>1, <2>2
    <3> QED
      BY <2>1, <2>4, <3>1, <3>2
  <2> QED
    BY <1>4, <2>1, <2>3, <2>4
<1>7. ASSUME ParentIn(lo, s)
      PROVE  ParentIn(lo, 2 * s)
  <2>1. PICK c \in lo..(lo + s - 1), p \in Pow2 :
          /\ c % (2 * p) = 0 /\ c + 2 * p <= lo + s
          /\ node = ParentNode(md, c, c + p, c + 2 * p)
    BY <1>7
  <2>2. c \in lo..(lo + 2 * s - 1) /\ c + 2 * p <= lo + 2 * s
    BY <1>1, <2>1, Pow2Type
  <2> QED
    BY <2>1, <2>2
<1>8. ASSUME ParentIn(lo + s, s)
      PROVE  ParentIn(lo, 2 * s)
  <2>1. PICK c \in (lo + s)..((lo + s) + s - 1), p \in Pow2 :
          /\ c % (2 * p) = 0 /\ c + 2 * p <= (lo + s) + s
          /\ node = ParentNode(md, c, c + p, c + 2 * p)
    BY <1>8
  <2>2. c \in lo..(lo + 2 * s - 1) /\ c + 2 * p <= lo + 2 * s
    BY <1>1, <2>1, Pow2Type
  <2> QED
    BY <2>1, <2>2
<1>9. node = ParentNode(md, lo, lo + s, lo + 2 * s) => ParentIn(lo, 2 * s)
  <2>1. lo \in lo..(lo + 2 * s - 1) /\ lo + 2 * s <= lo + 2 * s
    BY <1>1
  <2> QED
    BY <2>1
<1> HIDE DEF ChunkIn, ParentIn
<1> QED
  BY <1>3, <1>5, <1>6, <1>7, <1>8, <1>9

\* A complete subtree, what follows it, and their parent.
LEMMA SuffixJoin ==
  ASSUME NEW md, NEW len \in Nat, NEW s \in Pow2, NEW lo \in Nat, lo % (2 * s) = 0,
         lo + s < ChunkCount(len), ChunkCount(len) <= lo + 2 * s
  PROVE  Suffix(md, lo, len) =
           SubtreeNodes(md, lo, s) \cup Suffix(md, lo + s, len)
             \cup {ParentNode(md, lo, lo + s, ChunkCount(len))}
<1> DEFINE N == ChunkCount(len)
<1>1. s \in Nat \ {0} /\ 2 * s \in Nat \ {0} /\ lo + s \in Nat /\ N \in Nat \ {0}
  BY Pow2Type, ChunkCountFacts
<1>2. lo % s = 0
  <2>1. (2 * s) % s = 0
    BY <1>1, MultipleMod, 2 * s = s * 2
  <2> QED
    BY <1>1, <2>1, ModTransitive
<1> SUFFICES ASSUME NEW node
             PROVE  node \in Suffix(md, lo, len) <=>
                      \/ node \in SubtreeNodes(md, lo, s)
                      \/ node \in Suffix(md, lo + s, len)
                      \/ node = ParentNode(md, lo, lo + s, N)
  OBVIOUS
<1> DEFINE Chunk(c) == node = ChunkNode(md, c, c * CHUNK_LEN, Bytes(c, len))
           Whole(c) == node = ChunkNode(md, c, c * CHUNK_LEN, CHUNK_LEN)
           Inner(c, p) == c % (2 * p) = 0 /\ c + 2 * p <= lo + s
                            /\ node = ParentNode(md, c, c + p, c + 2 * p)
           Parent(c, p) == c % (2 * p) = 0 /\ c + p < N
                            /\ node = ParentNode(md, c, c + p, Min({c + 2 * p, N}))
<1>3. /\ node \in Suffix(md, lo, len) <=>
           (\E c \in lo..(N-1) : Chunk(c)) \/ (\E c \in lo..(N-1), p \in Pow2 : Parent(c, p))
      /\ node \in Suffix(md, lo + s, len) <=>
           (\E c \in (lo + s)..(N-1) : Chunk(c)) \/ (\E c \in (lo + s)..(N-1), p \in Pow2 : Parent(c, p))
      /\ node \in SubtreeNodes(md, lo, s) <=>
           \/ \E c \in lo..(lo + s - 1) : Whole(c)
           \/ \E c \in lo..(lo + s - 1), p \in Pow2 : Inner(c, p)
  <2>1. node \in SubtreeNodes(md, lo, s) <=>
           \/ \E c \in lo..(lo + s - 1) : Whole(c)
           \/ \E c \in lo..(lo + s - 1), p \in Pow2 : Inner(c, p)
    <3>1. node \in SubtreeNodes(md, lo, s) <=> OfSubtree(node, md, lo, s)
      BY <1>2, InSubtree
    <3> QED
      BY <3>1 DEF OfSubtree
  <2>2. /\ node \in Suffix(md, lo, len) <=> OfSuffix(node, md, lo, len)
        /\ node \in Suffix(md, lo + s, len) <=> OfSuffix(node, md, lo + s, len)
    BY <1>1, InSuffix
  <2> QED
    BY <2>1, <2>2 DEF OfSuffix
<1>4. lo..(N-1) = (lo..(lo + s - 1)) \cup ((lo + s)..(N-1))
  BY <1>1
<1>5. ASSUME NEW c \in lo..(lo + s - 1)
      PROVE  Chunk(c) <=> Whole(c)
  <2>1. c < N - 1
    BY <1>1
  <2> QED
    BY <2>1 DEF Bytes
<1>6. ASSUME NEW c \in lo..(lo + s - 1), NEW p \in Pow2, Parent(c, p)
      PROVE  Inner(c, p) \/ node = ParentNode(md, lo, lo + s, N)
  <2>1. p \in Nat \ {0} /\ c \in Nat
    BY <1>1, Pow2Type
  <2>2. c + 2 * p <= lo + s \/ (c = lo /\ s <= p)
    BY <1>2, <1>6, NodeAt
  <2>3. Min({c + 2 * p, N}) = IF c + 2 * p <= N THEN c + 2 * p ELSE N
    BY <1>1, <2>1, MinOfTwo
  <2>4. CASE c + 2 * p <= lo + s
    <3>1. Min({c + 2 * p, N}) = c + 2 * p
      BY <1>1, <2>1, <2>3, <2>4
    <3> QED
      BY <1>6, <2>4, <3>1
  <2>5. CASE c = lo /\ s <= p
    <3>1. p = s
      <4> SUFFICES ASSUME s < p PROVE FALSE
        BY <1>1, <2>1, <2>5
      <4>1. 2 * s <= p
        BY Pow2Double
      <4> QED
        BY <1>1, <1>6, <2>1, <2>5, <4>1
    <3>2. Min({c + 2 * p, N}) = N
      BY <1>1, <2>1, <2>3, <2>5, <3>1
    <3> QED
      BY <1>6, <2>5, <3>1, <3>2
  <2> QED
    BY <2>2, <2>4, <2>5
<1>7. ASSUME NEW c \in lo..(lo + s - 1), NEW p \in Pow2, Inner(c, p)
      PROVE  Parent(c, p)
  <2>1. p \in Nat \ {0} /\ c \in Nat
    BY <1>1, Pow2Type
  <2>2. Min({c + 2 * p, N}) = c + 2 * p /\ c + p < N
    BY <1>1, <1>7, <2>1, MinOfTwo
  <2> QED
    BY <1>7, <2>2
<1>8. node = ParentNode(md, lo, lo + s, N) => lo \in lo..(N-1) /\ Parent(lo, s)
  <2>1. Min({lo + 2 * s, N}) = N
    BY <1>1, MinOfTwo
  <2> QED
    BY <1>1, <2>1
<1> HIDE DEF Chunk, Whole, Inner, Parent
<1>9. (\E c \in lo..(N-1) : Chunk(c)) <=>
        (\E c \in lo..(lo + s - 1) : Whole(c)) \/ (\E c \in (lo + s)..(N-1) : Chunk(c))
  BY <1>4, <1>5
<1>10. (\E c \in lo..(N-1), p \in Pow2 : Parent(c, p)) <=>
         \/ \E c \in lo..(lo + s - 1), p \in Pow2 : Inner(c, p)
         \/ \E c \in (lo + s)..(N-1), p \in Pow2 : Parent(c, p)
         \/ node = ParentNode(md, lo, lo + s, N)
  BY <1>4, <1>6, <1>7, <1>8
<1> QED
  BY <1>3, <1>9, <1>10

\* The end of a message of whole chunks that is a complete subtree.
LEMMA SuffixWhole ==
  ASSUME NEW md, NEW n \in Pow2, NEW lo \in Nat, lo % n = 0
  PROVE  Suffix(md, lo, (lo + n) * CHUNK_LEN) = SubtreeNodes(md, lo, n)
<1> DEFINE len == (lo + n) * CHUNK_LEN
           N == ChunkCount(len)
<1>1. n \in Nat \ {0} /\ CHUNK_LEN \in Nat \ {0} /\ len \in Nat
  BY Pow2Type
<1>2. N = lo + n
  BY <1>1, CountOfWhole
<1> SUFFICES ASSUME NEW node
             PROVE  node \in Suffix(md, lo, len) <=> node \in SubtreeNodes(md, lo, n)
  OBVIOUS
<1>3. ASSUME NEW c \in lo..(lo + n - 1)
      PROVE  Bytes(c, len) = CHUNK_LEN
  <2>1. CASE c < N - 1
    BY <2>1 DEF Bytes
  <2>2. CASE ~(c < N - 1)
    <3>1. c = lo + n - 1
      BY <1>1, <1>2, <2>2
    <3>2. len - c * CHUNK_LEN = CHUNK_LEN
      BY <1>1, <3>1
    <3> QED
      BY <2>2, <3>2 DEF Bytes
  <2> QED
    BY <2>1, <2>2
<1>4. ASSUME NEW c \in lo..(lo + n - 1), NEW p \in Pow2, c % (2 * p) = 0
      PROVE  /\ c + p < lo + n <=> c + 2 * p <= lo + n
             /\ c + 2 * p <= lo + n => Min({c + 2 * p, lo + n}) = c + 2 * p
  <2>1. p \in Nat \ {0} /\ c \in Nat
    BY <1>1, Pow2Type
  <2>2. c + 2 * p <= lo + n \/ (c = lo /\ n <= p)
    BY <1>4, NodeAt
  <2>3. Min({c + 2 * p, lo + n}) = IF c + 2 * p <= lo + n THEN c + 2 * p ELSE lo + n
    BY <1>1, <2>1, MinOfTwo
  <2> QED
    BY <1>1, <2>1, <2>2, <2>3
<1> HIDE DEF N, len
<1>5. node \in Suffix(md, lo, len) <=>
        \/ \E c \in lo..(lo + n - 1) : node = ChunkNode(md, c, c * CHUNK_LEN, Bytes(c, len))
        \/ \E c \in lo..(lo + n - 1), p \in Pow2 :
             /\ c % (2 * p) = 0 /\ c + p < lo + n
             /\ node = ParentNode(md, c, c + p, Min({c + 2 * p, lo + n}))
  <2>1. node \in Suffix(md, lo, len) <=> OfSuffix(node, md, lo, len)
    BY <1>1, InSuffix
  <2>2. OfSuffix(node, md, lo, len) <=>
          \/ \E c \in lo..(N - 1) : node = ChunkNode(md, c, c * CHUNK_LEN, Bytes(c, len))
          \/ \E c \in lo..(N - 1), p \in Pow2 :
               /\ c % (2 * p) = 0 /\ c + p < N
               /\ node = ParentNode(md, c, c + p, Min({c + 2 * p, N}))
    BY DEF OfSuffix, N
  <2>3. N - 1 = lo + n - 1
    BY <1>1, <1>2
  <2> QED
    BY <1>2, <2>1, <2>2, <2>3
<1>6. node \in SubtreeNodes(md, lo, n) <=>
        \/ \E c \in lo..(lo + n - 1) : node = ChunkNode(md, c, c * CHUNK_LEN, CHUNK_LEN)
        \/ \E c \in lo..(lo + n - 1), p \in Pow2 :
             /\ c % (2 * p) = 0 /\ c + 2 * p <= lo + n
             /\ node = ParentNode(md, c, c + p, c + 2 * p)
  <2>1. node \in SubtreeNodes(md, lo, n) <=> OfSubtree(node, md, lo, n)
    BY InSubtree
  <2> QED
    BY <2>1 DEF OfSubtree
<1> QED
  BY <1>3, <1>4, <1>5, <1>6

\* The last chunk has no parent of its own.
LEMMA SuffixLast ==
  ASSUME NEW md, NEW len \in Nat, NEW lo \in Nat, ChunkCount(len) = lo + 1
  PROVE  Suffix(md, lo, len) = {ChunkNode(md, lo, lo * CHUNK_LEN, len - lo * CHUNK_LEN)}
<1> SUFFICES ASSUME NEW node
             PROVE  node \in Suffix(md, lo, len) <=>
                      node = ChunkNode(md, lo, lo * CHUNK_LEN, len - lo * CHUNK_LEN)
  OBVIOUS
<1>1. lo..((lo + 1) - 1) = {lo}
  OBVIOUS
<1>2. \A p \in Pow2 : ~(lo + p < lo + 1)
  BY Pow2Type
<1>3. Bytes(lo, len) = len - lo * CHUNK_LEN
  BY DEF Bytes
<1> QED
  <2> DEFINE N == ChunkCount(len)
  <2>1. N = lo + 1
    OBVIOUS
  <2> HIDE DEF N
  <2>2. \A c \in lo..(N - 1), p \in Pow2 : ~(c + p < N)
    BY <1>1, <1>2, <2>1
  <2>3. OfSuffix(node, md, lo, len) <=>
          \E c \in lo..(N - 1) : node = ChunkNode(md, c, c * CHUNK_LEN, Bytes(c, len))
    BY <2>2 DEF OfSuffix, N
  <2>4. lo..(N - 1) = {lo}
    BY <2>1
  <2> QED
    BY <1>3, <2>3, <2>4, InSuffix

\* The node on top of what a complete subtree and a smaller rest make up.
LEMMA TopOfJoin ==
  ASSUME NEW md, NEW len \in Nat, NEW s \in Pow2, NEW lo \in Nat,
         lo + s < ChunkCount(len), ChunkCount(len) <= lo + 2 * s
  PROVE  SuffixTop(md, lo, len) = ParentNode(md, lo, lo + s, ChunkCount(len))
<1> DEFINE N == ChunkCount(len)
           Less == {p \in Pow2 : p < N - lo}
<1>1. s \in Nat \ {0} /\ N \in Nat /\ MaxLen \in Nat /\ Pow2 \subseteq 0..MaxLen
  BY Pow2Type, ChunkCountFacts
<1>2. s \in Less
  BY <1>1
<1>3. Max(Less) \in Less /\ \A p \in Less : p <= Max(Less)
  BY <1>1, <1>2, MaxIsGreatest
<1>4. ASSUME NEW p \in Less
      PROVE  p <= s
  <2> SUFFICES ASSUME ~(p <= s) PROVE FALSE
    OBVIOUS
  <2>1. p \in Nat /\ s < p
    BY <1>1
  <2>2. 2 * s <= p
    BY <2>1, Pow2Double
  <2> QED
    BY <1>1, <2>1, <2>2
<1>5. Max(Less) = s
  <2> DEFINE M == Max(Less)
  <2>1. M \in Less /\ M <= s /\ s <= M
    BY <1>2, <1>3, <1>4
  <2>2. M \in Pow2
    BY <2>1
  <2> HIDE DEF M, Less, N
  <2>3. M = s
    BY <2>1, <2>2, Pow2Type
  <2> QED
    BY <2>3 DEF M
<1>6. N # lo + 1
  BY <1>1
<1> QED
  BY <1>5, <1>6 DEF SuffixTop

\* A complete subtree within a message, and not all of it, is a part of its
\* tree without the root.
LEMMA SubtreeBelowRoot ==
  ASSUME NEW md, NEW len \in Nat, NEW n \in Pow2, NEW lo \in Nat, lo % n = 0,
         (lo + n) * CHUNK_LEN <= len, lo = 0 => (lo + n) * CHUNK_LEN < len
  PROVE  SubtreeNodes(md, lo, n) \subseteq RefNodes(md, len) \ {RefRoot(md, len)}
<1> DEFINE N == ChunkCount(len)
<1>1. n \in Nat \ {0} /\ CHUNK_LEN \in Nat \ {0} /\ N \in Nat \ {0} /\ lo + n \in Nat
  BY Pow2Type, ChunkCountFacts
<1>2. lo + n <= N /\ (lo = 0 => lo + n < N)
  BY <1>1, CountAgainst
<1> SUFFICES ASSUME NEW node \in SubtreeNodes(md, lo, n)
             PROVE  node \in Suffix(md, 0, len) /\ node # SuffixTop(md, 0, len)
  BY SuffixFromStart
<1>3. N - 0 = N /\ 0 + 1 = 1 /\ N # 1
  BY <1>1, <1>2
<1> DEFINE P == Max({p \in Pow2 : p < N - 0})
<1>4. SuffixTop(md, 0, len) = ParentNode(md, 0, 0 + P, N)
  BY <1>3 DEF SuffixTop
<1> HIDE DEF P
<1>5. CASE \E c \in lo..(lo + n - 1) : node = ChunkNode(md, c, c * CHUNK_LEN, CHUNK_LEN)
  <2>1. PICK c \in lo..(lo + n - 1) : node = ChunkNode(md, c, c * CHUNK_LEN, CHUNK_LEN)
    BY <1>5
  <2>2. c \in 0..(N-1)
    BY <1>1, <1>2
  <2>3. Bytes(c, len) = CHUNK_LEN
    <3>1. CASE c < N - 1
      BY <3>1 DEF Bytes
    <3>2. CASE ~(c < N - 1)
      <4>1. c = N - 1 /\ lo + n = N
        BY <1>1, <1>2, <3>2
      <4>2. len = N * CHUNK_LEN
        <5>1. len <= N * CHUNK_LEN /\ N * CHUNK_LEN <= len /\ N * CHUNK_LEN \in Nat
          BY <1>1, <4>1, ChunkCountFacts
        <5> QED
          BY <5>1
      <4>3. N * CHUNK_LEN - (N - 1) * CHUNK_LEN = CHUNK_LEN
        BY <1>1
      <4> QED
        BY <3>2, <4>1, <4>2, <4>3 DEF Bytes
    <3> QED
      BY <3>1, <3>2
  <2>4. node \in Suffix(md, 0, len)
    <3>1. OfSuffix(node, md, 0, len)
      BY <2>1, <2>2, <2>3 DEF OfSuffix
    <3> QED
      BY <3>1, InSuffix
  <2> QED
    BY <1>4, <2>1, <2>4 DEF ChunkNode, ParentNode
<1>6. CASE \E c \in lo..(lo + n - 1), p \in Pow2 :
             /\ c % (2 * p) = 0 /\ c + 2 * p <= lo + n
             /\ node = ParentNode(md, c, c + p, c + 2 * p)
  <2>1. PICK c \in lo..(lo + n - 1), p \in Pow2 :
          /\ c % (2 * p) = 0 /\ c + 2 * p <= lo + n
          /\ node = ParentNode(md, c, c + p, c + 2 * p)
    BY <1>6
  <2>2. p \in Nat \ {0} /\ c \in Nat /\ lo <= c
    BY <1>1, Pow2Type
  <2>3. Min({c + 2 * p, N}) = c + 2 * p /\ c + p < N /\ c \in 0..(N-1)
    BY <1>1, <1>2, <2>1, <2>2, MinOfTwo
  <2>4. node \in Suffix(md, 0, len)
    <3>1. OfSuffix(node, md, 0, len)
      BY <2>1, <2>3 DEF OfSuffix
    <3> QED
      BY <3>1, InSuffix
  <2>5. c # 0 \/ c + 2 * p # N
    BY <1>1, <1>2, <2>1, <2>2
  <2> QED
    BY <1>4, <2>1, <2>4, <2>5 DEF ParentNode
<1>7. OfSubtree(node, md, lo, n)
  BY InSubtree
<1> QED
  BY <1>5, <1>6, <1>7 DEF OfSubtree

-----------------------------------------------------------------------------
(***************************************************************************)
(* Stacks.                                                                 *)
(***************************************************************************)
Indexed(stack) == \A i \in 1..Len(stack) : popcnt(stack[i].lo) = i - 1

\* The chunks a stack covers.
Covered(stack) == IF Len(stack) = 0 THEN 0 ELSE stack[Len(stack)].hi

\* The range of chunks of a chaining value, in the form the lemmas use it.
LEMMA CVType ==
  ASSUME NEW stack \in Seq(CVs), NEW i \in 1..Len(stack)
  PROVE  /\ stack[i] \in CVs
         /\ stack[i].lo \in 0..MaxLen /\ stack[i].hi \in 0..MaxLen
         /\ stack[i].lo \in Nat /\ stack[i].hi \in Nat
         /\ Size(stack[i]) \in Int /\ stack[i].hi = stack[i].lo + Size(stack[i])
<1>1. MaxLen \in Nat
  BY Pow2Type
<1>2. stack[i] \in CVs
  OBVIOUS
<1>3. stack[i].lo \in 0..MaxLen /\ stack[i].hi \in 0..MaxLen
  BY <1>2 DEF CVs
<1> QED
  BY <1>1, <1>2, <1>3 DEF Size

\* An entry smaller than the one below it (or with none below it) starts at
\* a multiple of twice its size.
LEMMA TwiceAligned ==
  ASSUME NEW stack \in Seq(CVs), Canonical(stack), NEW i \in 1..Len(stack),
         i = 1 \/ Size(stack[i]) < Size(stack[i - 1])
  PROVE  stack[i].lo % (2 * Size(stack[i])) = 0
<1> DEFINE s == Size(stack[i])
           t == Size(stack[i - 1])
<1>1. s \in Pow2 /\ s \in Nat \ {0} /\ 2 * s \in Nat \ {0}
  BY Pow2Type DEF Canonical
<1>2. CASE i = 1
  <2>1. stack[i].lo = 0
    BY <1>2 DEF Canonical
  <2>2. (2 * s) * 0 = 0
    BY <1>1
  <2> QED
    BY <1>1, <2>1, <2>2, MultipleMod
<1>3. CASE i # 1
  <2>1. i - 1 \in 1..Len(stack)
    BY <1>3
  <2>2. t \in Pow2 /\ stack[i - 1].lo % t = 0 /\ t \in Nat \ {0}
    BY <2>1, Pow2Type DEF Canonical
  <2>3. stack[i].lo = stack[i - 1].hi
    BY <1>3 DEF Canonical
  <2>4. stack[i - 1].hi = stack[i - 1].lo + t /\ stack[i - 1].lo \in Nat /\ stack[i].lo \in Nat
    BY <2>1, CVType
  <2>5. s < t
    BY <1>3
  <2> HIDE DEF s, t
  <2>6. t % t = 0
    BY <2>2
  <2>7. stack[i].lo % t = 0
    BY <2>2, <2>3, <2>4, <2>6, ModSum
  <2>8. t % (2 * s) = 0
    BY <1>1, <2>2, <2>5, Pow2Double
  <2>9. stack[i].lo % (2 * s) = 0
    BY <1>1, <2>2, <2>4, <2>7, <2>8, ModTransitive
  <2> QED
    BY <2>9 DEF s
<1> QED
  BY <1>2, <1>3

\* More entries than bits: the two entries on top are of equal size.
LEMMA ExcessMeansEqual ==
  ASSUME NEW stack \in Seq(CVs), Canonical(stack), Indexed(stack),
         Len(stack) > popcnt(Covered(stack))
  PROVE  /\ Len(stack) >= 2
         /\ Size(stack[Len(stack)]) = Size(stack[Len(stack) - 1])
<1> DEFINE n == Len(stack)
           s == Size(stack[n])
<1>0. n \in Nat
  OBVIOUS
<1>1. n \in 1..Len(stack)
  <2>1. n # 0
    BY PopcntZero DEF Covered
  <2> QED
    BY <2>1
<1>2. s \in Pow2 /\ popcnt(stack[n].lo) = n - 1
  BY <1>1 DEF Canonical, Indexed
<1>3. Covered(stack) = stack[n].lo + s /\ stack[n].lo \in Nat
  BY <1>1, CVType DEF Covered
<1>4. stack[n].lo % (2 * s) # 0
  <2> SUFFICES ASSUME stack[n].lo % (2 * s) = 0 PROVE FALSE
    OBVIOUS
  <2> HIDE DEF s
  <2>1. popcnt(stack[n].lo + s) = popcnt(stack[n].lo) + 1
    BY <1>2, <1>3, PopcntAdd
  <2> QED
    BY <1>0, <1>2, <1>3, <2>1
<1>5. n # 1 /\ ~(Size(stack[n]) < Size(stack[n - 1]))
  BY <1>1, <1>4, TwiceAligned
<1>6. n > 1
  <2>1. n # 1 /\ n # 0
    BY <1>1, <1>5
  <2> HIDE DEF n
  <2> QED
    BY <1>0, <2>1
<1> QED
  BY <1>1, <1>5, <1>6 DEF Canonical

\* What the stack without its two entries on top leaves room for, when those
\* are of equal size: one of twice the size.
LEMMA TopPair ==
  ASSUME NEW stack \in Seq(CVs), Canonical(stack), Len(stack) >= 2,
         Size(stack[Len(stack)]) = Size(stack[Len(stack) - 1])
  PROVE  LET n == Len(stack)
             d == 2 * Size(stack[n])
         IN  /\ d \in Pow2
             /\ stack[n - 1].lo % d = 0
             /\ stack[n].hi = stack[n - 1].lo + d
             /\ n > 2 => d <= Size(stack[n - 2])
<1> DEFINE n == Len(stack)
           s == Size(stack[n])
<1>1. n \in Nat /\ n \in 1..n /\ n - 1 \in 1..n /\ n # 1
  OBVIOUS
<1>2. s \in Pow2 /\ s \in Nat \ {0} /\ s = Size(stack[n - 1])
  BY <1>1, Pow2Type DEF Canonical
<1>3. /\ stack[n].hi = stack[n].lo + s
      /\ stack[n].lo = stack[n - 1].hi
      /\ stack[n - 1].hi = stack[n - 1].lo + s
      /\ stack[n].hi \in 0..MaxLen
      /\ stack[n - 1].lo \in Nat
  BY <1>1, <1>2, CVType DEF Canonical
<1>4. n - 1 = 1 \/ Size(stack[n - 1]) < Size(stack[(n - 1) - 1])
  <2>1. n - 1 # n /\ (n - 1 = 1 \/ n - 1 > 1)
    <3> HIDE DEF n
    <3> QED
      BY <1>1
  <2> QED
    BY <1>1, <2>1 DEF Canonical
<1>5. stack[n - 1].lo % (2 * s) = 0
  BY <1>1, <1>2, <1>4, TwiceAligned
<1>6. n > 2 => s < Size(stack[n - 2]) /\ Size(stack[n - 2]) \in Pow2
  <2> SUFFICES ASSUME n > 2
               PROVE  s < Size(stack[n - 2]) /\ Size(stack[n - 2]) \in Pow2
    OBVIOUS
  <2>1. n - 2 \in 1..n /\ (n - 1) - 1 = n - 2 /\ n - 1 # 1
    BY <1>1
  <2> QED
    BY <1>2, <1>4, <2>1 DEF Canonical
<1>7. stack[n].hi = stack[n - 1].lo + 2 * s /\ 2 * s <= MaxLen
  BY <1>2, <1>3, Pow2Type
<1>8. 2 * s \in Pow2
  BY <1>2, <1>7, Pow2Twice
<1>9. n > 2 => 2 * s <= Size(stack[n - 2])
  BY <1>2, <1>6, Pow2Double
<1> QED
  BY <1>5, <1>7, <1>8, <1>9

\* No more entries than bits: no two entries are of equal size, and there is
\* one entry per bit.
LEMMA NoExcessMeansMerged ==
  ASSUME NEW stack \in Seq(CVs), Canonical(stack), Indexed(stack),
         Len(stack) <= popcnt(Covered(stack))
  PROVE  Merged(stack) /\ popcnt(Covered(stack)) = Len(stack)
<1> DEFINE n == Len(stack)
           s == Size(stack[n])
<1>0. n \in Nat
  OBVIOUS
<1>1. CASE n = 0
  BY <1>1, PopcntZero DEF Covered, Merged
<1>2. CASE n # 0
  <2>1. n \in 1..n
    BY <1>0, <1>2
  <2>2. s \in Pow2 /\ stack[n].lo % s = 0 /\ popcnt(stack[n].lo) = n - 1
    BY <2>1 DEF Canonical, Indexed
  <2>3. Covered(stack) = stack[n].lo + s /\ stack[n].lo \in Nat /\ Covered(stack) \in Nat
    BY <2>1, CVType DEF Covered
  <2>4. popcnt(Covered(stack)) \in Nat
    BY <2>3, BitsOfFinite
  <2>5. popcnt(Covered(stack)) = n
    <3> HIDE DEF s
    <3>1. popcnt(stack[n].lo + s) <= popcnt(stack[n].lo) + 1
      BY <2>2, <2>3, PopcntAddAtMost
    <3> QED
      BY <1>0, <2>2, <2>3, <2>4, <3>1
  <2>6. ASSUME n >= 2, s = Size(stack[n - 1])
        PROVE  FALSE
    <3> DEFINE d == 2 * s
               b == stack[n - 1].lo
    <3>1. d \in Pow2 /\ b % d = 0 /\ stack[n].hi = b + d
      BY <2>6, TopPair
    <3>2. n - 1 \in 1..n
      BY <1>0, <2>6
    <3>3. popcnt(b) = n - 2 /\ b \in Nat
      BY <3>2, CVType DEF Indexed
    <3>4. popcnt(b + d) = n
      BY <1>2, <2>5, <3>1 DEF Covered
    <3> HIDE DEF d, b
    <3>5. popcnt(b + d) <= popcnt(b) + 1
      BY <3>1, <3>3, PopcntAddAtMost
    <3> QED
      BY <1>0, <3>3, <3>4, <3>5
  <2>7. Merged(stack)
    BY <1>0, <2>6 DEF Canonical, Merged
  <2> QED
    BY <2>5, <2>7
<1> QED
  BY <1>1, <1>2

\* Replacing the two entries on top by one that covers them both.
LEMMA JoinKeeps ==
  ASSUME NEW stack \in Seq(CVs), Canonical(stack), Indexed(stack), Len(stack) >= 2,
         Size(stack[Len(stack)]) = Size(stack[Len(stack) - 1]),
         NEW cv \in CVs, cv.lo = stack[Len(stack) - 1].lo, cv.hi = stack[Len(stack)].hi,
         NEW joined, joined = Append(SubSeq(stack, 1, Len(stack) - 2), cv)
  PROVE  /\ joined \in Seq(CVs) /\ Canonical(joined) /\ Indexed(joined)
         /\ Len(joined) = Len(stack) - 1 /\ Covered(joined) = Covered(stack)
<1> DEFINE n == Len(stack)
           kept == SubSeq(stack, 1, n - 2)
<1>1. n \in Nat /\ n >= 2
  OBVIOUS
<1>2. kept \in Seq(CVs) /\ Len(kept) = n - 2 /\ \A i \in 1..(n - 2) : kept[i] = stack[i]
  <2>1. 1 \in Int /\ n - 2 \in Int /\ \A i \in 1..(n - 2) : stack[i] \in CVs
    BY <1>1
  <2>2. /\ kept \in Seq(CVs) /\ Len(kept) = IF 1 <= n - 2 THEN (n - 2) - 1 + 1 ELSE 0
        /\ \A i \in 1..((n - 2) - 1 + 1) : kept[i] = stack[1 + i - 1]
    BY <2>1, SubSeqProperties
  <2> HIDE DEF kept, n
  <2>3. (n - 2) - 1 + 1 = n - 2 /\ \A i \in 1..(n - 2) : 1 + i - 1 = i
    BY <1>1
  <2>4. Len(kept) = n - 2
    BY <1>1, <2>2, <2>3
  <2> QED
    BY <2>2, <2>3, <2>4
<1>3. /\ joined \in Seq(CVs) /\ Len(joined) = n - 1 /\ joined[n - 1] = cv
      /\ \A i \in 1..(n - 2) : joined[i] = stack[i]
  <2> HIDE DEF kept
  <2> QED
    BY <1>1, <1>2
<1>4. /\ Size(cv) \in Pow2
      /\ cv.lo % Size(cv) = 0
      /\ n > 2 => Size(cv) <= Size(stack[n - 2])
  <2>1. stack[n - 1].lo \in Nat
    BY <1>1, CVType
  <2>2. 2 * Size(stack[n]) \in Int
    BY <1>1, CVType
  <2>3. Size(cv) = 2 * Size(stack[n])
    BY <2>1, <2>2, TopPair DEF Size
  <2> QED
    BY <2>3, TopPair
<1>5. n > 2 => Size(cv) \in Int /\ Size(stack[n - 2]) \in Int
  <2>1. n > 2 => n - 2 \in 1..n
    BY <1>1
  <2> QED
    BY <1>4, <2>1, Pow2Type, CVType
<1>6. cv.lo = IF n - 1 = 1 THEN 0 ELSE stack[n - 2].hi
  <2>1. n - 1 \in 1..n /\ (n - 1) - 1 = n - 2
    BY <1>1
  <2> QED
    BY <2>1 DEF Canonical
<1>7. Canonical(joined)
  <2> SUFFICES ASSUME NEW i \in 1..(n - 1)
               PROVE  /\ Size(joined[i]) \in Pow2
                      /\ joined[i].lo % Size(joined[i]) = 0
                      /\ joined[i].lo = IF i = 1 THEN 0 ELSE joined[i - 1].hi
                      /\ i > 1 => \/ Size(joined[i]) < Size(joined[i - 1])
                                  \/ i = n - 1 /\ Size(joined[i]) = Size(joined[i - 1])
    BY <1>3 DEF Canonical
  <2>1. CASE i = n - 1
    <3>1. i > 1 => i - 1 \in 1..(n - 2) /\ i - 1 = n - 2 /\ n > 2
      BY <1>1, <2>1
    <3> QED
      BY <1>3, <1>4, <1>5, <1>6, <2>1, <3>1
  <2>2. CASE i # n - 1
    <3>1. i \in 1..(n - 2) /\ i \in 1..n /\ i # n /\ (i > 1 => i - 1 \in 1..(n - 2))
      BY <1>1, <2>2
    <3> QED
      BY <1>3, <3>1 DEF Canonical
  <2> QED
    BY <2>1, <2>2
<1>8. Indexed(joined)
  <2> SUFFICES ASSUME NEW i \in 1..(n - 1)
               PROVE  popcnt(joined[i].lo) = i - 1
    BY <1>3 DEF Indexed
  <2>1. i \in 1..n /\ (i = n - 1 \/ i \in 1..(n - 2))
    BY <1>1
  <2> QED
    BY <1>3, <2>1 DEF Indexed
<1>9. Covered(joined) = Covered(stack)
  BY <1>1, <1>3 DEF Covered
<1> QED
  BY <1>3, <1>7, <1>8, <1>9

\* Pushing an aligned entry on a merged stack.
LEMMA PushKeeps ==
  ASSUME NEW stack \in Seq(CVs), Canonical(stack), Indexed(stack), Merged(stack),
         popcnt(Covered(stack)) = Len(stack),
         NEW cv \in CVs, cv.lo = Covered(stack), Size(cv) \in Pow2, cv.lo % Size(cv) = 0,
         NEW pushed, pushed = Append(stack, cv)
  PROVE  /\ pushed \in Seq(CVs) /\ Canonical(pushed) /\ Indexed(pushed)
         /\ Len(pushed) = Len(stack) + 1 /\ Covered(pushed) = cv.hi
<1> DEFINE n == Len(stack)
<1>1. n \in Nat
  OBVIOUS
<1>2. /\ pushed \in Seq(CVs) /\ Len(pushed) = n + 1 /\ pushed[n + 1] = cv
      /\ \A i \in 1..n : pushed[i] = stack[i]
  OBVIOUS
<1>3. n >= 1 => Size(cv) <= Size(stack[n])
  <2> DEFINE s == Size(cv)
             t == Size(stack[n])
             b == stack[n].lo
  <2> SUFFICES ASSUME n >= 1, ~(s <= t) PROVE FALSE
    OBVIOUS
  <2>1. n \in 1..n
    BY <1>1
  <2>2. t \in Pow2 /\ t \in Nat \ {0} /\ s \in Pow2 /\ s \in Nat \ {0} /\ 2 * t \in Nat \ {0}
    BY <2>1, Pow2Type DEF Canonical
  <2>3. cv.lo = b + t /\ b \in Nat /\ cv.lo % s = 0
    BY <2>1, CVType DEF Covered
  <2>4. n = 1 \/ t < Size(stack[n - 1])
    BY <1>1, <2>1 DEF Merged
  <2>5. b % (2 * t) = 0
    BY <2>1, <2>4, TwiceAligned
  <2> HIDE DEF s, t, b
  <2>6. s % (2 * t) = 0
    BY <2>2, Pow2Double
  <2>7. (b + t) % (2 * t) = 0
    BY <2>2, <2>3, <2>6, ModTransitive, b + t \in Nat
  <2>8. PICK k \in Nat : b = (2 * t) * k
    BY <2>2, <2>3, <2>5, ModMultiple
  <2>9. b + t = (2 * t) * k + t /\ t \in 0..(2 * t - 1)
    BY <2>2, <2>8
  <2>10. ((2 * t) * k + t) % (2 * t) = t
    BY <2>2, <2>9, DivisionIs
  <2> QED
    BY <2>2, <2>7, <2>9, <2>10
<1>4. Canonical(pushed)
  <2> SUFFICES ASSUME NEW i \in 1..(n + 1)
               PROVE  /\ Size(pushed[i]) \in Pow2
                      /\ pushed[i].lo % Size(pushed[i]) = 0
                      /\ pushed[i].lo = IF i = 1 THEN 0 ELSE pushed[i - 1].hi
                      /\ i > 1 => \/ Size(pushed[i]) < Size(pushed[i - 1])
                                  \/ i = n + 1 /\ Size(pushed[i]) = Size(pushed[i - 1])
    BY <1>2 DEF Canonical
  <2>1. CASE i = n + 1
    <3>1. i > 1 => i - 1 \in 1..n /\ i - 1 = n /\ n >= 1 /\ n # 0
      BY <1>1, <2>1
    <3>2. i = 1 => n = 0
      BY <1>1, <2>1
    <3>3. n >= 1 => Size(cv) \in Int /\ Size(stack[n]) \in Int
      BY Pow2Type, CVType, <1>1
    <3> QED
      BY <1>2, <1>3, <2>1, <3>1, <3>2, <3>3 DEF Covered
  <2>2. CASE i # n + 1
    <3>1. i \in 1..n /\ (i > 1 => i - 1 \in 1..n /\ i \in 2..n)
      BY <1>1, <2>2
    <3> QED
      BY <1>2, <3>1 DEF Canonical, Merged
  <2> QED
    BY <2>1, <2>2
<1>5. Indexed(pushed)
  <2> SUFFICES ASSUME NEW i \in 1..(n + 1)
               PROVE  popcnt(pushed[i].lo) = i - 1
    BY <1>2 DEF Indexed
  <2>1. i = n + 1 \/ i \in 1..n
    BY <1>1
  <2> QED
    BY <1>1, <1>2, <2>1 DEF Indexed
<1> QED
  BY <1>1, <1>2, <1>4, <1>5 DEF Covered
-----------------------------------------------------------------------------
(***************************************************************************)
(* Types of nodes and chaining values.                                     *)
(***************************************************************************)

\* chunk_state_output makes an output_t of the type TypeOK states.
LEMMA ChunkOutputType ==
  ASSUME NEW m \in Modes, NEW ch, ch.counter \in Nat, ch.counter < MaxLen,
         ch.at \in 0..MaxLen, ch.len \in 0..CHUNK_LEN
  PROVE  /\ chunk_output(m, ch) \in Outputs
         /\ chunk_output(m, ch).lo = ch.counter
         /\ chunk_output(m, ch).hi = ch.counter + 1
<1>1. MaxLen \in Nat
  BY Pow2Type
<1>2. ch.counter \in 0..MaxLen /\ ch.counter + 1 \in 0..MaxLen
  BY <1>1
<1>3. ChunkNode(m, ch.counter, ch.at, ch.len) \in Nodes
  BY <1>2 DEF ChunkNode, Nodes
<1> QED
  BY <1>2, <1>3 DEF chunk_output, Outputs

\* So does parent_output.
LEMMA ParentOutputType ==
  ASSUME NEW m \in Modes, NEW left \in CVs, NEW right \in CVs
  PROVE  /\ parent_output(m, left, right) \in Outputs
         /\ parent_output(m, left, right).lo = left.lo
         /\ parent_output(m, left, right).hi = right.hi
<1>1. /\ left.lo \in 0..MaxLen /\ right.lo \in 0..MaxLen /\ right.hi \in 0..MaxLen
      /\ left.nodes \in SUBSET Nodes /\ right.nodes \in SUBSET Nodes
  BY DEF CVs
<1>2. ParentNode(m, left.lo, right.lo, right.hi) \in Nodes
  BY <1>1 DEF ParentNode, Nodes
<1> QED
  BY <1>1, <1>2 DEF parent_output, Outputs

\* output_chaining_value makes a chaining value of that type.
LEMMA OutputCVType ==
  ASSUME NEW o \in Outputs
  PROVE  /\ output_chaining_value(o) \in CVs
         /\ output_chaining_value(o).lo = o.lo
         /\ output_chaining_value(o).hi = o.hi
<1>1. o.lo \in 0..MaxLen /\ o.hi \in 0..MaxLen /\ o.below \in SUBSET Nodes /\ o.top \in Nodes
  BY DEF Outputs
<1> QED
  BY <1>1 DEF output_chaining_value, CVs

\* So does the hashing of a complete subtree.
LEMMA CompleteCVType ==
  ASSUME NEW m \in Modes, NEW lo \in Nat, NEW n \in Nat, NEW at \in Nat,
         lo + n <= MaxLen, at + n * CHUNK_LEN <= MaxLen
  PROVE  /\ CompleteCV(m, lo, n, at) \in CVs
         /\ CompleteCV(m, lo, n, at).lo = lo
         /\ CompleteCV(m, lo, n, at).hi = lo + n
         /\ Size(CompleteCV(m, lo, n, at)) = n
<1>1. MaxLen \in Nat /\ CHUNK_LEN \in Nat \ {0}
  BY Pow2Type
<1>2. ASSUME NEW i \in 0..(n-1)
      PROVE  ChunkNode(m, lo + i, at + i * CHUNK_LEN, CHUNK_LEN) \in Nodes
  <2>1. i * CHUNK_LEN <= n * CHUNK_LEN /\ i * CHUNK_LEN \in Nat
    BY <1>1
  <2>2. lo + i \in 0..MaxLen /\ at + i * CHUNK_LEN \in 0..MaxLen /\ CHUNK_LEN \in 0..CHUNK_LEN
    <3> DEFINE skipped == i * CHUNK_LEN
               all == n * CHUNK_LEN
    <3>1. all \in Nat
      BY <1>1
    <3> HIDE DEF skipped, all
    <3> QED
      BY <1>1, <2>1, <3>1 DEF skipped, all
  <2> QED
    BY <2>2 DEF ChunkNode, Nodes
<1>3. ASSUME NEW i \in 0..(n-1), NEW p \in Pow2, i + 2 * p <= n
      PROVE  ParentNode(m, lo + i, lo + i + p, lo + i + 2 * p) \in Nodes
  <2>1. p \in Nat
    BY Pow2Type
  <2>2. lo + i \in 0..MaxLen /\ lo + i + p \in 0..MaxLen /\ lo + i + 2 * p \in 0..MaxLen
    BY <1>1, <1>3, <2>1
  <2> QED
    BY <2>2 DEF ParentNode, Nodes
<1>4. CompleteNodes(m, lo, n, at) \in SUBSET Nodes
  <2> SUFFICES ASSUME NEW node \in CompleteNodes(m, lo, n, at)
               PROVE  node \in Nodes
    OBVIOUS
  <2>1. CASE \E i \in 0..(n-1) :
               node = ChunkNode(m, lo + i, at + i * CHUNK_LEN, CHUNK_LEN)
    BY <1>2, <2>1
  <2>2. CASE \E i \in 0..(n-1), p \in Pow2 :
               /\ i + 2 * p <= n
               /\ node = ParentNode(m, lo + i, lo + i + p, lo + i + 2 * p)
    BY <1>3, <2>2
  <2> QED
    BY <2>1, <2>2 DEF CompleteNodes
<1>5. lo \in 0..MaxLen /\ lo + n \in 0..MaxLen /\ (lo + n) - lo = n
  BY <1>1
<1> QED
  BY <1>4, <1>5 DEF CompleteCV, CVs, Size
-----------------------------------------------------------------------------
(***************************************************************************)
(* The size of a subtree: a power of two of whole chunks within the input, *)
(* that divides what was hashed before.                                    *)
(***************************************************************************)
LEMMA SubtreeLenFacts ==
  ASSUME NEW left \in Nat, left > CHUNK_LEN, left <= MaxLen, NEW counter \in Nat
  PROVE  LET s == SubtreeLen(left, counter * CHUNK_LEN)
             c == s \div CHUNK_LEN
         IN  /\ s \in Nat /\ s <= left /\ s = c * CHUNK_LEN
             /\ c \in Pow2 /\ counter % c = 0
             /\ s <= CHUNK_LEN <=> c = 1
<1> DEFINE done == counter * CHUNK_LEN
           r == round_down_to_power_of_2(left)
           Below == {p \in Pow2 : p <= IF left = 0 THEN 1 ELSE left}
           Fits == {p \in Pow2 : p <= r /\ done % p = 0}
           s == SubtreeLen(left, done)
           c == s \div CHUNK_LEN
<1>1. /\ MaxLen \in Nat /\ CHUNK_LEN \in Pow2 /\ CHUNK_LEN \in Nat \ {0}
      /\ Pow2 \in SUBSET (0..MaxLen)
  BY Pow2Type
<1>2. left # 0
  BY <1>1
<1>3. CHUNK_LEN \in Below
  BY <1>1, <1>2
<1>4. r \in Below /\ \A p \in Below : p <= r
  <2>1. Below \in SUBSET (0..MaxLen) /\ Below # {}
    BY <1>1, <1>3
  <2> HIDE DEF Below
  <2>2. Max(Below) \in Below /\ \A p \in Below : p <= Max(Below)
    BY <1>1, <2>1, MaxIsGreatest
  <2> QED
    BY <2>2 DEF round_down_to_power_of_2, Below
<1> HIDE DEF r
<1>5. done \in Nat /\ done % CHUNK_LEN = 0
  <2>1. done = CHUNK_LEN * counter
    BY <1>1
  <2> QED
    BY <1>1, <2>1, MultipleMod
<1> HIDE DEF done
<1>6. CHUNK_LEN \in Fits
  BY <1>1, <1>3, <1>4, <1>5
<1>7. s \in Fits /\ \A p \in Fits : p <= s
  <2>1. Fits \in SUBSET (0..MaxLen) /\ Fits # {}
    BY <1>1, <1>6
  <2> HIDE DEF Fits
  <2>2. Max(Fits) \in Fits /\ \A p \in Fits : p <= Max(Fits)
    BY <1>1, <2>1, MaxIsGreatest
  <2> QED
    BY <2>2 DEF SubtreeLen, Fits, r
<1> HIDE DEF s
<1>8. s \in Pow2 /\ s \in Nat \ {0} /\ CHUNK_LEN <= s /\ s <= left /\ done % s = 0
  <2>1. s \in Pow2 /\ s <= r /\ r \in Pow2 /\ r <= left /\ done % s = 0 /\ CHUNK_LEN <= s
    BY <1>2, <1>4, <1>6, <1>7
  <2> QED
    BY <2>1, Pow2Type
<1>9. c \in Pow2 /\ s = CHUNK_LEN * c
  BY <1>1, <1>8, Pow2Quotient
<1>10. c \in Nat \ {0}
  BY <1>9, Pow2Type
<1> HIDE DEF c
<1>11. counter % c = 0
  <2>1. PICK k \in Nat : done = s * k
    BY <1>5, <1>8, ModMultiple
  <2>2. counter * CHUNK_LEN = (c * k) * CHUNK_LEN
    BY <1>1, <1>9, <1>10, <2>1 DEF done
  <2>3. c * k \in Nat
    BY <1>10
  <2>4. counter = c * k
    BY <1>1, <2>2, <2>3
  <2> QED
    BY <1>10, <2>4, MultipleMod
<1>12. s <= CHUNK_LEN <=> c = 1
  BY <1>1, <1>8, <1>9, <1>10
<1> QED
  BY <1>1, <1>8, <1>9, <1>10, <1>11, <1>12 DEF s, c, done

\* A subtree of more than one chunk has two halves, each aligned.
LEMMA HalfAligned ==
  ASSUME NEW c \in Pow2, c # 1, NEW counter \in Nat, counter % c = 0
  PROVE  LET h == c \div 2
         IN  /\ h \in Pow2 /\ c = h + h
             /\ counter % h = 0 /\ (counter + h) % h = 0
<1> DEFINE h == c \div 2
<1>1. c \in Nat \ {0} /\ c % 2 = 0
  BY Pow2Type, Pow2Even
<1>2. h \in Nat \ {0} /\ c = 2 * h
  BY <1>1
<1> HIDE DEF h
<1>3. c = h * 2 /\ c = h + h
  BY <1>2
<1>4. h \in Pow2
  BY <1>2, <1>3, Pow2Divisor
<1>5. c % h = 0 /\ h % h = 0
  BY <1>2, <1>3, MultipleMod
<1>6. counter % h = 0
  BY <1>1, <1>2, <1>5, ModTransitive
<1>7. (counter + h) % h = 0
  BY <1>2, <1>5, <1>6, ModSum
<1> QED
  BY <1>3, <1>4, <1>6, <1>7 DEF h
-----------------------------------------------------------------------------
(***************************************************************************)
(* The inductive invariant.                                                *)
(***************************************************************************)
\* What holds at each place of a call.
Places ==
  /\ pc = "push" <=> Len(pushes) # 0
  /\ pc = "fill" => chunk.len > 0 /\ input_len > 0
  /\ pc = "subtrees" => chunk.len = 0
  /\ pc = "settle" => chunk.len > 0 /\ input_len = 0
  /\ pc \in {"idle", "rollup"} => input_len = 0
  /\ pc = "rollup" => output \in Outputs
  /\ pc # "rollup" => cvs_remaining = 0

\* The stack covers the chunks up to the count the next merge is called with.
Covering == Covered(cv_stack) = MergeCount

(***************************************************************************)
(* Pending pushes are aligned subtrees that follow each other and end at   *)
(* the counter the chunk will move on to.  A lone one is a single chunk    *)
(* with input left behind it, or the second of a pair.                     *)
(***************************************************************************)
Aligned(push) ==
  /\ push.cv.lo = push.counter
  /\ Size(push.cv) \in Pow2
  /\ push.counter % Size(push.cv) = 0

Pending ==
  pc = "push" =>
    /\ Len(pushes) \in {1, 2}
    /\ \A i \in 1..Len(pushes) : Aligned(pushes[i])
    /\ Len(pushes) = 2 => pushes[2].counter = pushes[1].cv.hi /\ chunk.len = 0
    /\ pushes[Len(pushes)].cv.hi = NextCounter
    /\ chunk.len > 0 => chunk.len = CHUNK_LEN /\ input_len > 0
    /\ chunk.len = 0 => input_len > CHUNK_LEN
    /\ chunk.len = 0 /\ Len(pushes) = 1 /\ Len(cv_stack) = 0 => subtree_len <= CHUNK_LEN

\* A lone chaining value is never all there is to finalize.
NeverAlone == chunk.len = 0 /\ input_len = 0 => Len(cv_stack) # 1

MergedBetween ==
  pc \in {"idle", "fill", "rollup"} /\ chunk.len > 0 => Merged(cv_stack)

IInv ==
  /\ TypeOK
  /\ InputAccounted
  /\ StackCanonical
  /\ Indexed(cv_stack)
  /\ Places
  /\ Covering
  /\ Pending
  /\ NeverAlone
  /\ MergedBetween

\* The types, and the accounting, in the form the steps use them.
LEMMA Types ==
  ASSUME TypeOK
  PROVE  /\ MaxLen \in Nat /\ CHUNK_LEN \in Nat \ {0}
         /\ mode \in Modes
         /\ chunk = [counter |-> chunk.counter, at |-> chunk.at, len |-> chunk.len]
         /\ chunk.counter \in 0..MaxLen /\ chunk.counter \in Nat
         /\ chunk.at \in 0..MaxLen
         /\ chunk.len \in 0..CHUNK_LEN /\ chunk.len \in Nat
         /\ input_bytes \in Nat /\ input_len \in Nat /\ input_len <= MaxLen
         /\ cv_stack \in Seq(CVs) /\ cv_stack_len = Len(cv_stack) /\ cv_stack_len \in Nat
<1>1. MaxLen \in Nat /\ CHUNK_LEN \in Nat \ {0}
  BY Pow2Type
<1>2. /\ chunk \in [counter : 0..MaxLen, at : 0..MaxLen, len : 0..CHUNK_LEN]
      /\ mode \in Modes /\ cv_stack \in Seq(CVs)
      /\ input_bytes \in 0..MaxLen /\ input_len \in 0..MaxLen
  BY DEF TypeOK
<1> QED
  BY <1>1, <1>2 DEF cv_stack_len

\* Counter, partial chunk and remaining input, as numbers within bounds.
LEMMA Accounting ==
  ASSUME TypeOK, InputAccounted
  PROVE  /\ chunk.counter * CHUNK_LEN \in Nat
         /\ chunk.counter <= chunk.counter * CHUNK_LEN
         /\ input_bytes = chunk.counter * CHUNK_LEN + chunk.len
         /\ input_bytes + input_len <= MaxLen
         /\ chunk.len > 0 => chunk.counter < MaxLen
<1> DEFINE done == chunk.counter * CHUNK_LEN
<1>1. done \in Nat /\ chunk.counter <= done
  BY Types, ProductGrows
<1>2. input_bytes = done + chunk.len /\ input_bytes + input_len <= MaxLen
  BY DEF InputAccounted
<1> HIDE DEF done
<1>3. chunk.len > 0 => chunk.counter < MaxLen
  BY <1>1, <1>2, Types
<1> QED
  BY <1>1, <1>2, <1>3 DEF done

\* The chunk after the pending pushes is still within the message.
LEMMA NextCounterFacts ==
  ASSUME TypeOK, InputAccounted,
         chunk.len > 0 => chunk.len = CHUNK_LEN,
         chunk.len = 0 => input_len > CHUNK_LEN
  PROVE  LET read == IF chunk.len > 0 THEN 0 ELSE subtree_len
         IN  /\ NextCounter \in Nat /\ NextCounter <= MaxLen
             /\ read \in Nat /\ read <= input_len
             /\ input_bytes + read = NextCounter * CHUNK_LEN
<1> DEFINE read == IF chunk.len > 0 THEN 0 ELSE subtree_len
           more == IF chunk.len > 0 THEN 1 ELSE subtree_chunks
           done == chunk.counter * CHUNK_LEN
           extra == more * CHUNK_LEN
<1>1. more \in Nat /\ read \in Nat /\ read <= input_len /\ extra = chunk.len + read
  <2>1. CASE chunk.len > 0
    BY <2>1, Types
  <2>2. CASE ~(chunk.len > 0)
    <3>1. chunk.len = 0 /\ input_len > CHUNK_LEN /\ input_len \in Nat /\ input_len <= MaxLen
      BY <2>2, Types
    <3>2. /\ subtree_len \in Nat /\ subtree_len <= input_len
          /\ subtree_len = subtree_chunks * CHUNK_LEN /\ subtree_chunks \in Pow2
      BY <3>1, SubtreeLenFacts, Types DEF subtree_len, subtree_chunks
    <3> QED
      BY <2>2, <3>1, <3>2, Pow2Type
  <2> QED
    BY <2>1, <2>2
<1>2. NextCounter = chunk.counter + more
  BY DEF NextCounter
<1>3. done \in Nat /\ input_bytes = done + chunk.len /\ input_bytes + input_len <= MaxLen
  BY Accounting
<1> HIDE DEF read, more
<1>4. NextCounter * CHUNK_LEN = done + extra
  BY <1>1, <1>2, Types
<1>5. NextCounter \in Nat
  BY <1>1, <1>2, Types
<1>6. NextCounter <= NextCounter * CHUNK_LEN
  BY <1>5, Types, ProductGrows
<1> HIDE DEF done, extra
<1>7. input_bytes + read = NextCounter * CHUNK_LEN
  BY <1>1, <1>3, <1>4, Types
<1>8. input_bytes + read <= MaxLen
  BY <1>1, <1>3, Types
<1> DEFINE next == NextCounter * CHUNK_LEN
<1>9. next \in Nat /\ NextCounter <= next /\ next <= MaxLen
  BY <1>1, <1>5, <1>6, <1>7, <1>8, Types, ProductGrows
<1> HIDE DEF next
<1>10. NextCounter <= MaxLen
  BY <1>5, <1>9, Types
<1> QED
  BY <1>1, <1>5, <1>7, <1>10 DEF read

-----------------------------------------------------------------------------
(***************************************************************************)
(* Every step keeps the invariant.                                         *)
(***************************************************************************)

\* A hasher that was just initialised satisfies the invariant.
LEMMA InitHolds == Init => IInv
<1> SUFFICES ASSUME Init PROVE IInv
  OBVIOUS
<1>1. MaxLen \in Nat /\ CHUNK_LEN \in Nat \ {0} /\ 0 \in 0..MaxLen /\ 0 \in 0..CHUNK_LEN
  BY Pow2Type
<1>2. Len(cv_stack) = 0 /\ Len(pushes) = 0
  BY DEF Init
<1>3. chunk.counter = 0 /\ chunk.len = 0
  BY DEF Init, EmptyChunk
<1>4. TypeOK
  BY <1>1, <1>2 DEF Init, TypeOK, EmptyChunk, cv_stack_len
<1>5. InputAccounted
  BY <1>1, <1>3 DEF Init, InputAccounted
<1>6. StackCanonical /\ Indexed(cv_stack)
  BY <1>2 DEF StackCanonical, Canonical, Indexed
<1>7. Places
  BY <1>2 DEF Init, Places
<1>8. Covering
  BY <1>2, <1>3 DEF Init, Covering, Covered, MergeCount
<1>9. Pending /\ NeverAlone /\ MergedBetween
  BY <1>2, <1>3 DEF Init, Pending, NeverAlone, MergedBetween
<1> QED
  BY <1>4, <1>5, <1>6, <1>7, <1>8, <1>9 DEF IInv

\* hasher_init_base and blake3_hasher_reset: both empty the chunk and the stack.
LEMMA RestartKeeps ==
  ASSUME IInv, (\E m \in Modes : HasherInit(m)) \/ Reset
  PROVE  IInv'
<1>1. /\ pc = "idle" /\ pc' = "idle" /\ mode' \in Modes
      /\ chunk' = EmptyChunk(0) /\ cv_stack' = <<>> /\ input_bytes' = 0
      /\ output' = NoOutput
      /\ UNCHANGED <<input_len, pushes, cvs_remaining>>
  BY DEF IInv, TypeOK, HasherInit, Reset
<1>2. MaxLen \in Nat /\ CHUNK_LEN \in Nat \ {0} /\ 0 \in 0..MaxLen /\ 0 \in 0..CHUNK_LEN
  BY Pow2Type
<1>3. Len(cv_stack') = 0 /\ Len(pushes') = 0 /\ cvs_remaining' = 0 /\ input_len' = 0
  BY <1>1 DEF IInv, Places
<1>4. chunk'.counter = 0 /\ chunk'.len = 0
  BY <1>1 DEF EmptyChunk
<1>5. TypeOK'
  BY <1>1, <1>2, <1>3 DEF IInv, TypeOK, EmptyChunk, cv_stack_len
<1>6. InputAccounted'
  BY <1>1, <1>2, <1>3, <1>4 DEF InputAccounted
<1>7. StackCanonical' /\ Indexed(cv_stack)'
  BY <1>3 DEF StackCanonical, Canonical, Indexed
<1>8. Places'
  BY <1>1, <1>3 DEF Places
<1>9. Covering'
  BY <1>1, <1>3, <1>4 DEF Covering, Covered, MergeCount
<1>10. Pending' /\ NeverAlone' /\ MergedBetween'
  BY <1>1, <1>3, <1>4 DEF Pending, NeverAlone, MergedBetween
<1> QED
  BY <1>5, <1>6, <1>7, <1>8, <1>9, <1>10 DEF IInv

\* The call of blake3_hasher_update only records the input.
LEMMA UpdateKeeps ==
  ASSUME IInv, NEW n \in 1..MaxLen, Update(n)
  PROVE  IInv'
<1>1. /\ pc = "idle" /\ pc' = IF chunk.len > 0 THEN "fill" ELSE "subtrees"
      /\ input_bytes + n <= MaxLen /\ input_len' = n /\ output' = NoOutput
      /\ UNCHANGED <<mode, chunk, cv_stack, input_bytes, pushes, cvs_remaining>>
  BY DEF Update
<1>2. TypeOK /\ InputAccounted
  BY DEF IInv
<1>3. TypeOK'
  BY <1>1, <1>2 DEF TypeOK, cv_stack_len
<1>4. InputAccounted'
  BY <1>1, <1>2 DEF InputAccounted
<1>5. StackCanonical' /\ Indexed(cv_stack)'
  BY <1>1 DEF IInv, StackCanonical, Canonical, Indexed
<1>6. Places'
  BY <1>1, <1>2, Types DEF IInv, Places
<1>7. Covering'
  BY <1>1 DEF IInv, Covering, Covered, MergeCount
<1>8. Pending' /\ NeverAlone'
  BY <1>1 DEF Pending, NeverAlone
<1>9. MergedBetween'
  BY <1>1 DEF IInv, MergedBetween, Merged
<1> QED
  BY <1>3, <1>4, <1>5, <1>6, <1>7, <1>8, <1>9 DEF IInv

\* Filling the partial chunk: its push, if any, continues the stack.
LEMMA FillChunkKeeps ==
  ASSUME IInv, FillChunk
  PROVE  IInv'
<1> DEFINE take == Take(CHUNK_LEN - chunk.len, input_len)
           filled == Absorb(chunk, input_bytes, take)
           cv == output_chaining_value(chunk_output(mode, filled))
<1>1. /\ pc = "fill" /\ chunk' = filled
      /\ input_bytes' = input_bytes + take /\ input_len' = input_len - take
      /\ IF input_len - take > 0
         THEN pushes' = <<Push(cv, chunk.counter)>> /\ pc' = "push"
         ELSE pc' = "idle" /\ pushes' = pushes
      /\ UNCHANGED <<mode, cv_stack, cvs_remaining, output>>
  BY DEF FillChunk
<1>2. TypeOK /\ InputAccounted /\ chunk.len > 0 /\ input_len > 0 /\ Len(pushes) = 0
      /\ cvs_remaining = 0
  BY <1>1, Len(pushes) \in Nat DEF IInv, TypeOK, Places
<1>3. /\ take \in Nat /\ take <= input_len /\ chunk.len + take \in 0..CHUNK_LEN
      /\ input_len - take > 0 => chunk.len + take = CHUNK_LEN
  BY <1>2, Types DEF Take
<1> HIDE DEF take
<1>4. /\ filled.counter = chunk.counter /\ filled.at = chunk.at
      /\ filled.len = chunk.len + take
      /\ filled \in [counter : 0..MaxLen, at : 0..MaxLen, len : 0..CHUNK_LEN]
  BY <1>2, <1>3, Types DEF Absorb
<1> HIDE DEF filled
<1>5. chunk.counter < MaxLen
  BY <1>2, Accounting
<1>6. cv \in CVs /\ cv.lo = chunk.counter /\ cv.hi = chunk.counter + 1
  BY <1>2, <1>4, <1>5, Types, ChunkOutputType, OutputCVType
<1> HIDE DEF cv
<1>7. /\ input_bytes' \in Nat /\ input_len' \in Nat /\ input_bytes' <= MaxLen
      /\ input_bytes' + input_len' <= MaxLen
      /\ input_bytes' = chunk.counter * CHUNK_LEN + (chunk.len + take)
  <2> DEFINE done == chunk.counter * CHUNK_LEN
  <2>1. done \in Nat /\ input_bytes = done + chunk.len /\ input_bytes + input_len <= MaxLen
    BY <1>2, Accounting
  <2> HIDE DEF done
  <2>2. /\ input_bytes' \in Nat /\ input_len' \in Nat /\ input_bytes' <= MaxLen
        /\ input_bytes' + input_len' <= MaxLen
        /\ input_bytes' = done + (chunk.len + take)
    <3>1. input_bytes \in Nat /\ input_len \in Nat /\ chunk.len \in Nat /\ MaxLen \in Nat
      BY <1>2, Types
    <3>2. input_bytes' = input_bytes + take /\ input_len' = input_len - take
      BY <1>1
    <3>3. take \in Nat /\ take <= input_len
      BY <1>3
    <3> QED
      BY <2>1, <3>1, <3>2, <3>3
  <2> QED
    BY <2>2 DEF done
<1>8. TypeOK'
  <2>1. pushes' \in Seq([cv : CVs, counter : 0..MaxLen])
    <3>1. Push(cv, chunk.counter) \in [cv : CVs, counter : 0..MaxLen]
      BY <1>2, <1>6, Types DEF Push
    <3>2. pushes \in Seq([cv : CVs, counter : 0..MaxLen])
      BY <1>2 DEF TypeOK
    <3>3. <<Push(cv, chunk.counter)>> \in Seq([cv : CVs, counter : 0..MaxLen])
      BY <3>1
    <3> QED
      BY <1>1, <3>2, <3>3
  <2>2. input_bytes' \in 0..MaxLen /\ input_len' \in 0..MaxLen
    BY <1>2, <1>7, Types
  <2> QED
    BY <1>1, <1>2, <1>4, <2>1, <2>2 DEF TypeOK, cv_stack_len
<1>9. InputAccounted'
  BY <1>1, <1>2, <1>4, <1>7 DEF InputAccounted
<1>10. StackCanonical' /\ Indexed(cv_stack)'
  BY <1>1 DEF IInv, StackCanonical, Canonical, Indexed
<1>11. chunk'.len > 0 /\ chunk'.counter = chunk.counter
  BY <1>1, <1>2, <1>3, <1>4, Types
<1>12. Places'
  <2>1. pc' = "push" => Len(pushes') = 1
    BY <1>1
  <2>2. pc' = "idle" => Len(pushes') = 0 /\ input_len' = 0
    BY <1>1, <1>2, <1>3, Types
  <2> QED
    BY <1>1, <1>2, <2>1, <2>2 DEF Places
<1>13. Covering'
  BY <1>1, <1>11 DEF IInv, Covering, Covered, MergeCount, Push
<1>14. Pending'
  <2> SUFFICES ASSUME pc' = "push" PROVE Pending'
    BY DEF Pending
  <2>1. pushes' = <<Push(cv, chunk.counter)>> /\ input_len' > 0 /\ chunk'.len = CHUNK_LEN
    BY <1>1, <1>3, <1>4
  <2>2. Len(pushes') = 1 /\ pushes'[1].cv = cv /\ pushes'[1].counter = chunk.counter
    BY <2>1 DEF Push
  <2>3. Size(cv) = 1
    BY <1>2, <1>6, Types DEF Size
  <2>4. chunk.counter % 1 = 0
    BY <1>2, Types
  <2>5. Aligned(pushes'[1])
    BY <1>6, <2>2, <2>3, <2>4, Pow2Type DEF Aligned
  <2>6. NextCounter' = chunk.counter + 1
    BY <1>11 DEF NextCounter
  <2>7. chunk'.len # 0
    BY <1>2, <1>11, <2>1, Types
  <2> QED
    BY <1>6, <2>1, <2>2, <2>5, <2>6, <2>7 DEF Pending, Aligned, Size
<1>15. NeverAlone'
  BY <1>1, <1>2, <1>3, <1>11, <1>4, Types DEF NeverAlone
<1>16. MergedBetween'
  BY <1>1, <1>2 DEF IInv, MergedBetween, Merged
<1> QED
  BY <1>8, <1>9, <1>10, <1>12, <1>13, <1>14, <1>15, <1>16 DEF IInv

\* Hashing a subtree: one or two pushes continue the stack.
LEMMA HashSubtreeKeeps ==
  ASSUME IInv, HashSubtree
  PROVE  IInv'
<1> DEFINE lone == Absorb(chunk, input_bytes, subtree_len)
           pair == SubtreePair(mode, chunk.counter, input_bytes, subtree_chunks)
           cv == output_chaining_value(chunk_output(mode, lone))
           half == subtree_chunks \div 2
           Pushable == [cv : CVs, counter : 0..MaxLen]
<1>1. /\ pc = "subtrees" /\ pc' = "push" /\ input_len > CHUNK_LEN
      /\ pushes' = IF subtree_len <= CHUNK_LEN
                   THEN <<Push(cv, chunk.counter)>>
                   ELSE <<Push(pair[1], chunk.counter),
                          Push(pair[2], chunk.counter + half)>>
      /\ UNCHANGED <<mode, chunk, cv_stack, input_bytes, input_len,
                     cvs_remaining, output>>
  BY DEF HashSubtree, MoreThanAChunk
<1>2. TypeOK /\ InputAccounted /\ chunk.len = 0
  BY <1>1 DEF IInv, Places
<1>3. /\ subtree_len \in Nat /\ subtree_len <= input_len
      /\ subtree_len = subtree_chunks * CHUNK_LEN /\ subtree_chunks \in Pow2
      /\ chunk.counter % subtree_chunks = 0
      /\ subtree_len <= CHUNK_LEN <=> subtree_chunks = 1
      /\ subtree_chunks \in Nat
  BY <1>1, <1>2, SubtreeLenFacts, Types, Pow2Type DEF subtree_len, subtree_chunks
<1>4. /\ NextCounter = chunk.counter + subtree_chunks /\ NextCounter <= MaxLen
      /\ input_bytes + subtree_len <= MaxLen /\ input_bytes <= MaxLen
  <2>1. NextCounter = chunk.counter + subtree_chunks /\ NextCounter <= MaxLen
    BY <1>1, <1>2, NextCounterFacts DEF NextCounter
  <2>2. input_bytes + input_len <= MaxLen /\ input_bytes \in Nat /\ input_len \in Nat
        /\ MaxLen \in Nat
    BY <1>2, Types, Accounting
  <2> QED
    BY <1>3, <2>1, <2>2
<1>5. \* what is pushed, one chunk or two halves
      /\ pushes' \in Seq(Pushable)
      /\ Len(pushes') \in {1, 2}
      /\ \A i \in 1..Len(pushes') : Aligned(pushes'[i])
      /\ pushes'[1].counter = chunk.counter
      /\ Len(pushes') = 2 => pushes'[2].counter = pushes'[1].cv.hi
      /\ pushes'[Len(pushes')].cv.hi = NextCounter
      /\ Len(pushes') = 1 => subtree_len <= CHUNK_LEN
  <2>1. CASE subtree_len <= CHUNK_LEN
    <3>1. subtree_chunks = 1 /\ subtree_len = CHUNK_LEN
      BY <1>2, <1>3, <2>1, Types
    <3>2. /\ lone.counter = chunk.counter /\ lone.counter \in Nat /\ lone.counter < MaxLen
          /\ lone.at \in 0..MaxLen /\ lone.len \in 0..CHUNK_LEN
      BY <1>2, <1>4, <3>1, Types DEF Absorb
    <3> HIDE DEF lone
    <3>3. cv \in CVs /\ cv.lo = chunk.counter /\ cv.hi = chunk.counter + 1
      BY <1>2, <3>2, Types, ChunkOutputType, OutputCVType
    <3> HIDE DEF cv
    <3>4. Push(cv, chunk.counter) \in Pushable
      BY <1>2, <3>3, Types DEF Push
    <3>5. pushes' = <<Push(cv, chunk.counter)>>
      BY <1>1, <2>1
    <3>6. pushes' \in Seq(Pushable) /\ Len(pushes') = 1 /\ pushes'[1] = Push(cv, chunk.counter)
      BY <3>4, <3>5
    <3>7. Size(cv) = 1 /\ chunk.counter % 1 = 0
      BY <1>2, <3>3, Types DEF Size
    <3>8. Aligned(Push(cv, chunk.counter))
      BY <3>3, <3>7, Pow2Type DEF Aligned, Push
    <3> QED
      BY <1>4, <2>1, <3>1, <3>3, <3>6, <3>8 DEF Push
  <2>2. CASE ~(subtree_len <= CHUNK_LEN)
    <3>1. /\ half \in Pow2 /\ subtree_chunks = half + half /\ half \in Nat
          /\ chunk.counter % half = 0 /\ (chunk.counter + half) % half = 0
      BY <1>2, <1>3, <2>2, HalfAligned, Types, Pow2Type
    <3> HIDE DEF half
    <3>2. /\ half * CHUNK_LEN \in Nat
          /\ subtree_len = half * CHUNK_LEN + half * CHUNK_LEN
      <4>1. \A x, y \in Nat : x * y \in Nat /\ (x + x) * y = x * y + x * y
        OBVIOUS
      <4>2. CHUNK_LEN \in Nat /\ subtree_len = subtree_chunks * CHUNK_LEN
        BY <1>2, <1>3, Types
      <4> QED
        BY <3>1, <4>1, <4>2
    <3>3. /\ chunk.counter \in Nat /\ chunk.counter + half \in Nat
          /\ chunk.counter + half <= MaxLen
          /\ (chunk.counter + half) + half = NextCounter
          /\ (chunk.counter + half) + half <= MaxLen
      BY <1>2, <1>4, <3>1, Types
    <3>4. /\ input_bytes \in Nat /\ input_bytes + half * CHUNK_LEN \in Nat
          /\ input_bytes + half * CHUNK_LEN <= MaxLen
          /\ (input_bytes + half * CHUNK_LEN) + half * CHUNK_LEN <= MaxLen
      <4> DEFINE bytes == half * CHUNK_LEN
      <4>1. bytes \in Nat /\ subtree_len = bytes + bytes /\ input_bytes \in Nat
            /\ MaxLen \in Nat
        BY <1>2, <3>2, Types
      <4> HIDE DEF bytes
      <4>2. /\ input_bytes \in Nat /\ input_bytes + bytes \in Nat
            /\ input_bytes + bytes <= MaxLen /\ (input_bytes + bytes) + bytes <= MaxLen
        BY <1>4, <4>1
      <4> QED
        BY <4>2 DEF bytes
    <3>5. /\ pair[1] = CompleteCV(mode, chunk.counter, half, input_bytes)
          /\ pair[2] = CompleteCV(mode, chunk.counter + half, half,
                                  input_bytes + half * CHUNK_LEN)
      BY DEF SubtreePair, half
    <3>6. /\ pair[1] \in CVs /\ pair[1].lo = chunk.counter
          /\ pair[1].hi = chunk.counter + half /\ Size(pair[1]) = half
      <4> HIDE DEF pair
      <4>1. /\ mode \in Modes /\ chunk.counter \in Nat /\ half \in Nat /\ input_bytes \in Nat
            /\ chunk.counter + half <= MaxLen /\ input_bytes + half * CHUNK_LEN <= MaxLen
        BY <1>2, <3>1, <3>3, <3>4, Types
      <4> QED
        BY <3>5, <4>1, CompleteCVType
    <3>7. /\ pair[2] \in CVs /\ pair[2].lo = chunk.counter + half
          /\ pair[2].hi = NextCounter /\ Size(pair[2]) = half
      <4> HIDE DEF pair
      <4> DEFINE mid == chunk.counter + half
                 from == input_bytes + half * CHUNK_LEN
      <4>1. /\ mode \in Modes /\ mid \in Nat /\ half \in Nat /\ from \in Nat
            /\ mid + half <= MaxLen /\ from + half * CHUNK_LEN <= MaxLen
            /\ mid + half = NextCounter
        BY <1>2, <3>1, <3>3, <3>4, Types
      <4>2. pair[2] = CompleteCV(mode, mid, half, from)
        BY <3>5
      <4> HIDE DEF mid, from
      <4>3. /\ CompleteCV(mode, mid, half, from) \in CVs
            /\ CompleteCV(mode, mid, half, from).lo = mid
            /\ CompleteCV(mode, mid, half, from).hi = mid + half
            /\ Size(CompleteCV(mode, mid, half, from)) = half
        BY <4>1, CompleteCVType
      <4>4. pair[2] \in CVs /\ pair[2].lo = mid /\ pair[2].hi = NextCounter /\ Size(pair[2]) = half
        BY <4>1, <4>2, <4>3
      <4> QED
        BY <4>4 DEF mid
    <3> HIDE DEF pair
    <3> DEFINE first == Push(pair[1], chunk.counter)
               second == Push(pair[2], chunk.counter + half)
    <3>8. first \in Pushable /\ second \in Pushable
      BY <1>2, <3>3, <3>6, <3>7, Types DEF Push
    <3>9. Aligned(first) /\ Aligned(second)
      BY <3>1, <3>6, <3>7 DEF Aligned, Push
    <3>10. first.cv = pair[1] /\ first.counter = chunk.counter
           /\ second.cv = pair[2] /\ second.counter = chunk.counter + half
      BY DEF Push
    <3>11. pushes' = <<first, second>>
      BY <1>1, <2>2
    <3> HIDE DEF first, second
    <3>12. /\ pushes' \in Seq(Pushable) /\ Len(pushes') = 2
           /\ pushes'[1] = first /\ pushes'[2] = second
      BY <3>8, <3>11
    <3> QED
      BY <2>2, <3>6, <3>7, <3>9, <3>10, <3>12
  <2> QED
    BY <2>1, <2>2
<1> HIDE DEF lone, pair, cv, half
<1>6. NextCounter' = NextCounter /\ subtree_len' = subtree_len
  BY <1>1 DEF NextCounter, subtree_chunks, subtree_len
<1>7. Len(pushes') # 0 /\ Len(pushes') \in Nat
  BY <1>5
<1>8. TypeOK'
  BY <1>1, <1>2, <1>5 DEF TypeOK, cv_stack_len
<1>9. InputAccounted'
  BY <1>1, <1>2 DEF InputAccounted
<1>10. StackCanonical' /\ Indexed(cv_stack)'
  BY <1>1 DEF IInv, StackCanonical, Canonical, Indexed
<1>11. Places'
  BY <1>1, <1>7 DEF IInv, Places
<1>12. Covering'
  <2>1. Head(pushes') = pushes'[1]
    BY <1>5, <1>7
  <2> QED
    BY <1>1, <1>5, <2>1 DEF IInv, Covering, Covered, MergeCount
<1>13. Pending'
  BY <1>1, <1>2, <1>5, <1>6 DEF Pending, Aligned
<1>14. NeverAlone' /\ MergedBetween'
  BY <1>1, <1>2, Types DEF NeverAlone, MergedBetween
<1> QED
  BY <1>8, <1>9, <1>10, <1>11, <1>12, <1>13, <1>14 DEF IInv

\* The tail goes to the chunk, and the stack is left to be settled.
LEMMA AbsorbTailKeeps ==
  ASSUME IInv, AbsorbTail
  PROVE  IInv'
<1>1. /\ pc = "subtrees" /\ ~(input_len > CHUNK_LEN)
      /\ input_bytes' = input_bytes + input_len /\ input_len' = 0
      /\ IF input_len > 0
         THEN chunk' = Absorb(chunk, input_bytes, input_len) /\ pc' = "settle"
         ELSE pc' = "idle" /\ chunk' = chunk
      /\ UNCHANGED <<mode, cv_stack, pushes, cvs_remaining, output>>
  BY DEF AbsorbTail, MoreThanAChunk
<1>2. TypeOK /\ InputAccounted /\ chunk.len = 0 /\ Len(pushes) = 0 /\ cvs_remaining = 0
  BY <1>1, Len(pushes) \in Nat DEF IInv, TypeOK, Places
<1>3. /\ chunk'.counter = chunk.counter /\ chunk'.len = input_len
      /\ chunk'.len > 0 => chunk'.at = input_bytes
      /\ chunk' \in [counter : 0..MaxLen, at : 0..MaxLen, len : 0..CHUNK_LEN]
  <2>1. /\ input_bytes \in 0..MaxLen
        /\ chunk \in [counter : 0..MaxLen, at : 0..MaxLen, len : 0..CHUNK_LEN]
    BY <1>2 DEF TypeOK
  <2>2. input_len \in 0..CHUNK_LEN
    BY <1>1, <1>2, Types
  <2>3. CASE input_len > 0
    BY <1>1, <1>2, <2>1, <2>2, <2>3 DEF Absorb
  <2>4. CASE ~(input_len > 0)
    BY <1>1, <1>2, <2>1, <2>2, <2>4
  <2> QED
    BY <2>3, <2>4
<1>4. /\ input_bytes' = chunk.counter * CHUNK_LEN + input_len
      /\ input_bytes = chunk.counter * CHUNK_LEN
      /\ input_bytes' + input_len' <= MaxLen /\ input_bytes' \in 0..MaxLen
  <2> DEFINE done == chunk.counter * CHUNK_LEN
  <2>1. done \in Nat /\ input_bytes = done + chunk.len /\ input_bytes + input_len <= MaxLen
    BY <1>2, Accounting
  <2>2. input_len \in Nat /\ MaxLen \in Nat /\ input_bytes' = input_bytes + input_len
        /\ input_len' = 0
    BY <1>1, <1>2, Types
  <2> HIDE DEF done
  <2>3. /\ input_bytes' = done + input_len /\ input_bytes = done
        /\ input_bytes' + input_len' <= MaxLen /\ input_bytes' \in 0..MaxLen
    BY <1>2, <2>1, <2>2
  <2> QED
    BY <2>3 DEF done
<1>5. TypeOK'
  BY <1>1, <1>2, <1>3, <1>4, Types DEF TypeOK, cv_stack_len
<1>6. InputAccounted'
  BY <1>3, <1>4 DEF InputAccounted
<1>7. StackCanonical' /\ Indexed(cv_stack)'
  BY <1>1 DEF IInv, StackCanonical, Canonical, Indexed
<1>8. Places'
  BY <1>1, <1>2, <1>3 DEF Places
<1>9. Covering'
  BY <1>1, <1>3 DEF IInv, Covering, Covered, MergeCount
<1>10. Pending'
  BY <1>1 DEF Pending
<1>11. NeverAlone'
  <2>1. chunk'.len = 0 => input_len = 0
    BY <1>3
  <2> QED
    BY <1>1, <1>2, <2>1 DEF IInv, NeverAlone
<1>12. MergedBetween'
  <2>1. pc' = "idle" => ~(chunk'.len > 0)
    BY <1>1, <1>3
  <2> QED
    BY <1>1, <2>1 DEF MergedBetween
<1> QED
  BY <1>5, <1>6, <1>7, <1>8, <1>9, <1>10, <1>11, <1>12 DEF IInv

\* A pass of hasher_merge_cv_stack's loop joins two subtrees of equal size.
LEMMA MergeCVKeeps ==
  ASSUME IInv, MergeCV
  PROVE  IInv'
<1> DEFINE n == Len(cv_stack)
           parent == parent_output(mode, cv_stack[n - 1], cv_stack[n])
           cv == output_chaining_value(parent)
<1>1. /\ pc \in {"push", "settle"} /\ n > popcnt(MergeCount)
      /\ cv_stack' = Append(SubSeq(cv_stack, 1, n - 2), cv)
      /\ UNCHANGED <<mode, chunk, pc, input_bytes, input_len, pushes,
                     cvs_remaining, output>>
  BY DEF MergeCV, JoinTop, Joined, cv_stack_len, post_merge_stack_len
<1>2. /\ TypeOK /\ Canonical(cv_stack) /\ Indexed(cv_stack)
      /\ Covered(cv_stack) = MergeCount /\ cvs_remaining = 0
      /\ cv_stack \in Seq(CVs) /\ mode \in Modes
  BY <1>1, Types DEF IInv, StackCanonical, Covering, Places
<1>3. n >= 2 /\ Size(cv_stack[n]) = Size(cv_stack[n - 1])
  BY <1>1, <1>2, ExcessMeansEqual
<1>4. n \in 1..n /\ n - 1 \in 1..n /\ n \in Nat
  BY <1>2, <1>3
<1>5. cv \in CVs /\ cv.lo = cv_stack[n - 1].lo /\ cv.hi = cv_stack[n].hi
  <2>1. cv_stack[n - 1] \in CVs /\ cv_stack[n] \in CVs
    BY <1>2, <1>4
  <2>2. parent \in Outputs /\ parent.lo = cv_stack[n - 1].lo /\ parent.hi = cv_stack[n].hi
    BY <1>2, <2>1, ParentOutputType
  <2> QED
    BY <2>2, OutputCVType
<1> HIDE DEF cv
<1>6. /\ cv_stack' \in Seq(CVs) /\ Canonical(cv_stack') /\ Indexed(cv_stack')
      /\ Len(cv_stack') = n - 1 /\ Covered(cv_stack') = Covered(cv_stack)
  BY <1>1, <1>2, <1>3, <1>5, JoinKeeps
<1>7. TypeOK'
  <2>1. cvs_remaining' \in 0..Len(cv_stack')
    BY <1>1, <1>2, <1>3, <1>4, <1>6
  <2> QED
    BY <1>1, <1>2, <1>6, <2>1 DEF TypeOK, cv_stack_len
<1>8. InputAccounted'
  BY <1>1 DEF IInv, InputAccounted
<1>9. StackCanonical' /\ Indexed(cv_stack)'
  BY <1>6 DEF StackCanonical, Canonical, Indexed
<1>10. Places'
  BY <1>1 DEF IInv, Places
<1>11. Covering'
  BY <1>1, <1>2, <1>6 DEF Covering, Covered, MergeCount
<1>12. Pending'
  <2>1. NextCounter' = NextCounter /\ subtree_len' = subtree_len
    BY <1>1 DEF NextCounter, subtree_chunks, subtree_len
  <2>2. Len(cv_stack') # 0
    <3> HIDE DEF n
    <3> QED
      BY <1>3, <1>4, <1>6
  <2> QED
    BY <1>1, <2>1, <2>2 DEF IInv, Pending, Aligned
<1>13. NeverAlone' /\ MergedBetween'
  <2>1. CASE pc = "push"
    <3>1. ~(chunk.len = 0 /\ input_len = 0)
      <4>1. chunk.len = 0 => input_len > CHUNK_LEN
        BY <2>1 DEF IInv, Pending
      <4> QED
        BY <1>2, <4>1, Types
    <3> QED
      BY <1>1, <2>1, <3>1 DEF NeverAlone, MergedBetween
  <2>2. CASE pc = "settle"
    <3>1. chunk.len # 0
      BY <1>2, <2>2, Types DEF IInv, Places
    <3> QED
      BY <1>1, <2>2, <3>1 DEF NeverAlone, MergedBetween
  <2> QED
    BY <1>1, <2>1, <2>2
<1> QED
  BY <1>7, <1>8, <1>9, <1>10, <1>11, <1>12, <1>13 DEF IInv

\* hasher_push_cv puts the next subtree on a merged stack.
LEMMA PushCVKeeps ==
  ASSUME IInv, PushCV
  PROVE  IInv'
<1> DEFINE n == Len(cv_stack)
           k == Len(pushes)
           cv == Head(pushes).cv
           Pushable == [cv : CVs, counter : 0..MaxLen]
<1>1. /\ pc = "push" /\ n <= popcnt(MergeCount)
      /\ cv_stack' = Append(cv_stack, cv) /\ pushes' = Tail(pushes)
      /\ IF k = 1 THEN Advance
                  ELSE UNCHANGED <<chunk, input_bytes, input_len, pc>>
      /\ UNCHANGED <<mode, cvs_remaining, output>>
  BY DEF PushCV, cv_stack_len, post_merge_stack_len
<1>2. /\ TypeOK /\ InputAccounted /\ Canonical(cv_stack) /\ Indexed(cv_stack)
      /\ Covered(cv_stack) = Head(pushes).counter /\ MergeCount = Head(pushes).counter
      /\ cvs_remaining = 0 /\ cv_stack \in Seq(CVs) /\ mode \in Modes
      /\ pushes \in Seq(Pushable)
  BY <1>1, Types DEF IInv, StackCanonical, Covering, Places, MergeCount, TypeOK
<1>3. /\ k \in {1, 2}
      /\ \A i \in 1..k : Aligned(pushes[i])
      /\ k = 2 => pushes[2].counter = pushes[1].cv.hi /\ chunk.len = 0
      /\ pushes[k].cv.hi = NextCounter
      /\ chunk.len > 0 => chunk.len = CHUNK_LEN /\ input_len > 0
      /\ chunk.len = 0 => input_len > CHUNK_LEN
      /\ chunk.len = 0 /\ k = 1 /\ n = 0 => subtree_len <= CHUNK_LEN
  BY <1>1 DEF IInv, Pending
<1>4. /\ 1 \in 1..k /\ Head(pushes) = pushes[1] /\ pushes[1] \in Pushable
      /\ Tail(pushes) \in Seq(Pushable) /\ Len(Tail(pushes)) = k - 1
      /\ k = 2 => Tail(pushes)[1] = pushes[2]
  <2>1. pushes # <<>>
    BY <1>3
  <2>2. /\ Tail(pushes) \in Seq(Pushable) /\ Len(Tail(pushes)) = k - 1
        /\ \A i \in 1..Len(Tail(pushes)) : Tail(pushes)[i] = pushes[i + 1]
        /\ Head(pushes) \in Pushable
    <3> HIDE DEF Pushable
    <3> QED
      BY <1>2, <2>1, HeadTailProperties
  <2>3. Head(pushes) = pushes[1]
    BY <1>2, <2>1
  <2> HIDE DEF k, Pushable
  <2>4. 1 \in 1..k /\ (k = 2 => 1 \in 1..(k - 1) /\ 1 + 1 = 2)
    BY <1>3
  <2> QED
    BY <2>2, <2>3, <2>4
<1>5. /\ cv \in CVs /\ cv.lo = Covered(cv_stack) /\ Size(cv) \in Pow2
      /\ cv.lo % Size(cv) = 0 /\ cv = pushes[1].cv
  BY <1>2, <1>3, <1>4 DEF Aligned
<1> HIDE DEF k, cv, Pushable
<1>6. Merged(cv_stack) /\ popcnt(Covered(cv_stack)) = n
  BY <1>1, <1>2, NoExcessMeansMerged
<1>7. /\ cv_stack' \in Seq(CVs) /\ Canonical(cv_stack') /\ Indexed(cv_stack')
      /\ Len(cv_stack') = n + 1 /\ Covered(cv_stack') = cv.hi
  BY <1>1, <1>2, <1>5, <1>6, PushKeeps
<1>8. StackCanonical' /\ Indexed(cv_stack)'
  BY <1>7 DEF StackCanonical, Canonical, Indexed
<1>9. n \in Nat /\ cvs_remaining' \in 0..Len(cv_stack')
  BY <1>1, <1>2, <1>7
<1>10. CASE k = 2
  <2>1. /\ UNCHANGED <<chunk, input_bytes, input_len, pc>>
        /\ pushes' = Tail(pushes) /\ Len(pushes') = 1 /\ pushes'[1] = pushes[2]
        /\ chunk.len = 0 /\ pushes' \in Seq(Pushable)
    <3>1. k # 1 /\ k - 1 = 1
      BY <1>10
    <3>2. UNCHANGED <<chunk, input_bytes, input_len, pc>>
      BY <1>1, <3>1
    <3>3. pushes' = Tail(pushes) /\ chunk.len = 0
      BY <1>1, <1>3, <1>10
    <3>4. Len(Tail(pushes)) = 1 /\ Tail(pushes)[1] = pushes[2] /\ Tail(pushes) \in Seq(Pushable)
      BY <1>4, <1>10, <3>1
    <3> QED
      BY <3>2, <3>3, <3>4
  <2>2. TypeOK'
    BY <1>1, <1>2, <1>4, <1>7, <1>9, <2>1 DEF TypeOK, cv_stack_len, Pushable
  <2>3. InputAccounted'
    BY <1>2, <2>1 DEF InputAccounted
  <2>4. Places'
    <3>1. Len(pushes') # 0 /\ pc' = "push" /\ cvs_remaining' = 0
      BY <1>1, <1>2, <2>1
    <3> QED
      BY <3>1 DEF Places
  <2>5. Covering'
    <3>1. Head(pushes') = pushes'[1]
      <4>1. ASSUME pushes' = <<>> PROVE FALSE
        <5>1. Len(<<>>) = 0
          OBVIOUS
        <5>2. Len(pushes') = 1
          BY <2>1
        <5> QED
          BY <4>1, <5>1, <5>2
      <4> QED
        BY <2>1, <4>1
    <3> QED
      BY <1>1, <1>3, <1>5, <1>7, <1>10, <2>1, <3>1 DEF Covering, MergeCount
  <2>6. Pending'
    <3>1. NextCounter' = NextCounter
      BY <2>1 DEF NextCounter, subtree_chunks, subtree_len
    <3>2. Len(cv_stack') # 0
      BY <1>7, <1>9
    <3>3. /\ \A i \in 1..Len(pushes') : Aligned(pushes'[i])
          /\ pushes'[1].cv.hi = NextCounter'
      <4>1. 2 \in 1..k /\ \A i \in 1..1 : i = 1
        BY <1>10
      <4>2. Aligned(pushes[2]) /\ pushes[2].cv.hi = NextCounter
        BY <1>3, <1>10, <4>1
      <4> QED
        BY <2>1, <3>1, <4>1, <4>2
    <3>4. chunk' = chunk /\ input_len' = input_len
      BY <2>1
    <3> QED
      BY <1>3, <2>1, <3>2, <3>3, <3>4 DEF Pending
  <2>7. NeverAlone' /\ MergedBetween'
    BY <1>1, <1>2, <1>3, <2>1, Types DEF NeverAlone, MergedBetween
  <2> QED
    BY <1>8, <2>2, <2>3, <2>4, <2>5, <2>6, <2>7 DEF IInv
<1>11. CASE k = 1
  <2> DEFINE read == IF chunk.len > 0 THEN 0 ELSE subtree_len
  <2>1. /\ chunk' = EmptyChunk(NextCounter) /\ pc' = "subtrees"
        /\ input_bytes' = input_bytes + read /\ input_len' = input_len - read
        /\ pushes' = Tail(pushes) /\ Len(pushes') = 0
    BY <1>1, <1>4, <1>11 DEF Advance
  <2>2. /\ NextCounter \in Nat /\ NextCounter <= MaxLen
        /\ read \in Nat /\ read <= input_len
        /\ input_bytes + read = NextCounter * CHUNK_LEN
    BY <1>2, <1>3, NextCounterFacts
  <2>3. chunk'.counter = NextCounter /\ chunk'.len = 0
    BY <2>1 DEF EmptyChunk
  <2>4. chunk.len = 0 /\ n = 0 => read <= CHUNK_LEN
    BY <1>3, <1>11
  <2> HIDE DEF read
  <2>5. /\ input_bytes' \in 0..MaxLen /\ input_len' \in 0..MaxLen
        /\ input_bytes' + input_len' <= MaxLen
    <3>1. /\ input_bytes \in Nat /\ input_len \in Nat /\ MaxLen \in Nat
          /\ input_bytes + input_len <= MaxLen
      BY <1>2, Types, Accounting
    <3> QED
      BY <2>1, <2>2, <3>1
  <2>6. TypeOK'
    <3>1. chunk' \in [counter : 0..MaxLen, at : 0..MaxLen, len : 0..CHUNK_LEN]
      BY <1>2, <2>1, <2>2, Types DEF EmptyChunk
    <3> QED
      BY <1>1, <1>2, <1>4, <1>7, <1>9, <2>1, <2>5, <3>1 DEF TypeOK, cv_stack_len, Pushable
  <2>7. InputAccounted'
    <3> DEFINE next == NextCounter * CHUNK_LEN
    <3>1. next \in Nat
      BY <1>2, <2>2, Types
    <3>2. input_bytes' = next + 0
      <4> HIDE DEF next
      <4>1. input_bytes' = next
        BY <2>1, <2>2 DEF next
      <4> QED
        BY <3>1, <4>1
    <3> QED
      BY <2>3, <2>5, <3>2 DEF InputAccounted
  <2>8. Places'
    BY <1>1, <1>2, <2>1, <2>3 DEF Places
  <2>9. Covering'
    BY <1>3, <1>5, <1>7, <1>11, <2>1, <2>3 DEF Covering, MergeCount
  <2>10. Pending' /\ MergedBetween'
    BY <2>1 DEF Pending, MergedBetween
  <2>11. NeverAlone'
    <3> SUFFICES ASSUME input_len' = 0, Len(cv_stack') = 1 PROVE FALSE
      BY DEF NeverAlone
    <3>1. n = 0 /\ read = input_len
      <4>1. input_len \in Nat
        BY <1>2, Types
      <4>2. input_len - read = 0 /\ n + 1 = 1
        BY <1>7, <2>1
      <4> HIDE DEF n
      <4> QED
        BY <1>9, <2>2, <4>1, <4>2
    <3>2. chunk.len > 0 => read = 0 /\ input_len > 0
      BY <1>3 DEF read
    <3>3. chunk.len = 0 => input_len <= CHUNK_LEN /\ input_len > CHUNK_LEN
      BY <1>3, <2>4, <3>1
    <3> QED
      BY <1>2, <3>1, <3>2, <3>3, Types
  <2> QED
    BY <1>8, <2>6, <2>7, <2>8, <2>9, <2>10, <2>11 DEF IInv
<1> QED
  BY <1>3, <1>10, <1>11

\* The call ends with one entry per 1 bit of the chunk counter.
LEMMA SettledKeeps ==
  ASSUME IInv, Settled
  PROVE  IInv'
<1>1. /\ pc = "settle" /\ pc' = "idle" /\ Len(cv_stack) <= popcnt(MergeCount)
      /\ UNCHANGED <<mode, chunk, cv_stack, input_bytes, input_len, pushes,
                     cvs_remaining, output>>
  BY DEF Settled, cv_stack_len, post_merge_stack_len
<1>2. /\ TypeOK /\ Canonical(cv_stack) /\ Indexed(cv_stack)
      /\ Covered(cv_stack) = MergeCount /\ MergeCount = chunk.counter
      /\ chunk.len > 0 /\ cv_stack \in Seq(CVs)
  BY <1>1, Types DEF IInv, StackCanonical, Covering, Places, MergeCount
<1>3. Merged(cv_stack)
  BY <1>1, <1>2, NoExcessMeansMerged
<1>4. TypeOK'
  BY <1>1, <1>2 DEF TypeOK, cv_stack_len
<1>5. InputAccounted' /\ StackCanonical' /\ Indexed(cv_stack)'
  BY <1>1 DEF IInv, InputAccounted, StackCanonical, Canonical, Indexed
<1>6. Places'
  BY <1>1 DEF IInv, Places
<1>7. Covering'
  BY <1>1, <1>2 DEF Covering, Covered, MergeCount
<1>8. Pending' /\ NeverAlone'
  BY <1>1, <1>2, Types DEF Pending, NeverAlone
<1>9. MergedBetween'
  BY <1>1, <1>3 DEF MergedBetween, Merged
<1> QED
  BY <1>4, <1>5, <1>6, <1>7, <1>8, <1>9 DEF IInv

\* finalize reads the stack from the top and leaves it as it is.
LEMMA FinalizeKeeps ==
  ASSUME IInv, Finalize \/ RollUp
  PROVE  IInv'
<1> DEFINE n == Len(cv_stack)
<1>1. /\ pc \in {"idle", "rollup"} /\ pc' \in {"idle", "rollup"}
      /\ UNCHANGED <<mode, chunk, cv_stack, input_bytes, input_len, pushes>>
  BY DEF IInv, Places, Finalize, RollUp
<1>2. /\ TypeOK /\ InputAccounted /\ cv_stack \in Seq(CVs) /\ mode \in Modes
      /\ n \in Nat /\ Covered(cv_stack) = chunk.counter
      /\ input_len = 0 /\ Len(pushes) = 0
  <2>1. TypeOK /\ InputAccounted /\ Covering /\ Places
    BY DEF IInv
  <2>2. Len(pushes) = 0
    BY <1>1, <2>1 DEF Places
  <2> QED
    BY <1>1, <2>1, <2>2, Types DEF Covering, MergeCount, Places
<1>3. \* the output, and what is left to roll up
      /\ output' \in Outputs
      /\ cvs_remaining' \in 0..n
      /\ pc' = "idle" => cvs_remaining' = 0
  <2>1. CASE Finalize /\ (n = 0 \/ chunk.len > 0)
    <3>1. chunk.counter < MaxLen
      <4>1. CASE n = 0
        BY <1>2, <4>1, Types, Pow2Type DEF Covered
      <4>2. CASE chunk.len > 0
        BY <1>2, <4>2, Accounting
      <4> QED
        BY <2>1, <4>1, <4>2
    <3>2. chunk_output(mode, chunk) \in Outputs
      BY <1>2, <3>1, Types, ChunkOutputType
    <3>3. output' = chunk_output(mode, chunk)
      BY <2>1 DEF Finalize, cv_stack_len
    <3>4. cvs_remaining' \in {0, n} /\ (n = 0 => cvs_remaining' = 0) /\ (n # 0 => pc' = "rollup")
      BY <2>1 DEF Finalize, cv_stack_len, IInv, Places
    <3> QED
      BY <1>2, <3>2, <3>3, <3>4
  <2>2. CASE Finalize /\ n # 0 /\ ~(chunk.len > 0)
    <3>1. n # 1
      BY <1>2, <2>2, Types DEF IInv, NeverAlone
    <3>2. n >= 2 /\ n - 2 \in 0..n /\ n \in 1..n /\ n - 1 \in 1..n
      <4> HIDE DEF n
      <4> QED
        BY <1>2, <2>2, <3>1
    <3>3. cv_stack[n - 1] \in CVs /\ cv_stack[n] \in CVs
      BY <1>2, <3>2
    <3>4. output' = parent_output(mode, cv_stack[n - 1], cv_stack[n])
          /\ cvs_remaining' = n - 2 /\ pc' = "rollup"
      BY <2>2 DEF Finalize, cv_stack_len
    <3> QED
      BY <1>2, <3>2, <3>3, <3>4, ParentOutputType
  <2>3. CASE RollUp
    <3>1. pc = "rollup" /\ output \in Outputs /\ cvs_remaining \in 0..n
      BY <1>2, <2>3 DEF IInv, Places, RollUp, TypeOK, cv_stack_len
    <3>2. CASE cvs_remaining > 0
      <4>1. /\ output' = parent_output(mode, cv_stack[cvs_remaining],
                                       output_chaining_value(output))
            /\ cvs_remaining' = cvs_remaining - 1 /\ pc' = "rollup"
        BY <2>3, <3>1, <3>2 DEF RollUp
      <4>2. cv_stack[cvs_remaining] \in CVs
        BY <1>2, <3>1, <3>2
      <4>3. output_chaining_value(output) \in CVs
        BY <3>1, OutputCVType
      <4> QED
        BY <1>2, <3>1, <3>2, <4>1, <4>2, <4>3, ParentOutputType
    <3>3. CASE ~(cvs_remaining > 0)
      BY <2>3, <3>1, <3>3 DEF RollUp
    <3> QED
      BY <3>2, <3>3
  <2> QED
    BY <2>1, <2>2, <2>3
<1>4. TypeOK'
  BY <1>1, <1>2, <1>3 DEF TypeOK, cv_stack_len
<1>5. InputAccounted' /\ StackCanonical' /\ Indexed(cv_stack)'
  BY <1>1 DEF IInv, InputAccounted, StackCanonical, Canonical, Indexed
<1>6. Places'
  BY <1>1, <1>2, <1>3 DEF Places
<1>7. Covering'
  BY <1>1, <1>2 DEF Covering, Covered, MergeCount
<1>8. Pending' /\ NeverAlone'
  BY <1>1 DEF IInv, Pending, NeverAlone
<1>9. MergedBetween'
  BY <1>1 DEF IInv, MergedBetween, Merged
<1> QED
  BY <1>4, <1>5, <1>6, <1>7, <1>8, <1>9 DEF IInv

\* Nothing changes, and the invariant stays.
LEMMA StutterKeeps ==
  ASSUME IInv, UNCHANGED vars
  PROVE  IInv'
BY DEF vars, IInv, TypeOK, InputAccounted, StackCanonical, Canonical, Indexed, Places,
   Covering, Covered, MergeCount, Pending, Aligned, NextCounter, subtree_chunks, subtree_len,
   NeverAlone, MergedBetween, Merged, cv_stack_len

\* The invariant is inductive.
THEOREM Invariant == Spec => []IInv
<1>1. IInv /\ [Next]_vars => IInv'
  <2> SUFFICES ASSUME IInv, [Next]_vars PROVE IInv'
    OBVIOUS
  <2>1. CASE \E m \in Modes : HasherInit(m)
    BY <2>1, RestartKeeps
  <2>2. CASE Reset
    BY <2>2, RestartKeeps
  <2>3. CASE \E n \in 1..MaxLen : Update(n)
    BY <2>3, UpdateKeeps
  <2>4. CASE Finalize
    BY <2>4, FinalizeKeeps
  <2>5. CASE FillChunk
    BY <2>5, FillChunkKeeps
  <2>6. CASE HashSubtree
    BY <2>6, HashSubtreeKeeps
  <2>7. CASE AbsorbTail
    BY <2>7, AbsorbTailKeeps
  <2>8. CASE MergeCV
    BY <2>8, MergeCVKeeps
  <2>9. CASE PushCV
    BY <2>9, PushCVKeeps
  <2>10. CASE Settled
    BY <2>10, SettledKeeps
  <2>11. CASE RollUp
    BY <2>11, FinalizeKeeps
  <2>12. CASE UNCHANGED vars
    BY <2>12, StutterKeeps
  <2> QED
    BY <2>1, <2>2, <2>3, <2>4, <2>5, <2>6, <2>7, <2>8, <2>9, <2>10, <2>11, <2>12
       DEF Next, Running
<1> QED
  BY InitHolds, <1>1, PTL DEF Spec
-----------------------------------------------------------------------------
(***************************************************************************)
(* The properties.                                                         *)
(***************************************************************************)
\* The fields of the hasher and the locals of a call keep their types, and
\* every index into cv_stack is within it.
THEOREM TypeCorrect == Spec => []TypeOK
<1>1. IInv => TypeOK
  BY DEF IInv
<1> QED
  BY Invariant, <1>1, PTL

\* No byte is lost, read twice or hashed under another chunk's counter.
THEOREM AllInputAccounted == Spec => []InputAccounted
<1>1. IInv => InputAccounted
  BY DEF IInv
<1> QED
  BY Invariant, <1>1, PTL

\* The smaller-above-larger order of the stack.
THEOREM StackAlwaysCanonical == Spec => []StackCanonical
<1>1. IInv => StackCanonical
  BY DEF IInv
<1> QED
  BY Invariant, <1>1, PTL

\* The popcount rule leaves no two subtrees of equal size where a push or
\* the roll-up of finalize relies on it.
THEOREM AlwaysMergedWhenNeeded == Spec => []MergedWhenNeeded
<1>1. IInv => MergedWhenNeeded
  <2> SUFFICES ASSUME IInv PROVE MergedWhenNeeded
    OBVIOUS
  <2>1. ASSUME pc = "push", cv_stack_len <= post_merge_stack_len
        PROVE  Merged(cv_stack)
    <3>1. /\ Canonical(cv_stack) /\ Indexed(cv_stack) /\ cv_stack \in Seq(CVs)
          /\ Len(cv_stack) <= popcnt(Covered(cv_stack))
      BY <2>1, Types DEF IInv, StackCanonical, Covering, cv_stack_len, post_merge_stack_len
    <3> QED
      BY <3>1, NoExcessMeansMerged
  <2>2. ASSUME pc = "idle", chunk.len > 0
        PROVE  Merged(cv_stack)
    BY <2>2 DEF IInv, MergedBetween
  <2> QED
    BY <2>1, <2>2 DEF MergedWhenNeeded
<1> QED
  BY Invariant, <1>1, PTL

\* cv_stack never overflows: the chunks below the top entry have one 1 bit
\* per entry below it, and there are at most MAX_DEPTH of them.
THEOREM StackAlwaysFits == Spec => []StackFits
<1>1. IInv => StackFits
  <2> SUFFICES ASSUME IInv PROVE StackFits
    OBVIOUS
  <2> DEFINE n == Len(cv_stack)
             lo == cv_stack[n].lo
             Room == {p \in Pow2 : p * CHUNK_LEN <= MaxLen}
  <2>1. /\ TypeOK /\ InputAccounted /\ Canonical(cv_stack) /\ Indexed(cv_stack)
        /\ cv_stack \in Seq(CVs) /\ n \in Nat /\ cv_stack_len = n
    BY Types DEF IInv, StackCanonical
  <2>2. CASE n = 0
    BY <2>1, <2>2, DepthAssumption DEF StackFits
  <2>3. CASE n # 0
    <3>1. n \in 1..n
      <4> HIDE DEF n
      <4> QED
        BY <2>1, <2>3
    <3>2. popcnt(lo) = n - 1 /\ lo \in Nat /\ lo <= Covered(cv_stack)
      BY <2>1, <2>3, <3>1, CVType, Pow2Type DEF Indexed, Covered, Canonical
    <3>3. Covered(cv_stack) \in Nat /\ Covered(cv_stack) * CHUNK_LEN <= MaxLen
      \* the chunks on the stack were read
      <4>1. CASE pc # "push"
        <5> DEFINE done == chunk.counter * CHUNK_LEN
        <5>1. done \in Nat /\ input_bytes = done + chunk.len /\ input_bytes + input_len <= MaxLen
          BY <2>1, Accounting
        <5>2. chunk.len \in Nat /\ input_len \in Nat /\ MaxLen \in Nat
          BY <2>1, Types
        <5> HIDE DEF done
        <5>3. done <= MaxLen
          BY <5>1, <5>2
        <5>4. Covered(cv_stack) = chunk.counter
          BY <4>1 DEF IInv, Covering, MergeCount
        <5> QED
          BY <2>1, <5>3, <5>4, Types DEF done
      <4>2. CASE pc = "push"
        <5> DEFINE next == NextCounter * CHUNK_LEN
                   here == Covered(cv_stack) * CHUNK_LEN
        <5>1. /\ Len(pushes) \in {1, 2}
              /\ \A i \in 1..Len(pushes) : Aligned(pushes[i])
              /\ Len(pushes) = 2 => pushes[2].counter = pushes[1].cv.hi
              /\ pushes[Len(pushes)].cv.hi = NextCounter
              /\ chunk.len > 0 => chunk.len = CHUNK_LEN
              /\ chunk.len = 0 => input_len > CHUNK_LEN
          BY <4>2 DEF IInv, Pending
        <5>0. pushes \in Seq([cv : CVs, counter : 0..MaxLen])
          BY <2>1 DEF TypeOK
        <5>2. Covered(cv_stack) = pushes[1].counter
          <6>1. pushes # <<>>
            BY <5>1
          <6>2. Head(pushes) = pushes[1]
            BY <5>0, <6>1
          <6> QED
            BY <4>2, <6>2 DEF IInv, Covering, MergeCount
        <5>3. /\ NextCounter \in Nat
              /\ \E read \in Nat : read <= input_len /\ input_bytes + read = next
          BY <2>1, <5>1, NextCounterFacts
        <5>4. next <= MaxLen /\ next \in Nat
          <6> HIDE DEF next
          <6>1. /\ input_bytes \in Nat /\ input_len \in Nat /\ MaxLen \in Nat
                /\ input_bytes + input_len <= MaxLen
            BY <2>1, Types, Accounting
          <6> QED
            BY <5>3, <6>1
        <5>5. \A i \in 1..Len(pushes) :
                /\ pushes[i].cv.lo \in Nat /\ pushes[i].cv.hi \in Nat
                /\ pushes[i].counter = pushes[i].cv.lo
                /\ pushes[i].counter <= pushes[i].cv.hi
          <6> SUFFICES ASSUME NEW i \in 1..Len(pushes)
                       PROVE  /\ pushes[i].cv.lo \in Nat /\ pushes[i].cv.hi \in Nat
                              /\ pushes[i].counter = pushes[i].cv.lo
                              /\ pushes[i].counter <= pushes[i].cv.hi
            OBVIOUS
          <6>1. pushes[i].cv \in CVs
            <7>1. pushes[i] \in [cv : CVs, counter : 0..MaxLen]
              BY <5>0, ElementOfSeq
            <7> QED
              BY <7>1
          <6>2. /\ pushes[i].cv.lo \in Nat /\ pushes[i].cv.hi \in Nat
                /\ pushes[i].counter = pushes[i].cv.lo
                /\ Size(pushes[i].cv) \in Nat
            <7>1. pushes[i].cv.lo \in 0..MaxLen /\ pushes[i].cv.hi \in 0..MaxLen
              BY <6>1 DEF CVs
            <7>2. Aligned(pushes[i])
              BY <5>1
            <7> QED
              BY <7>1, <7>2, Pow2Type DEF Aligned
          <6> QED
            BY <6>2 DEF Size
        <5>6. Covered(cv_stack) \in Nat /\ Covered(cv_stack) <= NextCounter
          <6>1. CASE Len(pushes) = 1
            BY <5>1, <5>2, <5>5, <6>1
          <6>2. CASE Len(pushes) = 2
            <7>1. 1 \in 1..Len(pushes) /\ 2 \in 1..Len(pushes)
              BY <6>2
            <7> QED
              BY <5>1, <5>2, <5>5, <6>2, <7>1
          <6> QED
            BY <5>1, <6>1, <6>2
        <5>7. here <= next /\ here \in Nat
          BY <2>1, <5>3, <5>6, Types
        <5> HIDE DEF next, here
        <5>8. here <= MaxLen
          BY <2>1, <5>4, <5>7, Types
        <5> QED
          BY <5>6, <5>8 DEF here
      <4> QED
        BY <4>1, <4>2
    <3> HIDE DEF lo
    <3>4. BitsOf(lo) \subseteq Room
      <4> SUFFICES ASSUME NEW p \in Pow2, (lo \div p) % 2 = 1
                   PROVE  p * CHUNK_LEN <= MaxLen
        BY DEF BitsOf
      <4>1. p \in Nat \ {0} /\ CHUNK_LEN \in Nat \ {0} /\ MaxLen \in Nat
        BY Pow2Type
      <4>2. lo \div p # 0 /\ lo \div p \in Nat /\ lo = p * (lo \div p) + (lo % p)
            /\ lo % p \in Nat
        <5>1. lo \div p \in Nat /\ lo % p \in 0..(p-1) /\ lo = p * (lo \div p) + (lo % p)
          BY <3>2, <4>1, DivisionOf
        <5>2. lo \div p # 0
          <6> DEFINE k == lo \div p
          <6>1. k % 2 = 1
            OBVIOUS
          <6> HIDE DEF k
          <6>2. k # 0
            BY <6>1
          <6> QED
            BY <6>2 DEF k
        <5> QED
          BY <5>1, <5>2
      <4>3. p <= p * (lo \div p)
        BY <4>1, <4>2, ProductGrows
      <4>4. p <= lo
        <5> DEFINE whole == p * (lo \div p)
        <5>1. whole \in Nat
          BY <4>1, <4>2
        <5> HIDE DEF whole
        <5> QED
          BY <4>1, <4>2, <4>3, <5>1, <3>2 DEF whole
      <4>5. p <= Covered(cv_stack)
        BY <3>2, <3>3, <4>1, <4>4
      <4>6. p * CHUNK_LEN <= Covered(cv_stack) * CHUNK_LEN
        BY <3>3, <4>1, <4>5
      <4> DEFINE a == p * CHUNK_LEN
                 b == Covered(cv_stack) * CHUNK_LEN
      <4>7. a \in Nat /\ b \in Nat /\ a <= b /\ b <= MaxLen
        BY <3>3, <4>1, <4>6
      <4> HIDE DEF a, b
      <4>8. a <= MaxLen
        BY <4>1, <4>7
      <4> QED
        BY <4>8 DEF a
    <3>5. IsFiniteSet(Room)
      <4>1. Room \subseteq 1..MaxLen /\ 1 \in Int /\ MaxLen \in Int
        BY Pow2Type
      <4> QED
        BY <4>1, FS_Interval, FS_Subset
    <3>6. Cardinality(BitsOf(lo)) <= Cardinality(Room)
      BY <3>4, <3>5, FS_Subset
    <3>7. Cardinality(Room) \in Nat /\ popcnt(lo) \in Nat
      BY <3>2, <3>5, FS_CardinalityType, BitsOfFinite
    <3>8. n - 1 <= MAX_DEPTH
      <4> HIDE DEF Room, n
      <4>1. n - 1 <= Cardinality(Room)
        BY <3>2, <3>6 DEF popcnt
      <4>2. Cardinality(Room) <= MAX_DEPTH /\ MAX_DEPTH \in Nat
        BY DepthAssumption DEF Room
      <4> QED
        BY <2>1, <3>7, <4>1, <4>2
    <3> QED
      <4> HIDE DEF n
      <4> QED
        BY <2>1, <3>8, DepthAssumption DEF StackFits
  <2> QED
    BY <2>2, <2>3
<1> QED
  BY Invariant, <1>1, PTL

\* finalize always has a pair to start from when there is no partial chunk.
THEOREM AlwaysAPair == Spec => []PairToStartFrom
<1>1. IInv => PairToStartFrom
  BY Types DEF IInv, NeverAlone, Places, PairToStartFrom, cv_stack_len
<1> QED
  BY Invariant, <1>1, PTL
-----------------------------------------------------------------------------
(***************************************************************************)
(* The nodes of the chaining values.                                       *)
(***************************************************************************)
\* A chaining value is that of the complete subtree of its chunks.
Complete(m, cv) == cv.nodes = SubtreeNodes(m, cv.lo, Size(cv))

\* An output_t is that of the message's tree from some chunk on.
IsSuffix(m, o, len) ==
  /\ o.lo \in Nat
  /\ o.lo < ChunkCount(len)
  /\ o.hi = ChunkCount(len)
  /\ o.top = SuffixTop(m, o.lo, len)
  /\ o.top \notin o.below
  /\ o.below \cup {o.top} = Suffix(m, o.lo, len)

\* A chunk by itself is a complete subtree.
LEMMA ChunkComplete ==
  ASSUME NEW m \in Modes, NEW ch, ch.counter \in Nat, ch.len = CHUNK_LEN,
         ch.at = ch.counter * CHUNK_LEN
  PROVE  Complete(m, output_chaining_value(chunk_output(m, ch)))
<1> DEFINE cv == output_chaining_value(chunk_output(m, ch))
           c == ch.counter
<1>1. cv.lo = c /\ cv.hi = c + 1 /\ cv.nodes = {ChunkNode(m, c, c * CHUNK_LEN, CHUNK_LEN)}
  BY DEF output_chaining_value, chunk_output
<1> HIDE DEF cv
<1>2. Size(cv) = 1 /\ 1 \in Pow2 /\ c % 1 = 0
  BY <1>1, Pow2Type DEF Size
<1> SUFFICES ASSUME NEW node
             PROVE  node \in SubtreeNodes(m, c, 1) <=> node = ChunkNode(m, c, c * CHUNK_LEN, CHUNK_LEN)
  BY <1>1, <1>2 DEF Complete, cv
<1>3. c..(c + 1 - 1) = {c} /\ \A p \in Pow2 : ~(c + 2 * p <= c + 1)
  BY Pow2Type
<1>4. OfSubtree(node, m, c, 1) <=> node = ChunkNode(m, c, c * CHUNK_LEN, CHUNK_LEN)
  BY <1>3 DEF OfSubtree
<1> QED
  BY <1>2, <1>4, InSubtree

\* The last chunk of a message is the end of its tree.
LEMMA ChunkIsSuffix ==
  ASSUME NEW m \in Modes, NEW ch, ch.counter \in Nat, ch.len \in 0..CHUNK_LEN,
         ch.at = ch.counter * CHUNK_LEN, ch.len > 0 \/ ch.counter = 0
  PROVE  IsSuffix(m, chunk_output(m, ch), ch.counter * CHUNK_LEN + ch.len)
<1> DEFINE o == chunk_output(m, ch)
           c == ch.counter
           len == c * CHUNK_LEN + ch.len
           node == ChunkNode(m, c, c * CHUNK_LEN, len - c * CHUNK_LEN)
<1>1. CHUNK_LEN \in Nat \ {0}
  BY Pow2Type
<1>2. ChunkCount(len) = c + 1
  BY CountOf
<1>3. len \in Nat /\ len - c * CHUNK_LEN = ch.len
  BY <1>1
<1>4. o.lo = c /\ o.hi = c + 1 /\ o.below = {} /\ o.top = node
  BY <1>3 DEF chunk_output
<1>5. SuffixTop(m, c, len) = node
  BY <1>2 DEF SuffixTop
<1>6. Suffix(m, c, len) = {node}
  BY <1>2, <1>3, SuffixLast
<1> HIDE DEF o, node
<1> QED
  BY <1>2, <1>4, <1>5, <1>6 DEF IsSuffix, o

\* The parent of a complete subtree and of what follows it to the end of the
\* message is the top of both.
LEMMA ParentIsSuffix ==
  ASSUME NEW m \in Modes, NEW len \in Nat, NEW left \in CVs, NEW right \in CVs,
         Complete(m, left), Size(left) \in Pow2, left.lo % (2 * Size(left)) = 0,
         right.lo = left.hi, right.hi = ChunkCount(len), right.lo < right.hi,
         right.hi - right.lo <= Size(left), right.nodes = Suffix(m, right.lo, len)
  PROVE  IsSuffix(m, parent_output(m, left, right), len)
<1> DEFINE o == parent_output(m, left, right)
           lo == left.lo
           s == Size(left)
           N == ChunkCount(len)
           node == ParentNode(m, lo, lo + s, N)
<1>1. lo \in Nat /\ s \in Nat \ {0} /\ right.lo = lo + s /\ left.nodes = SubtreeNodes(m, lo, s)
  <2>1. lo \in 0..MaxLen /\ left.hi \in 0..MaxLen /\ MaxLen \in Nat
    BY Pow2Type DEF CVs
  <2>2. lo \in Nat /\ left.hi \in Nat /\ s \in Nat \ {0}
    BY <2>1, Pow2Type
  <2> QED
    BY <2>2 DEF Size, Complete
<1>2. N \in Nat /\ lo + s < N /\ N <= lo + 2 * s
  BY <1>1, ChunkCountFacts
<1>3. o.lo = lo /\ o.hi = N /\ o.below = SubtreeNodes(m, lo, s) \cup Suffix(m, lo + s, len)
      /\ o.top = node
  BY <1>1 DEF parent_output
<1>4. SuffixTop(m, lo, len) = node
  BY <1>1, <1>2, TopOfJoin
<1>5. Suffix(m, lo, len) = SubtreeNodes(m, lo, s) \cup Suffix(m, lo + s, len) \cup {node}
  <2>1. s \in Pow2 /\ lo \in Nat /\ lo % (2 * s) = 0 /\ lo + s < N /\ N <= lo + 2 * s
    BY <1>1, <1>2
  <2> HIDE DEF s, lo
  <2> QED
    BY <2>1, SuffixJoin
<1>6. node \notin SubtreeNodes(m, lo, s)
  <2>1. lo % s = 0
    <3>1. (2 * s) % s = 0 /\ 2 * s \in Nat \ {0}
      BY <1>1, MultipleMod, 2 * s = s * 2
    <3> QED
      BY <1>1, <3>1, ModTransitive
  <2>2. ~OfSubtree(node, m, lo, s)
    <3>1. \A c \in lo..(lo + s - 1), p \in Pow2 : c + 2 * p <= lo + s => c + 2 * p # N
      BY <1>1, <1>2, Pow2Type
    <3> QED
      BY <3>1 DEF OfSubtree, ChunkNode, ParentNode
  <2> QED
    BY <1>1, <2>1, <2>2, InSubtree
<1>7. node \notin Suffix(m, lo + s, len)
  <2>1. ~OfSuffix(node, m, lo + s, len)
    <3>1. \A c \in (lo + s)..(N - 1) : c # lo
      BY <1>1, <1>2
    <3> QED
      BY <3>1 DEF OfSuffix, ChunkNode, ParentNode
  <2> QED
    BY <1>1, <2>1, InSuffix, lo + s \in Nat
<1>8. lo < N
  BY <1>1, <1>2
<1> HIDE DEF o, node, N, s
<1> QED
  BY <1>1, <1>3, <1>4, <1>5, <1>6, <1>7, <1>8 DEF IsSuffix, o, N

\* The chaining value of an output is of what the output is of.
LEMMA SuffixCV ==
  ASSUME NEW m \in Modes, NEW len \in Nat, NEW o \in Outputs, IsSuffix(m, o, len)
  PROVE  /\ output_chaining_value(o).lo = o.lo
         /\ output_chaining_value(o).hi = ChunkCount(len)
         /\ output_chaining_value(o).nodes = Suffix(m, o.lo, len)
BY DEF IsSuffix, output_chaining_value

\* An output of all of the message is the answer.
LEMMA SuffixIsAnswer ==
  ASSUME NEW m \in Modes, NEW len \in Nat, NEW o \in Outputs, IsSuffix(m, o, len), o.lo = 0
  PROVE  o = RefOutput(m, len)
<1>1. o.top = RefRoot(m, len) /\ o.below \cup {o.top} = RefNodes(m, len) /\ o.top \notin o.below
  BY SuffixFromStart DEF IsSuffix
<1>2. o.below = RefNodes(m, len) \ {RefRoot(m, len)}
  BY <1>1
<1>3. o = [lo |-> o.lo, hi |-> o.hi, below |-> o.below, top |-> o.top]
  BY DEF Outputs
<1> QED
  BY <1>1, <1>2, <1>3 DEF IsSuffix, RefOutput
-----------------------------------------------------------------------------
(***************************************************************************)
(* The inductive invariant of what is compressed.                          *)
(***************************************************************************)
\* Every chaining value is that of the complete subtree of its chunks.
AllComplete ==
  /\ \A i \in 1..Len(cv_stack) : Complete(mode, cv_stack[i])
  /\ \A i \in 1..Len(pushes) : Complete(mode, pushes[i].cv)

\* An empty chunk starts nowhere, and only finalize leaves an answer.
Fresh == chunk.len = 0 => chunk.at = 0
Silent == pc \notin {"idle", "rollup"} => output = NoOutput

\* What finalize has rolled up is the end of the message's tree from the
\* chunk on where the next entry of the stack ends, and that entry is at
\* least as large.
RolledUp ==
  pc = "rollup" =>
    /\ IsSuffix(mode, output, input_bytes)
    /\ output.lo = IF cvs_remaining = 0 THEN 0 ELSE cv_stack[cvs_remaining].hi
    /\ cvs_remaining > 0 => output.hi - output.lo <= Size(cv_stack[cvs_remaining])
    /\ cvs_remaining = Len(cv_stack) => chunk.len > 0

TreeInv == AllComplete /\ Fresh /\ Silent /\ RolledUp

\* Nothing is compressed at first.
LEMMA InitTree == Init => TreeInv
<1> SUFFICES ASSUME Init PROVE TreeInv
  OBVIOUS
<1>1. Len(cv_stack) = 0 /\ Len(pushes) = 0 /\ pc = "idle" /\ chunk.at = 0
  BY DEF Init, EmptyChunk
<1> QED
  BY <1>1 DEF TreeInv, AllComplete, Fresh, Silent, RolledUp

\* A new or a reset hasher has nothing compressed either.
LEMMA RestartTree ==
  ASSUME IInv, TreeInv, (\E m \in Modes : HasherInit(m)) \/ Reset
  PROVE  TreeInv'
<1>1. /\ cv_stack' = <<>> /\ pushes' = pushes /\ pc = "idle" /\ pc' = "idle"
      /\ chunk' = EmptyChunk(0)
  BY DEF HasherInit, Reset
<1>2. Len(cv_stack') = 0 /\ Len(pushes') = 0 /\ chunk'.at = 0
  <2>1. ~(Len(pushes) # 0)
    BY <1>1 DEF IInv, Places
  <2> QED
    BY <1>1, <2>1 DEF EmptyChunk
<1> QED
  BY <1>1, <1>2 DEF TreeInv, AllComplete, Fresh, Silent, RolledUp

\* A call to update only brings input.
LEMMA UpdateTree ==
  ASSUME TreeInv, NEW n \in 1..MaxLen, Update(n)
  PROVE  TreeInv'
<1>1. /\ pc' \in {"fill", "subtrees"} /\ output' = NoOutput
      /\ UNCHANGED <<mode, chunk, cv_stack, pushes>>
  BY DEF Update
<1> QED
  BY <1>1 DEF TreeInv, AllComplete, Fresh, Silent, RolledUp

\* The chunk that is completed is pushed as the leaf it is.
LEMMA FillChunkTree ==
  ASSUME IInv, TreeInv, FillChunk
  PROVE  TreeInv'
<1> DEFINE take == Take(CHUNK_LEN - chunk.len, input_len)
           filled == Absorb(chunk, input_bytes, take)
           cv == output_chaining_value(chunk_output(mode, filled))
<1>1. /\ pc = "fill" /\ chunk' = filled
      /\ IF input_len - take > 0
         THEN pushes' = <<Push(cv, chunk.counter)>> /\ pc' = "push"
         ELSE pc' = "idle" /\ pushes' = pushes
      /\ UNCHANGED <<mode, cv_stack, output>>
  BY DEF FillChunk
<1>2. /\ TypeOK /\ InputAccounted /\ chunk.len > 0 /\ input_len > 0
      /\ chunk.at = chunk.counter * CHUNK_LEN /\ output = NoOutput
  BY <1>1 DEF IInv, Places, InputAccounted, TreeInv, Silent
<1>3. /\ take \in Nat
      /\ input_len - take > 0 => chunk.len + take = CHUNK_LEN
  BY <1>2, Types DEF Take
<1> HIDE DEF take
<1>4. /\ filled.counter = chunk.counter /\ filled.at = chunk.at
      /\ filled.len = chunk.len + take /\ filled.len # 0
  BY <1>2, <1>3, Types DEF Absorb
<1> HIDE DEF filled
<1>5. AllComplete'
  <2>1. CASE input_len - take > 0
    <3>1. Complete(mode, cv)
      BY <1>2, <1>3, <1>4, <2>1, ChunkComplete, Types
    <3> HIDE DEF cv
    <3>2. Len(pushes') = 1 /\ pushes'[1].cv = cv
      BY <1>1, <2>1 DEF Push
    <3> QED
      BY <1>1, <3>1, <3>2 DEF TreeInv, AllComplete
  <2>2. CASE ~(input_len - take > 0)
    BY <1>1, <2>2 DEF TreeInv, AllComplete
  <2> QED
    BY <2>1, <2>2
<1> QED
  BY <1>1, <1>2, <1>4, <1>5 DEF TreeInv, Fresh, Silent, RolledUp

\* A subtree is compressed whole, and its two halves are pushed.
LEMMA HashSubtreeTree ==
  ASSUME IInv, TreeInv, HashSubtree
  PROVE  TreeInv'
<1> DEFINE lone == Absorb(chunk, input_bytes, subtree_len)
           pair == SubtreePair(mode, chunk.counter, input_bytes, subtree_chunks)
           cv == output_chaining_value(chunk_output(mode, lone))
           half == subtree_chunks \div 2
<1>1. /\ pc = "subtrees" /\ pc' = "push" /\ input_len > CHUNK_LEN
      /\ pushes' = IF subtree_len <= CHUNK_LEN
                   THEN <<Push(cv, chunk.counter)>>
                   ELSE <<Push(pair[1], chunk.counter),
                          Push(pair[2], chunk.counter + half)>>
      /\ UNCHANGED <<mode, chunk, cv_stack, output>>
  BY DEF HashSubtree, MoreThanAChunk
<1>2. /\ TypeOK /\ InputAccounted /\ chunk.len = 0
      /\ input_bytes = chunk.counter * CHUNK_LEN
  <2>1. TypeOK /\ InputAccounted /\ chunk.len = 0
    BY <1>1 DEF IInv, Places
  <2>2. chunk.counter * CHUNK_LEN \in Nat /\ input_bytes = chunk.counter * CHUNK_LEN + chunk.len
    BY <2>1, Accounting
  <2> QED
    BY <2>1, <2>2
<1>3. /\ subtree_len = subtree_chunks * CHUNK_LEN /\ subtree_chunks \in Pow2
      /\ chunk.counter % subtree_chunks = 0
      /\ subtree_len <= CHUNK_LEN <=> subtree_chunks = 1
  <2>1. input_len \in Nat /\ input_len <= MaxLen
    BY <1>2, Types
  <2> QED
    BY <1>1, <1>2, <2>1, SubtreeLenFacts, Types DEF subtree_len, subtree_chunks
<1>4. \A i \in 1..Len(pushes') : Complete(mode, pushes'[i].cv)
  <2>1. CASE subtree_len <= CHUNK_LEN
    <3>1. subtree_len = CHUNK_LEN
      BY <1>2, <1>3, <2>1, Types
    <3>2. lone.counter = chunk.counter /\ lone.at = chunk.counter * CHUNK_LEN /\ lone.len = CHUNK_LEN
      BY <1>2, <3>1, Types DEF Absorb
    <3> HIDE DEF lone
    <3>3. Complete(mode, cv)
      BY <1>2, <3>2, ChunkComplete, Types
    <3> HIDE DEF cv
    <3>4. Len(pushes') = 1 /\ pushes'[1].cv = cv
      BY <1>1, <2>1 DEF Push
    <3> QED
      BY <3>3, <3>4
  <2>2. CASE ~(subtree_len <= CHUNK_LEN)
    <3>1. half \in Nat
      BY <1>2, <1>3, <2>2, HalfAligned, Types, Pow2Type
    <3> HIDE DEF half
    <3>2. /\ pair[1] = CompleteCV(mode, chunk.counter, half, chunk.counter * CHUNK_LEN)
          /\ pair[2] = CompleteCV(mode, chunk.counter + half, half,
                                  (chunk.counter + half) * CHUNK_LEN)
      <4>1. (chunk.counter + half) * CHUNK_LEN = chunk.counter * CHUNK_LEN + half * CHUNK_LEN
        BY <1>2, <3>1, Types
      <4> QED
        BY <1>2, <4>1 DEF SubtreePair, half
    <3> HIDE DEF pair
    <3>3. ASSUME NEW lo \in Nat, NEW c, c = CompleteCV(mode, lo, half, lo * CHUNK_LEN)
          PROVE  Complete(mode, c)
      <4>1. c.lo = lo /\ Size(c) = half
        BY <3>1, <3>3 DEF CompleteCV, Size
      <4> QED
        BY <3>3, <4>1 DEF CompleteCV, Complete, SubtreeNodes
    <3>4. Complete(mode, pair[1]) /\ Complete(mode, pair[2])
      <4>1. chunk.counter \in Nat /\ chunk.counter + half \in Nat
        BY <1>2, <3>1, Types
      <4>2. Complete(mode, pair[1])
        BY <3>2, <3>3, <4>1
      <4>3. Complete(mode, pair[2])
        <5> DEFINE mid == chunk.counter + half
        <5>1. mid \in Nat /\ pair[2] = CompleteCV(mode, mid, half, mid * CHUNK_LEN)
          BY <3>2, <4>1
        <5> HIDE DEF mid
        <5> QED
          BY <3>3, <5>1
      <4> QED
        BY <4>2, <4>3
    <3>5. /\ Len(pushes') = 2
          /\ pushes'[1].cv = pair[1] /\ pushes'[2].cv = pair[2]
      BY <1>1, <2>2 DEF Push
    <3> QED
      BY <3>4, <3>5
  <2> QED
    BY <2>1, <2>2
<1> HIDE DEF lone, pair, cv, half
<1> QED
  BY <1>1, <1>4 DEF TreeInv, AllComplete, Fresh, Silent, RolledUp

\* What is left of the input goes into the chunk.
LEMMA AbsorbTailTree ==
  ASSUME IInv, TreeInv, AbsorbTail
  PROVE  TreeInv'
<1>1. /\ pc = "subtrees" /\ pc' \in {"idle", "settle"}
      /\ IF input_len > 0
         THEN chunk' = Absorb(chunk, input_bytes, input_len)
         ELSE chunk' = chunk
      /\ UNCHANGED <<mode, cv_stack, pushes, output>>
  BY DEF AbsorbTail
<1>2. TypeOK
  BY DEF IInv
<1>3. Fresh'
  <2>1. CASE input_len > 0
    <3>1. chunk'.len = chunk.len + input_len
      BY <1>1, <2>1 DEF Absorb
    <3>2. chunk'.len # 0
      BY <1>2, <2>1, <3>1, Types
    <3> QED
      BY <3>2 DEF Fresh
  <2>2. CASE ~(input_len > 0)
    BY <1>1, <2>2 DEF TreeInv, Fresh
  <2> QED
    BY <2>1, <2>2
<1> QED
  BY <1>1, <1>3 DEF TreeInv, AllComplete, Silent, RolledUp

\* The two entries that merge are the halves of a complete subtree.
LEMMA MergeCVTree ==
  ASSUME IInv, TreeInv, MergeCV
  PROVE  TreeInv'
<1> DEFINE n == Len(cv_stack)
           left == cv_stack[n - 1]
           right == cv_stack[n]
           parent == parent_output(mode, left, right)
           cv == output_chaining_value(parent)
<1>1. /\ pc \in {"push", "settle"} /\ n > popcnt(MergeCount)
      /\ cv_stack' = Append(SubSeq(cv_stack, 1, n - 2), cv)
      /\ UNCHANGED <<mode, chunk, pc, pushes, output>>
  BY DEF MergeCV, JoinTop, Joined, cv_stack_len, post_merge_stack_len
<1>2. /\ TypeOK /\ Canonical(cv_stack) /\ Indexed(cv_stack)
      /\ Covered(cv_stack) = MergeCount /\ cv_stack \in Seq(CVs)
  BY Types DEF IInv, StackCanonical, Covering
<1>3. n >= 2 /\ Size(right) = Size(left)
  BY <1>1, <1>2, ExcessMeansEqual
<1>4. n \in 1..n /\ n - 1 \in 1..n /\ n \in Nat
  BY <1>2, <1>3
<1>5. Complete(mode, cv)
  <2> DEFINE s == Size(right)
             lo == left.lo
  <2>1. 2 * s \in Pow2 /\ lo % (2 * s) = 0 /\ right.hi = lo + 2 * s
    BY <1>2, <1>3, TopPair
  <2>2. s \in Pow2 /\ lo \in Nat /\ right.lo = left.hi /\ left.hi = lo + s /\ s \in Nat
    BY <1>2, <1>3, <1>4, CVType, Pow2Type DEF Canonical
  <2>3. left.nodes = SubtreeNodes(mode, lo, s) /\ right.nodes = SubtreeNodes(mode, lo + s, s)
    BY <1>3, <1>4, <2>2 DEF TreeInv, AllComplete, Complete
  <2>4. /\ cv.lo = lo /\ cv.hi = lo + 2 * s
        /\ cv.nodes = SubtreeNodes(mode, lo, s) \cup SubtreeNodes(mode, lo + s, s)
                        \cup {ParentNode(mode, lo, lo + s, lo + 2 * s)}
    BY <2>1, <2>2, <2>3 DEF output_chaining_value, parent_output
  <2> HIDE DEF s, lo, cv
  <2>5. Size(cv) = 2 * s
    BY <2>2, <2>4 DEF Size
  <2>6. SubtreeNodes(mode, lo, 2 * s) =
          SubtreeNodes(mode, lo, s) \cup SubtreeNodes(mode, lo + s, s)
            \cup {ParentNode(mode, lo, lo + s, lo + 2 * s)}
    BY <2>1, <2>2, CompleteJoin
  <2> QED
    BY <2>4, <2>5, <2>6 DEF Complete
<1> HIDE DEF cv
<1>6. AllComplete'
  <2> DEFINE kept == SubSeq(cv_stack, 1, n - 2)
  <2>1. Len(kept) = n - 2 /\ \A i \in 1..(n - 2) : kept[i] = cv_stack[i]
    <3>1. n - 2 \in Nat
      BY <1>3, <1>4
    <3> QED
      BY <1>2, <3>1
  <2> HIDE DEF kept
  <2>2. Len(cv_stack') = n - 1 /\ cv_stack'[n - 1] = cv
        /\ \A i \in 1..(n - 2) : cv_stack'[i] = cv_stack[i]
    BY <1>1, <1>3, <1>4, <2>1 DEF kept
  <2> QED
    BY <1>1, <1>4, <1>5, <2>2 DEF TreeInv, AllComplete
<1> QED
  BY <1>1, <1>6 DEF TreeInv, Fresh, Silent, RolledUp

\* The next chaining value goes onto the stack as it is.
LEMMA PushCVTree ==
  ASSUME IInv, TreeInv, PushCV
  PROVE  TreeInv'
<1> DEFINE n == Len(cv_stack)
           k == Len(pushes)
           Pushable == [cv : CVs, counter : 0..MaxLen]
<1>1. /\ pc = "push"
      /\ cv_stack' = Append(cv_stack, Head(pushes).cv) /\ pushes' = Tail(pushes)
      /\ IF k = 1 THEN Advance
                  ELSE UNCHANGED <<chunk, input_bytes, input_len, pc>>
      /\ UNCHANGED <<mode, output>>
  BY DEF PushCV
<1>2. /\ cv_stack \in Seq(CVs) /\ pushes \in Seq(Pushable) /\ k \in {1, 2}
  BY <1>1 DEF IInv, TypeOK, Pending
<1>3. /\ 1 \in 1..k /\ Head(pushes) = pushes[1]
      /\ Len(Tail(pushes)) = k - 1
      /\ \A i \in 1..(k - 1) : i + 1 \in 1..k /\ Tail(pushes)[i] = pushes[i + 1]
  <2>1. pushes # <<>>
    BY <1>2
  <2>2. /\ Len(Tail(pushes)) = k - 1
        /\ \A i \in 1..Len(Tail(pushes)) : Tail(pushes)[i] = pushes[i + 1]
    <3> HIDE DEF Pushable
    <3> QED
      BY <1>2, <2>1, HeadTailProperties
  <2>3. Head(pushes) = pushes[1]
    BY <1>2, <2>1
  <2> HIDE DEF k, Pushable
  <2> QED
    BY <1>2, <2>2, <2>3
<1>4. Complete(mode, Head(pushes).cv)
  BY <1>3 DEF TreeInv, AllComplete
<1>5. AllComplete'
  <2>1. /\ Len(cv_stack') = n + 1 /\ cv_stack'[n + 1] = Head(pushes).cv
        /\ \A i \in 1..n : cv_stack'[i] = cv_stack[i]
    BY <1>1, <1>2
  <2>2. \A i \in 1..Len(cv_stack') : Complete(mode, cv_stack'[i])
    <3> SUFFICES ASSUME NEW i \in 1..(n + 1) PROVE Complete(mode, cv_stack'[i])
      BY <2>1
    <3>1. i = n + 1 \/ i \in 1..n
      BY <1>2
    <3> QED
      BY <1>4, <2>1, <3>1 DEF TreeInv, AllComplete
  <2>3. \A i \in 1..Len(pushes') : Complete(mode, pushes'[i].cv)
    BY <1>1, <1>3 DEF TreeInv, AllComplete
  <2> QED
    BY <1>1, <2>2, <2>3 DEF AllComplete
<1>6. CASE k = 1
  <2>1. chunk'.at = 0 /\ pc' = "subtrees"
    BY <1>1, <1>6 DEF Advance, EmptyChunk
  <2> QED
    BY <1>1, <1>5, <2>1 DEF TreeInv, Fresh, Silent, RolledUp
<1>7. CASE k # 1
  BY <1>1, <1>5, <1>7 DEF TreeInv, Fresh, Silent, RolledUp
<1> QED
  BY <1>6, <1>7

\* Between two calls there is nothing left to push.
LEMMA SettledTree ==
  ASSUME TreeInv, Settled
  PROVE  TreeInv'
BY DEF Settled, TreeInv, AllComplete, Fresh, Silent, RolledUp

\* Finalize starts from the last chunk or, without one, from the top pair.
LEMMA FinalizeTree ==
  ASSUME IInv, TreeInv, Finalize
  PROVE  TreeInv'
<1> DEFINE n == Len(cv_stack)
<1>1. /\ pc = "idle" /\ pc' \in {"idle", "rollup"}
      /\ UNCHANGED <<mode, chunk, cv_stack, input_bytes, input_len, pushes>>
  BY DEF Finalize
<1>2. /\ TypeOK /\ InputAccounted /\ Canonical(cv_stack) /\ cv_stack \in Seq(CVs)
      /\ n \in Nat /\ Covered(cv_stack) = chunk.counter /\ mode \in Modes
      /\ input_bytes = chunk.counter * CHUNK_LEN + chunk.len
      /\ chunk.len > 0 => chunk.at = chunk.counter * CHUNK_LEN
  <2>1. TypeOK /\ InputAccounted /\ StackCanonical /\ Covering
    BY DEF IInv
  <2> QED
    BY <1>1, <2>1, Types DEF Covering, MergeCount, StackCanonical, InputAccounted
<1>3. AllComplete' /\ Fresh' /\ Silent'
  BY <1>1 DEF TreeInv, AllComplete, Fresh, Silent
<1>4. CASE n = 0
  BY <1>1, <1>3, <1>4 DEF Finalize, cv_stack_len, TreeInv, RolledUp
<1>5. CASE n # 0 /\ chunk.len > 0
  <2>1. output' = chunk_output(mode, chunk) /\ cvs_remaining' = n
    BY <1>5 DEF Finalize, cv_stack_len
  <2>2. IsSuffix(mode, output', input_bytes)
    BY <1>2, <1>5, <2>1, Types, ChunkIsSuffix
  <2>3. output'.lo = chunk.counter /\ output'.hi = chunk.counter + 1
    BY <2>1 DEF chunk_output
  <2>4. chunk.counter = cv_stack[n].hi /\ n > 0 /\ n \in 1..n
    BY <1>2, <1>5 DEF Covered
  <2>5. output'.hi - output'.lo <= Size(cv_stack[n])
    <3>1. output'.hi - output'.lo = 1
      BY <1>2, <2>3, Types
    <3>2. Size(cv_stack[n]) \in Pow2
      BY <2>4, <1>2 DEF Canonical
    <3> QED
      BY <3>1, <3>2, Pow2Type
  <2> QED
    BY <1>1, <1>3, <1>5, <2>1, <2>2, <2>3, <2>4, <2>5 DEF TreeInv, RolledUp
<1>6. CASE n # 0 /\ ~(chunk.len > 0)
  <2> DEFINE left == cv_stack[n - 1]
             right == cv_stack[n]
  <2>1. chunk.len = 0 /\ input_len = 0 /\ n # 1
    BY <1>1, <1>2, <1>6, Types DEF IInv, Places, NeverAlone
  <2>2. n \in Nat /\ n >= 2 /\ n \in 1..n /\ n - 1 \in 1..n /\ n > 1 /\ n - 1 # n
    <3> HIDE DEF n
    <3> QED
      BY <1>2, <1>6, <2>1
  <2>3. output' = parent_output(mode, left, right) /\ cvs_remaining' = n - 2
    BY <1>6 DEF Finalize, cv_stack_len
  <2>4. /\ left \in CVs /\ left.lo \in Nat /\ left.hi \in Nat
        /\ Size(left) \in Pow2 /\ Size(left) \in Nat
        /\ right \in CVs /\ right.lo \in Nat /\ right.hi \in Nat
        /\ Size(right) \in Pow2 /\ Size(right) \in Nat \ {0} /\ right.lo % Size(right) = 0
        /\ right.lo = left.hi /\ right.hi = right.lo + Size(right)
        /\ left.hi = left.lo + Size(left)
        /\ Size(right) <= Size(left)
    <3>1. /\ left \in CVs /\ left.lo \in Nat /\ left.hi \in Nat
          /\ right \in CVs /\ right.lo \in Nat /\ right.hi \in Nat
          /\ right.hi = right.lo + Size(right) /\ left.hi = left.lo + Size(left)
      BY <1>2, <2>2, CVType
    <3>2. /\ Size(left) \in Pow2 /\ Size(right) \in Pow2 /\ right.lo % Size(right) = 0
          /\ right.lo = left.hi
          /\ Size(right) < Size(left) \/ Size(right) = Size(left)
      BY <1>2, <2>2 DEF Canonical
    <3> HIDE DEF left, right
    <3> QED
      BY <3>1, <3>2, Pow2Type
  <2>5. right.hi = chunk.counter /\ input_bytes = right.hi * CHUNK_LEN
        /\ input_bytes = (right.lo + Size(right)) * CHUNK_LEN
    <3>1. right.hi = chunk.counter
      BY <1>2, <1>6 DEF Covered
    <3>2. chunk.counter * CHUNK_LEN \in Nat
      BY <1>2, Accounting
    <3> QED
      BY <1>2, <2>1, <2>4, <3>1, <3>2
  <2>6. left.lo % (2 * Size(left)) = 0 /\ (n > 2 => Size(left) < Size(cv_stack[n - 2])
                                                     /\ Size(cv_stack[n - 2]) \in Pow2)
    <3>1. n - 1 = 1 \/ n - 1 > 1
      <4> HIDE DEF n
      <4> QED
        BY <2>2
    <3>2. n - 1 = 1 \/ Size(left) < Size(cv_stack[(n - 1) - 1])
      BY <1>2, <2>2, <3>1 DEF Canonical
    <3>3. n > 2 => n - 2 \in 1..n /\ (n - 1) - 1 = n - 2 /\ n - 1 # 1
      <4> HIDE DEF n
      <4> QED
        BY <2>2
    <3>4. left.lo % (2 * Size(left)) = 0
      <4> DEFINE i == n - 1
      <4>1. i \in 1..n /\ (i = 1 \/ Size(cv_stack[i]) < Size(cv_stack[i - 1]))
        BY <2>2, <3>2
      <4> HIDE DEF i
      <4>2. cv_stack[i].lo % (2 * Size(cv_stack[i])) = 0
        BY <1>2, <4>1, TwiceAligned
      <4> QED
        BY <4>2 DEF i
    <3> QED
      BY <1>2, <3>2, <3>3, <3>4 DEF Canonical
  <2>7. ChunkCount(input_bytes) = right.hi /\ input_bytes \in Nat
    <3>1. right.hi \in Nat \ {0}
      BY <2>4
    <3>2. ChunkCount(right.hi * CHUNK_LEN) = right.hi
      BY <3>1, CountOfWhole
    <3> QED
      BY <1>2, <2>5, <3>2, Types
  <2>8. right.nodes = Suffix(mode, right.lo, input_bytes)
    <3>1. right.nodes = SubtreeNodes(mode, right.lo, Size(right))
      BY <2>2 DEF TreeInv, AllComplete, Complete
    <3>2. Suffix(mode, right.lo, (right.lo + Size(right)) * CHUNK_LEN)
            = SubtreeNodes(mode, right.lo, Size(right))
      BY <2>4, SuffixWhole
    <3> QED
      BY <2>5, <3>1, <3>2
  <2>9. IsSuffix(mode, output', input_bytes)
    <3>1. Complete(mode, left)
      BY <2>2 DEF TreeInv, AllComplete
    <3> HIDE DEF left, right
    <3>2. right.lo < right.hi /\ right.hi - right.lo <= Size(left)
      BY <2>4
    <3> QED
      BY <1>2, <2>3, <2>4, <2>6, <2>7, <2>8, <3>1, <3>2, ParentIsSuffix
  <2>10. output'.lo = left.lo /\ output'.hi = right.hi
    BY <2>3 DEF parent_output
  <2>11. left.lo = IF n = 2 THEN 0 ELSE cv_stack[n - 2].hi
    <3>1. (n - 1) - 1 = n - 2 /\ (n - 1 = 1 <=> n = 2)
      BY <2>2
    <3> QED
      BY <1>2, <2>2, <3>1 DEF Canonical
  <2>12. n > 2 => right.hi - left.lo <= Size(cv_stack[n - 2])
    <3> SUFFICES ASSUME n > 2 PROVE right.hi - left.lo <= Size(cv_stack[n - 2])
      OBVIOUS
    <3> DEFINE t == Size(cv_stack[n - 2])
    <3>1. t \in Pow2 /\ t \in Nat /\ Size(left) < t
      BY <2>6, Pow2Type
    <3> HIDE DEF t, left, right
    <3>2. 2 * Size(left) <= t
      BY <2>4, <3>1, Pow2Double
    <3> QED
      BY <2>4, <3>1, <3>2 DEF t
  <2>13. /\ n - 2 = 0 <=> n = 2
         /\ n - 2 > 0 <=> n > 2
         /\ n - 2 # n
    <3> HIDE DEF n
    <3> QED
      BY <2>2
  <2> HIDE DEF left, right
  <2>14. RolledUp'
    BY <1>1, <2>3, <2>9, <2>10, <2>11, <2>12, <2>13 DEF RolledUp
  <2> QED
    BY <1>3, <2>14 DEF TreeInv
<1> QED
  BY <1>4, <1>5, <1>6

\* Each entry that finalize takes is the left neighbour of what it has.
LEMMA RollUpTree ==
  ASSUME IInv, TreeInv, RollUp
  PROVE  TreeInv'
<1> DEFINE n == Len(cv_stack)
           k == cvs_remaining
           left == cv_stack[k]
           right == output_chaining_value(output)
<1>1. /\ pc = "rollup" /\ pc' \in {"idle", "rollup"}
      /\ UNCHANGED <<mode, chunk, cv_stack, input_bytes, input_len, pushes>>
  BY DEF RollUp
<1>2. /\ TypeOK /\ Canonical(cv_stack) /\ cv_stack \in Seq(CVs) /\ mode \in Modes
      /\ n \in Nat /\ k \in 0..n /\ output \in Outputs /\ input_bytes \in Nat
  BY <1>1, Types DEF IInv, StackCanonical, TypeOK, cv_stack_len, Places
<1>3. AllComplete' /\ Fresh' /\ Silent'
  BY <1>1 DEF TreeInv, AllComplete, Fresh, Silent
<1>4. /\ IsSuffix(mode, output, input_bytes)
      /\ k > 0 => output.lo = left.hi /\ output.hi - output.lo <= Size(left)
      /\ k = n => chunk.len > 0
  BY <1>1, <1>2 DEF TreeInv, RolledUp
<1>5. CASE k = 0
  BY <1>1, <1>3, <1>5 DEF RollUp, TreeInv, RolledUp
<1>6. CASE k # 0
  <2>1. /\ pc' = "rollup" /\ output' = parent_output(mode, left, right)
        /\ cvs_remaining' = k - 1
    BY <1>2, <1>6 DEF RollUp
  <2>2. k \in 1..n /\ k > 0
    BY <1>2, <1>6
  <2>3. /\ left \in CVs /\ left.lo \in Nat /\ left.hi \in Nat
        /\ left.hi = left.lo + Size(left)
        /\ Size(left) \in Pow2 /\ Size(left) \in Nat
        /\ left.lo = IF k = 1 THEN 0 ELSE cv_stack[k - 1].hi
    BY <1>2, <2>2, CVType, Pow2Type DEF Canonical
  <2>4. k > 1 => Size(left) < Size(cv_stack[k - 1]) /\ Size(cv_stack[k - 1]) \in Pow2
    <3> SUFFICES ASSUME k > 1
                 PROVE  Size(left) < Size(cv_stack[k - 1]) /\ Size(cv_stack[k - 1]) \in Pow2
      OBVIOUS
    <3>1. k - 1 \in 1..n
      BY <1>2, <2>2
    <3>2. CASE k = n
      <4>1. Merged(cv_stack)
        BY <1>1, <1>4, <3>2 DEF IInv, MergedBetween
      <4>2. k \in 2..n
        BY <2>2
      <4> QED
        BY <1>2, <3>1, <4>1, <4>2 DEF Merged, Canonical
    <3>3. CASE k # n
      BY <1>2, <2>2, <3>1, <3>3 DEF Canonical
    <3> QED
      BY <3>2, <3>3
  <2>5. left.lo % (2 * Size(left)) = 0
    <3>1. k = 1 \/ k > 1
      BY <2>2
    <3>2. k = 1 \/ Size(cv_stack[k]) < Size(cv_stack[k - 1])
      BY <2>4, <3>1
    <3> HIDE DEF k
    <3> QED
      BY <1>2, <2>2, <3>2, TwiceAligned
  <2>6. right \in CVs /\ right.lo = output.lo /\ right.hi = output.hi
        /\ output.hi = ChunkCount(input_bytes) /\ output.lo < output.hi
        /\ right.nodes = Suffix(mode, right.lo, input_bytes)
    BY <1>2, <1>4, OutputCVType, SuffixCV DEF IsSuffix
  <2>7. Complete(mode, left)
    BY <2>2 DEF TreeInv, AllComplete
  <2> HIDE DEF left, right
  <2>8. IsSuffix(mode, output', input_bytes)
    BY <1>2, <1>4, <2>1, <2>2, <2>3, <2>5, <2>6, <2>7, ParentIsSuffix
  <2>9. output'.lo = left.lo /\ output'.hi = output.hi
    BY <2>1, <2>6 DEF parent_output
  <2>10. k > 1 => output'.hi - output'.lo <= Size(cv_stack[k - 1])
    <3> SUFFICES ASSUME k > 1 PROVE output.hi - left.lo <= Size(cv_stack[k - 1])
      BY <2>9
    <3> DEFINE t == Size(cv_stack[k - 1])
    <3>1. t \in Pow2 /\ t \in Nat /\ Size(left) < t
      BY <2>4, Pow2Type
    <3>2. output.hi \in Nat
      BY <1>2, <2>6, ChunkCountFacts
    <3>3. output.lo = left.hi /\ output.hi - output.lo <= Size(left)
      BY <1>4, <2>2
    <3> HIDE DEF t, k
    <3>4. 2 * Size(left) <= t
      BY <2>3, <3>1, Pow2Double
    <3> QED
      BY <2>3, <3>1, <3>2, <3>3, <3>4 DEF t
  <2>11. /\ k - 1 = 0 <=> k = 1
         /\ k - 1 > 0 <=> k > 1
         /\ k - 1 # n
    <3> HIDE DEF n, k
    <3> QED
      BY <1>2, <2>2
  <2>12. RolledUp'
    BY <1>1, <2>1, <2>3, <2>8, <2>9, <2>10, <2>11 DEF RolledUp
  <2> QED
    BY <1>3, <2>12 DEF TreeInv
<1> QED
  BY <1>5, <1>6

\* A step that changes nothing keeps it.
LEMMA StutterTree ==
  ASSUME TreeInv, UNCHANGED vars
  PROVE  TreeInv'
BY DEF vars, TreeInv, AllComplete, Fresh, Silent, RolledUp

\* Each chaining value in a hasher is that of the complete subtree of its
\* chunks, and what finalize rolls up is an end of the message's tree.
THEOREM TreeInvariant == Spec => [](IInv /\ TreeInv)
<1>1. IInv /\ TreeInv /\ [Next]_vars => TreeInv'
  <2> SUFFICES ASSUME IInv, TreeInv, [Next]_vars PROVE TreeInv'
    OBVIOUS
  <2>1. CASE (\E m \in Modes : HasherInit(m)) \/ Reset
    BY <2>1, RestartTree
  <2>2. CASE \E n \in 1..MaxLen : Update(n)
    BY <2>2, UpdateTree
  <2>3. CASE Finalize
    BY <2>3, FinalizeTree
  <2>4. CASE FillChunk
    BY <2>4, FillChunkTree
  <2>5. CASE HashSubtree
    BY <2>5, HashSubtreeTree
  <2>6. CASE AbsorbTail
    BY <2>6, AbsorbTailTree
  <2>7. CASE MergeCV
    BY <2>7, MergeCVTree
  <2>8. CASE PushCV
    BY <2>8, PushCVTree
  <2>9. CASE Settled
    BY <2>9, SettledTree
  <2>10. CASE RollUp
    BY <2>10, RollUpTree
  <2>11. CASE UNCHANGED vars
    BY <2>11, StutterTree
  <2> QED
    BY <2>1, <2>2, <2>3, <2>4, <2>5, <2>6, <2>7, <2>8, <2>9, <2>10, <2>11
       DEF Next, Running
<1>2. Spec => []IInv
  BY Invariant
<1> QED
  BY InitTree, <1>1, <1>2, PTL DEF Spec
-----------------------------------------------------------------------------
\* The entries below the top of a stack end before it does.
LEMMA BelowCovered ==
  ASSUME NEW stack \in Seq(CVs), Canonical(stack), NEW i \in 1..Len(stack)
  PROVE  /\ Covered(stack) \in Nat
         /\ stack[i].hi <= Covered(stack)
         /\ i # Len(stack) => stack[i].hi < Covered(stack)
         /\ i = 1 <=> stack[i].lo = 0
<1> DEFINE n == Len(stack)
           Bad == {j \in 1..n : stack[j].hi > Covered(stack)}
<1>1. n \in Nat /\ n \in 1..n /\ Covered(stack) = stack[n].hi
  BY DEF Covered
<1>2. ASSUME NEW j \in 1..n
      PROVE  /\ stack[j].lo \in Nat /\ stack[j].hi \in Nat /\ stack[j].lo < stack[j].hi
             /\ j # n => j + 1 \in 1..n /\ stack[j + 1].lo = stack[j].hi
             /\ j # 1 => j - 1 \in 1..n /\ stack[j].lo = stack[j - 1].hi
  <2>1. /\ Size(stack[j]) \in Pow2
        /\ stack[j].lo \in Nat /\ stack[j].hi \in Nat /\ stack[j].hi = stack[j].lo + Size(stack[j])
    BY CVType DEF Canonical
  <2>2. j # n => j + 1 \in 1..n /\ j + 1 # 1 /\ (j + 1) - 1 = j
    BY <1>1
  <2>3. j # 1 => j - 1 \in 1..n
    BY <1>1
  <2> QED
    BY <2>1, <2>2, <2>3, Pow2Type DEF Canonical
<1>3. Bad = {}
  <2> SUFFICES ASSUME Bad # {} PROVE FALSE
    OBVIOUS
  <2>1. Bad \in SUBSET (0..n)
    OBVIOUS
  <2>2. PICK j \in Bad : \A k \in Bad : k <= j
    <3> HIDE DEF Bad
    <3> QED
      BY <1>1, <2>1, GreatestElement
  <2>3. j # n /\ j \in 1..n
    BY <1>1, <1>2, <2>2
  <2>4. j + 1 \in 1..n /\ stack[j + 1].lo = stack[j].hi
    BY <1>2, <2>3
  <2>5. stack[j + 1].hi > Covered(stack)
    <3>1. stack[j].hi > Covered(stack) /\ stack[j].hi = stack[j + 1].lo
      BY <2>2, <2>4
    <3>2. /\ stack[j + 1].lo \in Nat /\ stack[j + 1].hi \in Nat
          /\ stack[j + 1].lo < stack[j + 1].hi /\ Covered(stack) \in Nat
      BY <1>1, <1>2, <2>4
    <3> QED
      BY <3>1, <3>2
  <2>6. j + 1 \in Bad
    BY <2>4, <2>5
  <2> QED
    BY <1>1, <2>2, <2>3, <2>6
<1>4. \A j \in 1..n : stack[j].hi <= Covered(stack)
  <2> SUFFICES ASSUME NEW j \in 1..n PROVE stack[j].hi <= Covered(stack)
    OBVIOUS
  <2>1. stack[j].hi \in Nat /\ Covered(stack) \in Nat /\ ~(stack[j].hi > Covered(stack))
    BY <1>1, <1>2, <1>3
  <2> QED
    BY <2>1
<1>5. ASSUME i # n
      PROVE  stack[i].hi < Covered(stack)
  <2>1. i + 1 \in 1..n /\ stack[i + 1].lo = stack[i].hi
    BY <1>2, <1>5
  <2>2. /\ stack[i + 1].lo < stack[i + 1].hi /\ stack[i + 1].hi <= Covered(stack)
        /\ stack[i + 1].lo \in Nat /\ stack[i + 1].hi \in Nat
    BY <1>2, <1>4, <2>1
  <2>3. Covered(stack) \in Nat
    BY <1>1, <1>2
  <2> QED
    BY <2>1, <2>2, <2>3
<1>6. i = 1 <=> stack[i].lo = 0
  <2>1. i # 1 => stack[i].lo # 0
    BY <1>2
  <2>2. i = 1 => stack[i].lo = 0
    BY DEF Canonical
  <2> QED
    BY <2>1, <2>2
<1> QED
  BY <1>1, <1>2, <1>4, <1>5, <1>6

\* What a subtree of the message has to satisfy to lie below the root
\* whatever follows: it is aligned, and all its bytes were given, with more
\* to come if it starts the message.
Below(cv) ==
  /\ cv \in CVs /\ cv.lo \in Nat /\ Size(cv) \in Pow2 /\ cv.lo % Size(cv) = 0
  /\ cv.hi = cv.lo + Size(cv)
  /\ cv.hi * CHUNK_LEN <= input_bytes + input_len
  /\ cv.lo = 0 => cv.hi * CHUNK_LEN < input_bytes + input_len

\* What is still to push ends below what the message has, or with it if more
\* of the message is to come.
LEMMA PushesWithin ==
  ASSUME IInv, pc = "push"
  PROVE  /\ NextCounter \in Nat
         /\ Covered(cv_stack) < NextCounter
         /\ NextCounter * CHUNK_LEN <= input_bytes + input_len
         /\ \A i \in 1..Len(pushes) : Below(pushes[i].cv)
<1> DEFINE n == Len(cv_stack)
           k == Len(pushes)
           C == Covered(cv_stack)
           next == NextCounter * CHUNK_LEN
           total == input_bytes + input_len
           read == IF chunk.len > 0 THEN 0 ELSE subtree_len
           Pushable == [cv : CVs, counter : 0..MaxLen]
<1>1. /\ TypeOK /\ InputAccounted /\ Canonical(cv_stack) /\ cv_stack \in Seq(CVs)
      /\ pushes \in Seq(Pushable) /\ CHUNK_LEN \in Nat \ {0} /\ input_len \in Nat
      /\ input_bytes \in Nat /\ chunk.len \in Nat /\ n \in Nat
  BY Types DEF IInv, StackCanonical, TypeOK
<1>2. /\ k \in {1, 2}
      /\ \A i \in 1..k : Aligned(pushes[i])
      /\ k = 2 => pushes[2].counter = pushes[1].cv.hi
      /\ pushes[k].cv.hi = NextCounter
      /\ chunk.len > 0 => chunk.len = CHUNK_LEN /\ input_len > 0
      /\ chunk.len = 0 => input_len > CHUNK_LEN
      /\ chunk.len = 0 /\ k = 1 /\ n = 0 => subtree_len <= CHUNK_LEN
  BY DEF IInv, Pending
<1>3. C = pushes[1].counter
  <2>1. pushes # <<>>
    BY <1>2
  <2>2. Head(pushes) = pushes[1]
    BY <1>1, <2>1
  <2> QED
    BY <2>2 DEF IInv, Covering, MergeCount
<1>4. /\ NextCounter \in Nat /\ read \in Nat /\ read <= input_len
      /\ input_bytes + read = next /\ next \in Nat
  BY <1>1, <1>2, NextCounterFacts
<1>5. next <= total /\ total \in Nat /\ (read < input_len => next < total)
  <2> HIDE DEF next, read
  <2> QED
    BY <1>1, <1>4
<1>6. ASSUME NEW i \in 1..k
      PROVE  LET cv == pushes[i].cv
             IN  /\ cv \in CVs /\ cv.lo \in Nat /\ cv.hi \in Nat
                 /\ Size(cv) \in Pow2 /\ cv.lo % Size(cv) = 0
                 /\ cv.lo = pushes[i].counter
                 /\ cv.hi = cv.lo + Size(cv) /\ cv.lo < cv.hi
  <2> DEFINE cv == pushes[i].cv
  <2>1. cv \in CVs
    <3>1. pushes[i] \in Pushable
      <4> HIDE DEF Pushable, k
      <4> QED
        BY <1>1, ElementOfSeq DEF k
    <3> QED
      BY <3>1
  <2>2. Size(cv) \in Pow2 /\ cv.lo % Size(cv) = 0 /\ cv.lo = pushes[i].counter
    BY <1>2 DEF Aligned
  <2> HIDE DEF cv
  <2>3. cv.lo \in Nat /\ cv.hi \in Nat
    <3>1. cv.lo \in 0..MaxLen /\ cv.hi \in 0..MaxLen
      BY <2>1 DEF CVs
    <3> QED
      BY <3>1
  <2>4. cv.hi = cv.lo + Size(cv) /\ cv.lo < cv.hi
    BY <2>2, <2>3, Pow2Type DEF Size
  <2> QED
    BY <2>1, <2>2, <2>3, <2>4 DEF cv
<1>7. /\ 1 \in 1..k /\ k \in 1..k /\ k \in Nat
      /\ k = 2 => 2 \in 1..k
      /\ \A i \in 1..k : i = 1 \/ (i = 2 /\ k = 2)
  BY <1>2
<1>8. /\ C \in Nat /\ C < NextCounter /\ C = pushes[1].cv.lo
      /\ \A i \in 1..k : pushes[i].cv.hi <= NextCounter
      /\ k = 2 => pushes[1].cv.hi < NextCounter
      /\ \A i \in 1..k : pushes[i].cv.lo = 0 => i = 1
  <2>1. CASE k = 1
    BY <1>2, <1>3, <1>4, <1>6, <1>7, <2>1
  <2>2. CASE k = 2
    <3>1. /\ pushes[2].cv.lo = pushes[1].cv.hi /\ pushes[2].cv.hi = NextCounter
          /\ pushes[1].cv.lo < pushes[1].cv.hi /\ pushes[2].cv.lo < pushes[2].cv.hi
          /\ pushes[1].cv.lo \in Nat /\ pushes[2].cv.lo \in Nat
          /\ C = pushes[1].cv.lo
      BY <1>2, <1>3, <1>6, <1>7, <2>2
    <3> QED
      BY <1>4, <1>7, <2>2, <3>1
  <2> QED
    BY <1>2, <2>1, <2>2
<1>9. ASSUME NEW hi \in Nat, hi <= NextCounter
      PROVE  hi * CHUNK_LEN <= total /\ (hi < NextCounter => hi * CHUNK_LEN < total)
  <2> DEFINE here == hi * CHUNK_LEN
  <2>1. here \in Nat /\ here <= next
    BY <1>1, <1>4, <1>9
  <2>2. hi < NextCounter => here < next
    <3> SUFFICES ASSUME hi + 1 <= NextCounter PROVE here < next
      BY <1>4
    <3>1. (hi + 1) * CHUNK_LEN <= next /\ (hi + 1) * CHUNK_LEN = here + CHUNK_LEN
      BY <1>1, <1>4
    <3> HIDE DEF here, next
    <3> QED
      BY <1>1, <1>4, <2>1, <3>1
  <2> HIDE DEF here, next, total
  <2> QED
    BY <1>4, <1>5, <2>1, <2>2 DEF here
<1>10. k = 1 /\ C = 0 => next < total
  <2> SUFFICES ASSUME k = 1, C = 0 PROVE read < input_len
    BY <1>5
  <2>1. CASE chunk.len > 0
    BY <1>2, <2>1
  <2>2. CASE ~(chunk.len > 0)
    <3>1. n = 0
      <4> SUFFICES ASSUME n # 0 PROVE FALSE
        OBVIOUS
      <4>1. n \in 1..n /\ cv_stack[n].hi = 0
        BY <1>1 DEF Covered
      <4>2. cv_stack[n].lo \in Nat /\ cv_stack[n].hi = cv_stack[n].lo + Size(cv_stack[n])
            /\ Size(cv_stack[n]) \in Pow2
        BY <1>1, <4>1, CVType DEF Canonical
      <4> QED
        BY <4>1, <4>2, Pow2Type
    <3>2. chunk.len = 0 /\ read = subtree_len
      BY <1>1, <2>2
    <3> HIDE DEF read
    <3> QED
      BY <1>1, <1>2, <1>4, <3>1, <3>2
  <2> QED
    BY <2>1, <2>2
<1>11. ASSUME NEW i \in 1..k
       PROVE  Below(pushes[i].cv)
  <2> DEFINE cv == pushes[i].cv
  <2>1. cv.hi \in Nat /\ cv.hi <= NextCounter
    BY <1>6, <1>8
  <2>2. cv.hi * CHUNK_LEN <= total
    BY <1>9, <2>1
  <2>3. cv.lo = 0 => cv.hi * CHUNK_LEN < total
    <3> SUFFICES ASSUME cv.lo = 0 PROVE cv.hi * CHUNK_LEN < total
      OBVIOUS
    <3>1. i = 1 /\ C = 0
      BY <1>8
    <3>2. CASE k = 2
      BY <1>8, <1>9, <2>1, <3>1, <3>2
    <3>3. CASE k = 1
      BY <1>2, <1>10, <3>1, <3>3
    <3> QED
      BY <1>2, <3>2, <3>3
  <2>4. /\ cv \in CVs /\ cv.lo \in Nat /\ Size(cv) \in Pow2 /\ cv.lo % Size(cv) = 0
        /\ cv.hi = cv.lo + Size(cv)
    BY <1>6
  <2> QED
    BY <2>2, <2>3, <2>4 DEF Below
<1> QED
  BY <1>4, <1>5, <1>8, <1>11

\* So do the entries of the stack.
LEMMA StackBelow ==
  ASSUME IInv, NEW i \in 1..Len(cv_stack)
  PROVE  Below(cv_stack[i])
<1> DEFINE n == Len(cv_stack)
           hi == cv_stack[i].hi
           C == Covered(cv_stack)
           all == C * CHUNK_LEN
           here == hi * CHUNK_LEN
           total == input_bytes + input_len
<1>1. /\ TypeOK /\ InputAccounted /\ Canonical(cv_stack) /\ cv_stack \in Seq(CVs)
      /\ n \in Nat /\ CHUNK_LEN \in Nat \ {0}
  BY Types DEF IInv, StackCanonical
<1>2. /\ cv_stack[i] \in CVs /\ cv_stack[i].lo \in Nat /\ hi \in Nat
      /\ Size(cv_stack[i]) \in Pow2 /\ cv_stack[i].lo % Size(cv_stack[i]) = 0
      /\ hi = cv_stack[i].lo + Size(cv_stack[i])
  BY <1>1, CVType DEF Canonical
<1>3. C \in Nat /\ hi <= C /\ (i # n => hi < C) /\ (i = 1 <=> cv_stack[i].lo = 0)
  BY <1>1, BelowCovered
<1>4. /\ here \in Nat /\ all \in Nat /\ here <= all
      /\ i # n => here < all
  <2>1. here \in Nat /\ all \in Nat /\ here <= all
    BY <1>1, <1>2, <1>3
  <2>2. hi < C => here < all
    <3> SUFFICES ASSUME hi + 1 <= C PROVE here < all
      BY <1>2, <1>3
    <3>1. (hi + 1) * CHUNK_LEN <= all /\ (hi + 1) * CHUNK_LEN = here + CHUNK_LEN
      BY <1>1, <1>2, <1>3
    <3> HIDE DEF here, all
    <3> QED
      BY <1>1, <2>1, <3>1
  <2> QED
    BY <1>3, <2>1, <2>2
<1>5. total \in Nat /\ all <= total /\ (i = 1 /\ all = total => n # 1)
  <2>1. input_bytes \in Nat /\ input_len \in Nat /\ total \in Nat
    BY <1>1, Types
  <2>2. CASE pc # "push"
    <3>1. C = chunk.counter
      BY <2>2 DEF IInv, Covering, MergeCount
    <3>2. input_bytes = all + chunk.len /\ chunk.len \in Nat
      BY <1>1, <3>1, Accounting, Types
    <3>3. total = all + chunk.len + input_len
      BY <3>2
    <3> HIDE DEF all, total
    <3>4. all = total => chunk.len = 0 /\ input_len = 0
      <4> SUFFICES ASSUME all = all + chunk.len + input_len
                   PROVE  chunk.len = 0 /\ input_len = 0
        BY <3>3
      <4> DEFINE rest == chunk.len
      <4>1. all \in Nat /\ rest \in Nat /\ input_len \in Nat
        BY <1>4, <2>1, <3>2
      <4> HIDE DEF rest
      <4>2. rest = 0 /\ input_len = 0
        BY <4>1 DEF rest
      <4> QED
        BY <4>2 DEF rest
    <3>5. all = total => n # 1
      BY <3>4 DEF IInv, NeverAlone
    <3> QED
      BY <1>4, <2>1, <3>2, <3>3, <3>5
  <2>3. CASE pc = "push"
    <3>1. C < NextCounter /\ NextCounter \in Nat /\ NextCounter * CHUNK_LEN <= total
      BY <2>3, PushesWithin
    <3>2. all < NextCounter * CHUNK_LEN
      <4>1. C + 1 <= NextCounter
        BY <1>3, <3>1
      <4>2. (C + 1) * CHUNK_LEN <= NextCounter * CHUNK_LEN /\ (C + 1) * CHUNK_LEN = all + CHUNK_LEN
        <5> HIDE DEF C
        <5>1. CHUNK_LEN \in Nat /\ C + 1 \in Nat /\ NextCounter \in Nat /\ C \in Nat
          BY <1>1, <1>3, <3>1
        <5> QED
          BY <4>1, <5>1
      <4> DEFINE next == NextCounter * CHUNK_LEN
      <4>3. next \in Nat
        BY <1>1, <3>1
      <4> HIDE DEF all, next
      <4> QED
        BY <1>1, <1>4, <4>2, <4>3 DEF next
    <3> DEFINE next == NextCounter * CHUNK_LEN
    <3>3. next \in Nat
      BY <1>1, <3>1
    <3> HIDE DEF all, total, next
    <3> QED
      BY <1>4, <2>1, <3>1, <3>2, <3>3 DEF next
  <2> QED
    BY <2>2, <2>3
<1>6. here <= total /\ (i = 1 => here < total)
  <2> HIDE DEF here, all, total, n
  <2> QED
    BY <1>1, <1>4, <1>5
<1> QED
  BY <1>2, <1>3, <1>6 DEF Below

\* A complete subtree that is below the root of every longer message.
LEMMA NodesBelow ==
  ASSUME TypeOK, NEW cv, Complete(mode, cv), Below(cv), NEW len \in Nat,
         input_bytes + input_len <= len
  PROVE  cv.nodes \subseteq RefNodes(mode, len) \ {RefRoot(mode, len)}
<1> DEFINE s == Size(cv)
           lo == cv.lo
           here == (lo + s) * CHUNK_LEN
           total == input_bytes + input_len
<1>1. /\ lo \in Nat /\ s \in Pow2 /\ lo % s = 0 /\ cv.nodes = SubtreeNodes(mode, lo, s)
      /\ here <= total /\ (lo = 0 => here < total)
  BY DEF Below, Complete
<1>2. here \in Nat /\ total \in Nat
  BY <1>1, Pow2Type, Types
<1>3. here <= len /\ (lo = 0 => here < len)
  <2>1. total <= len
    OBVIOUS
  <2> HIDE DEF here, total, lo, s
  <2> QED
    BY <1>1, <1>2, <2>1
<1> HIDE DEF s, lo
<1> QED
  BY <1>1, <1>3, SubtreeBelowRoot

\* Lazy merging, for every continuation of the message.
THEOREM AlwaysNothingTooEarly == Spec => []NothingCompressedTooEarly
<1>1. ASSUME IInv, TreeInv
      PROVE  NothingCompressedTooEarly
  <2> SUFFICES ASSUME NEW len \in (input_bytes + input_len)..MaxLen,
                      NEW node \in Compressed
               PROVE  node \in RefNodes(mode, len) \ {RefRoot(mode, len)}
    BY DEF NothingCompressedTooEarly
  <2>1. TypeOK /\ len \in Nat /\ input_bytes + input_len <= len
    BY <1>1, Types DEF IInv
  <2>2. CASE \E i \in 1..Len(cv_stack) : node \in cv_stack[i].nodes
    <3>1. PICK i \in 1..Len(cv_stack) : node \in cv_stack[i].nodes
      BY <2>2
    <3>2. Complete(mode, cv_stack[i]) /\ Below(cv_stack[i])
      BY <1>1, StackBelow DEF TreeInv, AllComplete
    <3> QED
      BY <2>1, <3>1, <3>2, NodesBelow
  <2>3. CASE \E i \in 1..Len(pushes) : node \in pushes[i].cv.nodes
    <3>1. PICK i \in 1..Len(pushes) : node \in pushes[i].cv.nodes
      BY <2>3
    <3>2. pc = "push"
      <4>1. Len(pushes) # 0
        BY <3>1
      <4> QED
        BY <1>1, <4>1 DEF IInv, Places
    <3>3. Complete(mode, pushes[i].cv) /\ Below(pushes[i].cv)
      BY <1>1, <3>2, PushesWithin DEF TreeInv, AllComplete
    <3> QED
      BY <2>1, <3>1, <3>3, NodesBelow
  <2>4. DOMAIN pushes = 1..Len(pushes) /\ cv_stack_len = Len(cv_stack)
    <3>1. pushes \in Seq([cv : CVs, counter : 0..MaxLen])
      BY <2>1 DEF TypeOK
    <3> QED
      BY <3>1 DEF cv_stack_len
  <2> QED
    BY <2>2, <2>3, <2>4 DEF Compressed
<1> QED
  BY TreeInvariant, <1>1, PTL
-----------------------------------------------------------------------------
(***************************************************************************)
(* The hasher implements Blake3Hash.                                       *)
(***************************************************************************)
\* What is left of the message when no call runs.
LEMMA IdleInput ==
  ASSUME IInv, pc \in {"idle", "rollup"}
  PROVE  /\ input_len = 0 /\ input_bytes \in Nat /\ input_bytes + input_len = input_bytes
         /\ mode \in Modes
BY Types DEF IInv, Places

\* An empty stack means that the chunk is the message.
LEMMA LoneChunkIsAnswer ==
  ASSUME IInv, TreeInv, pc = "idle", Len(cv_stack) = 0
  PROVE  chunk_output(mode, chunk) = RefOutput(mode, input_bytes)
<1>1. /\ TypeOK /\ InputAccounted /\ chunk.counter = 0
      /\ input_bytes = chunk.counter * CHUNK_LEN + chunk.len
      /\ chunk.len = 0 => chunk.at = 0
      /\ chunk.len > 0 => chunk.at = chunk.counter * CHUNK_LEN
  BY Types DEF IInv, Covering, Covered, MergeCount, InputAccounted, TreeInv, Fresh
<1>2. chunk.at = chunk.counter * CHUNK_LEN /\ chunk.len \in 0..CHUNK_LEN /\ mode \in Modes
  BY <1>1, Types
<1>3. IsSuffix(mode, chunk_output(mode, chunk), input_bytes)
  BY <1>1, <1>2, ChunkIsSuffix
<1>4. chunk_output(mode, chunk) \in Outputs /\ chunk_output(mode, chunk).lo = 0
  <2>1. 0 < MaxLen
    BY Pow2Type
  <2> QED
    BY <1>1, <1>2, <2>1, Types, ChunkOutputType
<1>5. input_bytes \in Nat
  BY <1>1, Types
<1> HIDE DEF chunk_output
<1> QED
  BY <1>2, <1>3, <1>4, <1>5, SuffixIsAnswer

\* The tree Blake3Hash speaks of is the hasher's.
LEMMA SameAnswer ==
  ASSUME NEW m, NEW l
  PROVE  Hash!RefOutput(m, l) = RefOutput(m, l)
<1>1. Hash!Pow2 = Pow2
  BY DEF Pow2, Hash!Pow2
<1>2. Hash!ChunkCount(l) = ChunkCount(l)
  BY DEF ChunkCount, Hash!ChunkCount
<1>3. ASSUME NEW S
      PROVE  Hash!Max(S) = Max(S) /\ Hash!Min(S) = Min(S)
  BY DEF Max, Hash!Max, Min, Hash!Min
<1>4. ASSUME NEW a, NEW b, NEW c
      PROVE  Hash!ChunkNode(m, a, b, c) = ChunkNode(m, a, b, c)
             /\ Hash!ParentNode(m, a, b, c) = ParentNode(m, a, b, c)
  BY DEF ChunkNode, Hash!ChunkNode, ParentNode, Hash!ParentNode
<1>5. Hash!RefRoot(m, l) = RefRoot(m, l)
  BY <1>1, <1>2, <1>3, <1>4 DEF RefRoot, Hash!RefRoot
<1>6. Hash!RefNodes(m, l) = RefNodes(m, l)
  <2> DEFINE N == ChunkCount(l)
             B(c) == IF c < N - 1 THEN CHUNK_LEN ELSE l - c * CHUNK_LEN
             Pairs == {cp \in (0..(N-1)) \X Pow2 : cp[1] % (2 * cp[2]) = 0 /\ cp[1] + cp[2] < N}
             End(cp) == {cp[1] + 2 * cp[2], N}
  <2>1. Hash!RefNodes(m, l) =
          {Hash!ChunkNode(m, c, c * CHUNK_LEN, B(c)) : c \in 0..(N-1)} \cup
          {Hash!ParentNode(m, cp[1], cp[1] + cp[2], Hash!Min(End(cp))) : cp \in Pairs}
    BY <1>1, <1>2 DEF Hash!RefNodes
  <2>2. RefNodes(m, l) =
          {ChunkNode(m, c, c * CHUNK_LEN, B(c)) : c \in 0..(N-1)} \cup
          {ParentNode(m, cp[1], cp[1] + cp[2], Min(End(cp))) : cp \in Pairs}
    BY DEF RefNodes
  <2> HIDE DEF N, B, Pairs, End
  <2>3. {Hash!ChunkNode(m, c, c * CHUNK_LEN, B(c)) : c \in 0..(N-1)} =
        {ChunkNode(m, c, c * CHUNK_LEN, B(c)) : c \in 0..(N-1)}
    BY <1>4
  <2>4. {Hash!ParentNode(m, cp[1], cp[1] + cp[2], Hash!Min(End(cp))) : cp \in Pairs} =
        {ParentNode(m, cp[1], cp[1] + cp[2], Min(End(cp))) : cp \in Pairs}
    BY <1>3, <1>4
  <2> QED
    BY <2>1, <2>2, <2>3, <2>4
<1> QED
  BY <1>2, <1>5, <1>6 DEF RefOutput, Hash!RefOutput

\* Every step of the hasher is one of Blake3Hash or leaves its state alone.
LEMMA StepImplements ==
  ASSUME IInv, TreeInv, [Next]_vars
  PROVE  [Hash!Next]_(Hash!vars)
<1> DEFINE len == input_bytes + input_len
           result == IF pc = "idle" THEN output ELSE NoOutput
<1>1. CASE \E m \in Modes : HasherInit(m)
  <2>1. PICK m \in Modes : HasherInit(m)
    BY <1>1
  <2>2. mode' = m /\ len' = 0 /\ result' = NoOutput
    BY <2>1, IdleInput DEF HasherInit
  <2> QED
    BY <2>2 DEF Hash!Next, Hash!Start
<1>2. CASE Reset
  <2>1. mode' = mode /\ len' = 0 /\ result' = NoOutput
    BY <1>2, IdleInput DEF Reset
  <2> QED
    BY <2>1 DEF Hash!Next, Hash!Reset
<1>3. CASE \E n \in 1..MaxLen : Update(n)
  <2>1. PICK n \in 1..MaxLen : Update(n)
    BY <1>3
  <2>2. mode' = mode /\ len + n <= MaxLen /\ len' = len + n /\ result' = NoOutput
    BY <2>1, IdleInput DEF Update
  <2> QED
    BY <2>2 DEF Hash!Next, Hash!Update
<1>4. CASE Finalize
  <2>1. pc = "idle" /\ mode' = mode /\ len' = len
    BY <1>4 DEF Finalize
  <2>2. CASE Len(cv_stack) = 0
    <3>1. result' = RefOutput(mode, input_bytes)
      BY <1>4, <2>1, <2>2, LoneChunkIsAnswer DEF Finalize, cv_stack_len
    <3>2. result' = RefOutput(mode, len)
      BY <2>1, <3>1, IdleInput
    <3> QED
      BY <2>1, <3>2, SameAnswer DEF Hash!Next, Hash!Finalize
  <2>3. CASE Len(cv_stack) # 0
    <3>1. result' = NoOutput
      BY <1>4, <2>3 DEF Finalize, cv_stack_len
    <3> QED
      BY <2>1, <3>1 DEF Hash!Next, Hash!BeginFinalize
  <2> QED
    BY <2>2, <2>3
<1>5. CASE RollUp
  <2>1. pc = "rollup" /\ mode' = mode /\ len' = len
    BY <1>5 DEF RollUp
  <2>2. CASE cvs_remaining > 0
    <3>1. result' = result
      BY <1>5, <2>1, <2>2 DEF RollUp
    <3> QED
      BY <2>1, <3>1 DEF Hash!vars
  <2>3. CASE ~(cvs_remaining > 0)
    <3>1. cvs_remaining = 0
      BY <2>3 DEF IInv, TypeOK, cv_stack_len
    <3>2. IsSuffix(mode, output, input_bytes) /\ output.lo = 0 /\ output \in Outputs
      BY <2>1, <3>1 DEF IInv, Places, TreeInv, RolledUp
    <3>3. output = RefOutput(mode, input_bytes)
      BY <2>1, <3>2, IdleInput, SuffixIsAnswer
    <3>4. result' = RefOutput(mode, len)
      BY <1>5, <2>1, <2>3, <3>3, IdleInput DEF RollUp
    <3> QED
      BY <2>1, <3>4, SameAnswer DEF Hash!Next, Hash!Finalize
  <2> QED
    BY <2>2, <2>3
<1>6. CASE FillChunk \/ AbsorbTail
  <2>1. mode' = mode /\ output' = output /\ pc \in {"fill", "subtrees"}
    BY <1>6 DEF FillChunk, AbsorbTail
  <2>2. output = NoOutput
    BY <2>1 DEF TreeInv, Silent
  <2>3. len' = len
    <3>1. input_bytes \in Nat /\ input_len \in Nat /\ chunk.len \in Nat /\ CHUNK_LEN \in Nat
      BY Types DEF IInv
    <3>2. CASE FillChunk
      <4> DEFINE take == Take(CHUNK_LEN - chunk.len, input_len)
      <4>1. take \in Int
        BY <3>1 DEF Take
      <4>2. input_bytes' = input_bytes + take /\ input_len' = input_len - take
        BY <3>2 DEF FillChunk
      <4> HIDE DEF take
      <4> QED
        BY <3>1, <4>1, <4>2
    <3>3. CASE AbsorbTail
      BY <3>1, <3>3 DEF AbsorbTail
    <3> QED
      BY <1>6, <3>2, <3>3
  <2> QED
    BY <2>1, <2>2, <2>3 DEF Hash!vars
<1>7. CASE PushCV
  <2>1. mode' = mode /\ output' = output /\ pc = "push" /\ pc' \in {"push", "subtrees"}
    BY <1>7 DEF PushCV, Advance
  <2>2. output = NoOutput
    BY <2>1 DEF TreeInv, Silent
  <2>3. len' = len
    <3>1. CASE Len(pushes) = 1
      <4> DEFINE read == IF chunk.len > 0 THEN 0 ELSE subtree_len
      <4>1. input_bytes' = input_bytes + read /\ input_len' = input_len - read
        BY <1>7, <3>1 DEF PushCV, Advance
      <4>2. read \in Nat
        BY <2>1, NextCounterFacts DEF IInv, Pending
      <4>3. input_bytes \in Nat /\ input_len \in Nat
        BY Types DEF IInv
      <4> HIDE DEF read
      <4> QED
        BY <4>1, <4>2, <4>3
    <3>2. CASE Len(pushes) # 1
      BY <1>7, <3>2 DEF PushCV
    <3> QED
      BY <3>1, <3>2
  <2> QED
    BY <2>1, <2>2, <2>3 DEF Hash!vars
<1>8. CASE HashSubtree \/ MergeCV
  <2>1. mode' = mode /\ len' = len /\ output' = output /\ pc # "idle" /\ pc' # "idle"
    BY <1>8 DEF HashSubtree, MergeCV
  <2> QED
    BY <2>1 DEF Hash!vars
<1>9. CASE Settled
  <2>1. mode' = mode /\ len' = len /\ output' = output /\ pc = "settle"
    BY <1>9 DEF Settled
  <2>2. output = NoOutput
    BY <2>1 DEF TreeInv, Silent
  <2> QED
    BY <2>1, <2>2 DEF Hash!vars
<1>10. CASE UNCHANGED vars
  BY <1>10 DEF vars, Hash!vars
<1> QED
  BY <1>1, <1>2, <1>3, <1>4, <1>5, <1>6, <1>7, <1>8, <1>9, <1>10 DEF Next, Running

\* Init of one is Init of the other.
LEMMA InitImplements == Init => Hash!Init
BY DEF Init, Hash!Init

\* Finalize answers with the reference tree of the message.
THEOREM AlwaysImplementsHash == Spec => ImplementsHash
BY InitImplements, StepImplements, TreeInvariant, PTL DEF Spec, ImplementsHash, Hash!Spec
-----------------------------------------------------------------------------
(***************************************************************************)
(* The hasher and its chunk state.                                         *)
(***************************************************************************)
\* chunk_state_update may be called for the next n bytes of the input: they
\* fit the chunk, are none only if it is full, and follow those it has.
Offers(n) ==
  /\ chunk.len + n <= CHUNK_LEN
  /\ n = 0 => chunk.len = CHUNK_LEN
  /\ input_bytes = chunk.counter * CHUNK_LEN + chunk.len
  /\ chunk.len > 0 => input_bytes = chunk.at + chunk.len

\* A chunk given up between calls, one that follows a whole one or an empty
\* one moved past a subtree, or one that is updated.
ChunkUse ==
  \/ pc = "idle" /\ chunk' = EmptyChunk(0)
  \/ /\ chunk.len \in {0, CHUNK_LEN}
     /\ chunk' = EmptyChunk(NextCounter)
     /\ NextCounter > chunk.counter
  \/ \E n \in 0..CHUNK_LEN : Offers(n) /\ chunk' = Absorb(chunk, input_bytes, n)

\* A subtree of one chunk goes through a chunk state of its own, an empty one.
LoneChunkOffered ==
  pc = "subtrees" /\ MoreThanAChunk(input_len) /\ subtree_len <= CHUNK_LEN =>
    /\ chunk.len = 0
    /\ subtree_len = CHUNK_LEN
    /\ Offers(subtree_len)

\* The accounting of the input, for the bytes a chunk is offered.
LEMMA OfferedFits ==
  ASSUME IInv, NEW n \in Nat, chunk.len + n <= CHUNK_LEN, n = 0 => chunk.len = CHUNK_LEN
  PROVE  n \in 0..CHUNK_LEN /\ Offers(n)
<1>1. /\ TypeOK /\ InputAccounted
      /\ input_bytes = chunk.counter * CHUNK_LEN + chunk.len
      /\ chunk.len > 0 => chunk.at = chunk.counter * CHUNK_LEN
  BY DEF IInv, InputAccounted
<1>2. chunk.len \in Nat /\ CHUNK_LEN \in Nat
  BY <1>1, Types
<1>3. chunk.len > 0 => input_bytes = chunk.at + chunk.len
  BY <1>1
<1> QED
  BY <1>1, <1>2, <1>3 DEF Offers

\* A partial chunk is given what it has room for.
LEMMA FillChunkUse ==
  ASSUME IInv, FillChunk
  PROVE  ChunkUse
<1> DEFINE take == Take(CHUNK_LEN - chunk.len, input_len)
<1>1. pc = "fill" /\ chunk' = Absorb(chunk, input_bytes, take)
  BY DEF FillChunk
<1>2. TypeOK /\ input_len > 0
  BY <1>1 DEF IInv, Places
<1>3. take \in Nat /\ chunk.len + take <= CHUNK_LEN /\ (take = 0 => chunk.len = CHUNK_LEN)
  BY <1>2, Types DEF Take
<1> HIDE DEF take
<1>4. take \in 0..CHUNK_LEN /\ Offers(take)
  BY <1>3, OfferedFits
<1> QED
  BY <1>1, <1>4 DEF ChunkUse

\* An empty chunk is given what is left, which fits.
LEMMA AbsorbTailUse ==
  ASSUME IInv, AbsorbTail
  PROVE  chunk' = chunk \/ ChunkUse
<1>1. /\ pc = "subtrees" /\ ~(input_len > CHUNK_LEN)
      /\ IF input_len > 0 THEN chunk' = Absorb(chunk, input_bytes, input_len)
                          ELSE chunk' = chunk
  BY DEF AbsorbTail, MoreThanAChunk
<1>2. TypeOK /\ chunk.len = 0
  BY <1>1 DEF IInv, Places
<1>3. ASSUME input_len > 0
      PROVE  input_len \in 0..CHUNK_LEN /\ Offers(input_len)
  <2>1. input_len \in Nat /\ chunk.len + input_len <= CHUNK_LEN /\ input_len # 0
    BY <1>1, <1>2, <1>3, Types
  <2> QED
    BY <2>1, OfferedFits
<1> QED
  BY <1>1, <1>3 DEF ChunkUse

\* The chunk after the last push is an empty one, further on.
LEMMA PushCVUse ==
  ASSUME IInv, PushCV
  PROVE  chunk' = chunk \/ ChunkUse
<1>1. pc = "push" /\ (chunk' = chunk \/ chunk' = EmptyChunk(NextCounter))
  BY DEF PushCV, Advance
<1>2. /\ TypeOK
      /\ chunk.len > 0 => chunk.len = CHUNK_LEN
      /\ chunk.len = 0 => input_len > CHUNK_LEN
  BY <1>1 DEF IInv, Pending
<1>3. chunk.len \in {0, CHUNK_LEN}
  BY <1>2, Types
<1>4. NextCounter > chunk.counter
  <2>1. CASE chunk.len > 0
    BY <1>2, <2>1, Types DEF NextCounter
  <2>2. CASE chunk.len = 0
    <3>1. subtree_chunks \in Nat \ {0}
      BY <1>2, <2>2, Types, SubtreeLenFacts, Pow2Type DEF subtree_len, subtree_chunks
    <3>2. NextCounter = chunk.counter + subtree_chunks
      BY <2>2, Types, <1>2 DEF NextCounter
    <3> QED
      BY <1>2, <3>1, <3>2, Types
  <2> QED
    BY <1>3, <2>1, <2>2, <1>2, Types
<1> QED
  BY <1>1, <1>3, <1>4 DEF ChunkUse

\* Every step uses the chunk so, or leaves it alone.
LEMMA NextUse ==
  ASSUME IInv, [Next]_vars
  PROVE  [ChunkUse]_chunk
<1>1. CASE \E m \in Modes : HasherInit(m)
  BY <1>1 DEF HasherInit, ChunkUse
<1>2. CASE Reset
  BY <1>2 DEF Reset, ChunkUse
<1>3. CASE \E n \in 1..MaxLen : Update(n)
  BY <1>3 DEF Update
<1>4. CASE FillChunk
  BY <1>4, FillChunkUse
<1>5. CASE AbsorbTail
  BY <1>5, AbsorbTailUse
<1>6. CASE PushCV
  BY <1>6, PushCVUse
<1>7. CASE HashSubtree \/ MergeCV \/ Settled \/ Finalize \/ RollUp
  BY <1>7 DEF HashSubtree, MergeCV, Settled, Finalize, RollUp
<1>8. CASE UNCHANGED vars
  BY <1>8 DEF vars
<1> QED
  BY <1>1, <1>2, <1>3, <1>4, <1>5, <1>6, <1>7, <1>8 DEF Next, Running

\* A subtree of at most a chunk is a whole one.
LEMMA LoneChunkFits == IInv => LoneChunkOffered
<1> SUFFICES ASSUME IInv, pc = "subtrees", input_len > CHUNK_LEN,
                    subtree_len <= CHUNK_LEN
             PROVE  chunk.len = 0 /\ subtree_len = CHUNK_LEN /\ Offers(subtree_len)
  BY DEF LoneChunkOffered, MoreThanAChunk
<1>1. TypeOK /\ chunk.len = 0
  BY DEF IInv, Places
<1>2. subtree_len = CHUNK_LEN
  <2>1. /\ subtree_len = subtree_chunks * CHUNK_LEN
        /\ subtree_len <= CHUNK_LEN <=> subtree_chunks = 1
    BY <1>1, Types, SubtreeLenFacts DEF subtree_len, subtree_chunks
  <2> QED
    BY <1>1, <2>1, Types
<1>3. CHUNK_LEN \in Nat \ {0} /\ chunk.len + CHUNK_LEN <= CHUNK_LEN
  BY <1>1, Types
<1> QED
  BY <1>1, <1>2, <1>3, OfferedFits

(***************************************************************************)
(* What ChunkState assumes of the hasher: chunk_state_update is only given *)
(* what fits the chunk and follows the bytes in it, and nothing only when  *)
(* the chunk is full; chunk_state_reset comes between calls or behind a    *)
(* whole chunk, and only an empty chunk's counter is moved.                *)
(***************************************************************************)
THEOREM ChunkUsedAsModelled == Spec => [][ChunkUse]_chunk /\ []LoneChunkOffered
BY Invariant, NextUse, LoneChunkFits, PTL DEF Spec
-----------------------------------------------------------------------------
(***************************************************************************)
(* The hasher and SubtreeWide, each by itself a model of one side of the   *)
(* call of compress_subtree_to_parent_node.                                *)
(***************************************************************************)
\* The hasher is about to have a subtree of more than a chunk hashed.
AsksForPair == pc = "subtrees" /\ MoreThanAChunk(input_len) /\ subtree_len > CHUNK_LEN

AskedArgs == [mode |-> mode, chunk_counter |-> chunk.counter, input_len |-> subtree_len]

\* The arguments are those of a call of SubtreeWide, for a complete subtree.
PairAsked ==
  AsksForPair =>
    /\ AskedArgs \in [mode : Modes, chunk_counter : Nat,
                      input_len : (CHUNK_LEN + 1)..MaxLen]
    /\ subtree_len % CHUNK_LEN = 0
    /\ subtree_chunks \in Pow2
    /\ input_bytes = chunk.counter * CHUNK_LEN

\* A call with these arguments that is over has the hasher's pair.
PairAnswered ==
  AsksForPair /\ args = AskedArgs /\ stage = "done" =>
    cv_array = SubtreePair(mode, chunk.counter, input_bytes, subtree_chunks)

\* The subtree loop asks at the start of a chunk, for whole chunks.
LEMMA PairIsAsked == IInv => PairAsked
<1> SUFFICES ASSUME IInv, pc = "subtrees", input_len > CHUNK_LEN,
                    subtree_len > CHUNK_LEN
             PROVE  /\ AskedArgs \in [mode : Modes, chunk_counter : Nat,
                                      input_len : (CHUNK_LEN + 1)..MaxLen]
                    /\ subtree_len % CHUNK_LEN = 0
                    /\ subtree_chunks \in Pow2
                    /\ input_bytes = chunk.counter * CHUNK_LEN
  BY DEF PairAsked, AsksForPair, MoreThanAChunk
<1>1. TypeOK /\ InputAccounted /\ chunk.len = 0
  BY DEF IInv, Places
<1>2. /\ MaxLen \in Nat /\ CHUNK_LEN \in Nat \ {0} /\ mode \in Modes
      /\ chunk.counter \in Nat /\ input_len \in Nat /\ input_len <= MaxLen
  BY <1>1, Types
<1>3. /\ subtree_len \in Nat /\ subtree_len <= input_len
      /\ subtree_len = subtree_chunks * CHUNK_LEN /\ subtree_chunks \in Pow2
  BY <1>2, SubtreeLenFacts DEF subtree_len, subtree_chunks
<1>4. subtree_len \in (CHUNK_LEN + 1)..MaxLen
  BY <1>2, <1>3
<1>5. subtree_len % CHUNK_LEN = 0
  <2>1. subtree_chunks \in Nat /\ subtree_len = CHUNK_LEN * subtree_chunks
    BY <1>2, <1>3, Pow2Type
  <2> QED
    BY <1>2, <2>1, MultipleMod
<1>6. input_bytes = chunk.counter * CHUNK_LEN
  <2>1. /\ chunk.counter * CHUNK_LEN \in Nat
        /\ input_bytes = chunk.counter * CHUNK_LEN + chunk.len
    BY <1>1, Accounting
  <2> QED
    BY <1>1, <2>1
<1> QED
  BY <1>2, <1>3, <1>4, <1>5, <1>6 DEF AskedArgs

\* So what SubtreeWide promises is what the hasher takes.
LEMMA PairIsAnswered == IInv /\ PairIsReference => PairAnswered
<1> SUFFICES ASSUME IInv, PairIsReference, AsksForPair, args = AskedArgs, stage = "done"
             PROVE  cv_array = SubtreePair(mode, chunk.counter, input_bytes, subtree_chunks)
  BY DEF PairAnswered
<1>1. /\ subtree_len % CHUNK_LEN = 0 /\ subtree_chunks \in Pow2
      /\ input_bytes = chunk.counter * CHUNK_LEN
  BY PairIsAsked DEF PairAsked
<1>2. /\ args.mode = mode /\ args.chunk_counter = chunk.counter
      /\ args.input_len = subtree_len /\ args.input_len \div CHUNK_LEN = subtree_chunks
  BY DEF AskedArgs, subtree_chunks
<1> QED
  BY <1>1, <1>2 DEF PairIsReference

(***************************************************************************)
(* What Blake3Hasher assumes of compress_subtree_to_parent_node: whenever  *)
(* the subtree loop calls it, on any processor, the arguments are those    *)
(* that SubtreeWide models, and the chaining values such a call ends with  *)
(* are the two that the loop goes on to push.                              *)
(***************************************************************************)
THEOREM SubtreesAsModelled == Spec /\ WideSpec => []PairAsked /\ []PairAnswered
BY Invariant, PairAlwaysReference, PairIsAsked, PairIsAnswered, PTL
-----------------------------------------------------------------------------
(***************************************************************************)
(* The steps a call has left.                                              *)
(***************************************************************************)
\* Input that no pending push stands for.
Unhashed == input_len - IF pc = "push" /\ chunk.len = 0 THEN subtree_len ELSE 0

\* What the place in a call counts for.
Phase == CASE pc = "fill" -> 5
           [] pc \in {"subtrees", "push"} -> 2
           [] pc \in {"settle", "rollup"} -> 1
           [] OTHER -> 0

\* A bound on the steps until the call returns.
StepsLeft == 5 * Unhashed + 2 * Len(pushes) + Len(cv_stack) + cvs_remaining + Phase

\* A step of a call under way gets nearer to its return.
CallGoesOn == pc # "idle" => StepsLeft' < StepsLeft

\* The lengths are numbers.
LEMMA Lengths ==
  ASSUME TypeOK
  PROVE  /\ Len(pushes) \in Nat /\ Len(cv_stack) \in Nat
         /\ cvs_remaining \in Nat /\ input_len \in Nat /\ Phase \in 0..5
BY DEF TypeOK, Phase, cv_stack_len

\* A subtree is within the input, and is not empty.
LEMMA SubtreeWithin ==
  ASSUME TypeOK, input_len > CHUNK_LEN
  PROVE  subtree_len \in Nat \ {0} /\ subtree_len <= input_len
<1>1. /\ subtree_len \in Nat /\ subtree_len <= input_len
      /\ subtree_len = subtree_chunks * CHUNK_LEN /\ subtree_chunks \in Nat \ {0}
      /\ CHUNK_LEN \in Nat \ {0}
  BY Types, SubtreeLenFacts, Pow2Type DEF subtree_len, subtree_chunks
<1>2. \A a, b \in Nat \ {0} : a * b # 0
  OBVIOUS
<1> QED
  BY <1>1, <1>2

\* The input that no push stands for.
LEMMA UnhashedType ==
  ASSUME IInv
  PROVE  Unhashed \in Nat
<1>1. TypeOK /\ (pc = "push" /\ chunk.len = 0 => input_len > CHUNK_LEN)
  BY DEF IInv, Pending
<1> QED
  BY <1>1, SubtreeWithin, Lengths DEF Unhashed

\* What is left is a natural number.
LEMMA StepsLeftType ==
  ASSUME IInv
  PROVE  StepsLeft \in Nat
BY UnhashedType, Lengths DEF StepsLeft, IInv

\* The parts of the sum.
Numbers ==
  /\ Unhashed \in Int /\ Len(pushes) \in Int /\ Len(cv_stack) \in Int
  /\ cvs_remaining \in Int /\ Phase \in Int

\* The ways in which the sum gets less: input is taken, a phase is over, a
\* value is pushed, or something else goes on and nothing is added.
InputTaken ==
  /\ Unhashed' < Unhashed /\ Len(pushes)' <= Len(pushes) + 2
  /\ Len(cv_stack)' = Len(cv_stack) /\ cvs_remaining' = cvs_remaining /\ Phase' = Phase
PhaseOver ==
  /\ Unhashed' <= Unhashed /\ Len(pushes)' <= Len(pushes) + 1
  /\ Len(cv_stack)' = Len(cv_stack) /\ cvs_remaining' = cvs_remaining /\ Phase' + 2 < Phase
ValuePushed ==
  /\ Unhashed' = Unhashed /\ Len(pushes)' = Len(pushes) - 1
  /\ Len(cv_stack)' = Len(cv_stack) + 1 /\ cvs_remaining' = cvs_remaining /\ Phase' = Phase
NothingAdded ==
  /\ Unhashed' <= Unhashed /\ Len(pushes)' = Len(pushes)
  /\ Len(cv_stack)' + cvs_remaining' + Phase' < Len(cv_stack) + cvs_remaining + Phase

\* Each of them makes the sum less.
LEMMA LessLeft ==
  ASSUME Numbers, Numbers', InputTaken \/ PhaseOver \/ ValuePushed \/ NothingAdded
  PROVE  StepsLeft' < StepsLeft
<1> DEFINE u == Unhashed         v == Unhashed'
           p == Len(pushes)      q == Len(pushes)'
           n == Len(cv_stack)    m == Len(cv_stack)'
           c == cvs_remaining    d == cvs_remaining'
           f == Phase            g == Phase'
<1>1. /\ u \in Int /\ v \in Int /\ p \in Int /\ q \in Int /\ n \in Int
      /\ m \in Int /\ c \in Int /\ d \in Int /\ f \in Int /\ g \in Int
  BY DEF Numbers
<1>2. \/ v < u /\ q <= p + 2 /\ m = n /\ d = c /\ g = f
      \/ v <= u /\ q <= p + 1 /\ m = n /\ d = c /\ g + 2 < f
      \/ v = u /\ q = p - 1 /\ m = n + 1 /\ d = c /\ g = f
      \/ v <= u /\ q = p /\ m + d + g < n + c + f
  BY DEF InputTaken, PhaseOver, ValuePushed, NothingAdded
<1>3. /\ StepsLeft = 5 * u + 2 * p + n + c + f
      /\ StepsLeft' = 5 * v + 2 * q + m + d + g
  BY DEF StepsLeft
<1> HIDE DEF u, v, p, q, n, m, c, d, f, g
<1>4. 5 * v + 2 * q + m + d + g < 5 * u + 2 * p + n + c + f
  BY <1>1, <1>2
<1> QED
  BY <1>3, <1>4

\* The parts of the sum are numbers before a step.
LEMMA NumbersHold == IInv => Numbers
BY UnhashedType, Lengths DEF Numbers, IInv

\* The same, after a step.
LEMMA NumbersStay == IInv' => Numbers'
BY NumbersHold, PTL

\* The chunk is pushed as one value, and its input was taken.
LEMMA FillChunkGoesOn ==
  ASSUME IInv, IInv', FillChunk
  PROVE  StepsLeft' < StepsLeft
<1> DEFINE take == Take(CHUNK_LEN - chunk.len, input_len)
<1>1. /\ pc = "fill" /\ input_len' = input_len - take
      /\ chunk'.len = chunk.len + take
      /\ \/ pc' = "push" /\ Len(pushes') = 1
         \/ pc' = "idle" /\ pushes' = pushes
      /\ UNCHANGED <<cv_stack, cvs_remaining>>
  BY DEF FillChunk, Absorb
<1>2. TypeOK /\ TypeOK' /\ chunk.len > 0
  BY <1>1 DEF IInv, Places
<1>3. take \in Nat
  BY <1>2, Types DEF Take
<1> HIDE DEF take
<1>4. Unhashed = input_len /\ Unhashed' = input_len'
  <2>1. ~(chunk'.len = 0)
    BY <1>1, <1>2, <1>3, Types
  <2>2. input_len \in Int /\ input_len' \in Int
    BY <1>1, <1>2, <1>3, Lengths
  <2> QED
    BY <1>1, <2>1, <2>2 DEF Unhashed
<1>5. Phase = 5 /\ Phase' = IF pc' = "push" THEN 2 ELSE 0
  BY <1>1 DEF Phase
<1>6. Len(pushes) \in Nat /\ Len(cv_stack) \in Nat /\ cvs_remaining \in Nat /\ input_len \in Nat
  BY <1>2, Lengths
<1>7. /\ Len(pushes') \in Nat /\ Len(pushes') <= Len(pushes) + 1
      /\ pc' = "idle" => Len(pushes') = Len(pushes)
  <2>1. CASE Len(pushes') = 1
    <3>1. pc' = "idle" => Len(pushes') = Len(pushes)
      BY <1>1
    <3> QED
      BY <1>6, <2>1, <3>1
  <2>2. CASE pushes' = pushes
    BY <1>6, <2>2
  <2> QED
    BY <1>1, <2>1, <2>2
<1>8. Unhashed' <= Unhashed /\ Unhashed \in Int /\ Unhashed' \in Int
  BY <1>1, <1>3, <1>4, <1>6
<1>9. Len(cv_stack') = Len(cv_stack) /\ cvs_remaining' = cvs_remaining
  BY <1>1
<1>10. Phase' + 2 < Phase /\ Phase \in Int /\ Phase' \in Int
  BY <1>5
<1>11. PhaseOver
  BY <1>6, <1>7, <1>8, <1>9, <1>10 DEF PhaseOver
<1> QED
  BY <1>11, NumbersHold, NumbersStay, LessLeft

\* The pending pushes stand for a subtree.
LEMMA HashSubtreeGoesOn ==
  ASSUME IInv, IInv', HashSubtree
  PROVE  StepsLeft' < StepsLeft
<1>1. /\ pc = "subtrees" /\ pc' = "push" /\ input_len > CHUNK_LEN
      /\ Len(pushes') \in {1, 2}
      /\ UNCHANGED <<chunk, input_len, cv_stack, cvs_remaining>>
  BY DEF HashSubtree, MoreThanAChunk
<1>2. TypeOK /\ chunk.len = 0
  BY <1>1 DEF IInv, Places
<1>3. subtree_len \in Nat \ {0} /\ subtree_len <= input_len /\ subtree_len' = subtree_len
  BY <1>1, <1>2, SubtreeWithin DEF subtree_len
<1>4. Unhashed = input_len /\ Unhashed' = input_len - subtree_len
  BY <1>1, <1>2, <1>3, Lengths DEF Unhashed
<1>5. Phase = 2 /\ Phase' = 2
  BY <1>1 DEF Phase
<1>6. Len(pushes) \in Nat /\ Len(cv_stack) \in Nat /\ cvs_remaining \in Nat /\ input_len \in Nat
  BY <1>2, Lengths
<1>7. Unhashed' < Unhashed
  BY <1>3, <1>4, <1>6
<1>8. Len(pushes)' <= Len(pushes) + 2
  <2> DEFINE before == Len(pushes)    after == Len(pushes)'
  <2>1. before \in Nat /\ after \in {1, 2}
    BY <1>1, <1>6
  <2> HIDE DEF before, after
  <2>2. after <= before + 2
    BY <2>1
  <2> QED
    BY <2>2 DEF before, after
<1>9. Len(cv_stack)' = Len(cv_stack) /\ cvs_remaining' = cvs_remaining /\ Phase' = Phase
  BY <1>1, <1>5
<1> QED
  BY <1>7, <1>8, <1>9, NumbersHold, NumbersStay, LessLeft DEF InputTaken

\* A join leaves one entry less.
LEMMA MergeCVGoesOn ==
  ASSUME IInv, IInv', MergeCV
  PROVE  StepsLeft' < StepsLeft
<1> DEFINE n == Len(cv_stack)
<1>1. /\ n > popcnt(MergeCount)
      /\ cv_stack' = Append(SubSeq(cv_stack, 1, n - 2), Joined)
      /\ UNCHANGED <<pc, chunk, input_len, pushes, cvs_remaining>>
  BY DEF MergeCV, JoinTop, cv_stack_len, post_merge_stack_len
<1>2. /\ TypeOK /\ Canonical(cv_stack) /\ Indexed(cv_stack)
      /\ Covered(cv_stack) = MergeCount /\ cv_stack \in Seq(CVs)
  BY Types DEF IInv, StackCanonical, Covering
<1>3. n >= 2
  BY <1>1, <1>2, ExcessMeansEqual
<1>4. Len(cv_stack') = n - 1
  <2> DEFINE kept == SubSeq(cv_stack, 1, n - 2)
  <2>1. n \in Nat /\ 1 \in Int /\ n - 2 \in Int
        /\ \A i \in 1..(n - 2) : cv_stack[i] \in CVs
    BY <1>2, <1>3
  <2>2. kept \in Seq(CVs) /\ Len(kept) = IF 1 <= n - 2 THEN (n - 2) - 1 + 1 ELSE 0
    BY <2>1, SubSeqProperties
  <2> HIDE DEF kept, n
  <2>3. Len(kept) = n - 2 /\ (n - 2) + 1 = n - 1
    BY <1>3, <2>1, <2>2
  <2>4. Len(Append(kept, Joined)) = Len(kept) + 1
    BY <2>2
  <2> QED
    BY <1>1, <2>3, <2>4 DEF kept
<1>5. Unhashed' = Unhashed /\ Phase' = Phase
  BY <1>1 DEF Unhashed, Phase, subtree_len
<1>6. /\ Len(pushes) \in Nat /\ n \in Nat /\ cvs_remaining \in Nat
      /\ Unhashed \in Nat /\ Phase \in Nat
  BY <1>2, Lengths, UnhashedType
<1>7. Len(pushes)' = Len(pushes) /\ Len(cv_stack)' = n - 1 /\ cvs_remaining' = cvs_remaining
  BY <1>1, <1>4
<1> HIDE DEF n
<1>8. Len(cv_stack)' + cvs_remaining' + Phase' < n + cvs_remaining + Phase
  BY <1>5, <1>6, <1>7
<1>9. Unhashed' <= Unhashed
  BY <1>5, <1>6
<1> QED
  BY <1>7, <1>8, <1>9, NumbersHold, NumbersStay, LessLeft DEF n, NothingAdded

\* A push takes one more entry, and the last one moves past its input.
LEMMA PushCVGoesOn ==
  ASSUME IInv, IInv', PushCV
  PROVE  StepsLeft' < StepsLeft
<1>1. /\ pc = "push" /\ pushes' = Tail(pushes)
      /\ cv_stack' = Append(cv_stack, Head(pushes).cv)
      /\ IF Len(pushes) = 1 THEN Advance ELSE UNCHANGED <<chunk, input_len, pc>>
      /\ UNCHANGED cvs_remaining
  BY DEF PushCV
<1>2. TypeOK /\ Len(pushes) # 0 /\ cv_stack \in Seq(CVs)
      /\ pushes \in Seq([cv : CVs, counter : 0..MaxLen])
  BY <1>1, Types DEF IInv, Places, TypeOK
<1>3. /\ Len(pushes) \in Nat /\ Len(cv_stack) \in Nat /\ cvs_remaining \in Nat
      /\ input_len \in Nat
  BY <1>2, Lengths
<1>4. Len(pushes') = Len(pushes) - 1 /\ Len(cv_stack') = Len(cv_stack) + 1
  <2>1. pushes # <<>>
    BY <1>2
  <2> QED
    BY <1>1, <1>2, <2>1
<1>5. Phase = 2 /\ Phase' = 2
  BY <1>1 DEF Phase, Advance
<1>6. Unhashed' = Unhashed
  <2>1. CASE Len(pushes) # 1
    BY <1>1, <2>1 DEF Unhashed, subtree_len
  <2>2. CASE Len(pushes) = 1
    <3>1. /\ pc' = "subtrees"
          /\ input_len' = input_len - IF chunk.len > 0 THEN 0 ELSE subtree_len
      BY <1>1, <2>2 DEF Advance
    <3>2. chunk.len \in Nat
      BY <1>2, Types
    <3>3. Unhashed = input_len - IF chunk.len = 0 THEN subtree_len ELSE 0
      BY <1>1 DEF Unhashed
    <3>4. Unhashed' = input_len' - 0
      BY <3>1 DEF Unhashed
    <3>5. input_len' \in Int
      <4>1. chunk.len = 0 => subtree_len \in Nat
        BY <1>1, <1>2, SubtreeWithin DEF IInv, Pending
      <4> QED
        BY <1>3, <3>1, <3>2, <4>1
    <3> QED
      BY <3>1, <3>2, <3>3, <3>4, <3>5
  <2> QED
    BY <2>1, <2>2
<1>7. Unhashed \in Nat
  BY UnhashedType
<1>8. ValuePushed
  BY <1>1, <1>3, <1>4, <1>5, <1>6, <1>7 DEF ValuePushed
<1> QED
  BY <1>8, NumbersHold, NumbersStay, LessLeft

\* At most a chunk is left, and it is kept.
LEMMA AbsorbTailGoesOn ==
  ASSUME IInv, IInv', AbsorbTail
  PROVE  StepsLeft' < StepsLeft
<1>1. /\ pc = "subtrees" /\ pc' \in {"settle", "idle"} /\ input_len' = 0
      /\ UNCHANGED <<cv_stack, pushes, cvs_remaining>>
  BY DEF AbsorbTail
<1>2. /\ Len(pushes) \in Nat /\ Len(cv_stack) \in Nat /\ cvs_remaining \in Nat
      /\ input_len \in Nat
  BY Lengths DEF IInv
<1>3. Unhashed = input_len /\ Unhashed' = 0
  BY <1>1, <1>2 DEF Unhashed
<1>4. Phase = 2 /\ Phase' \in {0, 1}
  BY <1>1 DEF Phase
<1>5. NothingAdded
  BY <1>1, <1>2, <1>3, <1>4 DEF NothingAdded
<1> QED
  BY <1>5, NumbersHold, NumbersStay, LessLeft

\* The merge that ends an update is over.
LEMMA SettledGoesOn ==
  ASSUME IInv, IInv', Settled
  PROVE  StepsLeft' < StepsLeft
<1>1. /\ pc = "settle" /\ pc' = "idle"
      /\ UNCHANGED <<input_len, cv_stack, pushes, cvs_remaining>>
  BY DEF Settled
<1>2. /\ Len(pushes) \in Nat /\ Len(cv_stack) \in Nat /\ cvs_remaining \in Nat
      /\ input_len \in Nat
  BY Lengths DEF IInv
<1>3. Unhashed = input_len /\ Unhashed' = input_len
  BY <1>1, <1>2 DEF Unhashed
<1>4. Phase = 1 /\ Phase' = 0
  BY <1>1 DEF Phase
<1>5. NothingAdded
  BY <1>1, <1>2, <1>3, <1>4 DEF NothingAdded
<1> QED
  BY <1>5, NumbersHold, NumbersStay, LessLeft

\* A pass rolls one entry up, and the last one returns.
LEMMA RollUpGoesOn ==
  ASSUME IInv, IInv', RollUp
  PROVE  StepsLeft' < StepsLeft
<1>1. /\ pc = "rollup"
      /\ \/ cvs_remaining > 0 /\ cvs_remaining' = cvs_remaining - 1 /\ pc' = "rollup"
         \/ cvs_remaining' = cvs_remaining /\ pc' = "idle"
      /\ UNCHANGED <<input_len, cv_stack, pushes>>
  BY DEF RollUp
<1>2. /\ Len(pushes) \in Nat /\ Len(cv_stack) \in Nat /\ cvs_remaining \in Nat
      /\ input_len \in Nat
  BY Lengths DEF IInv
<1>3. Unhashed = input_len /\ Unhashed' = input_len
  BY <1>1, <1>2 DEF Unhashed
<1>4. Phase = 1 /\ Phase' = IF pc' = "rollup" THEN 1 ELSE 0
  BY <1>1 DEF Phase
<1>5. NothingAdded
  BY <1>1, <1>2, <1>3, <1>4 DEF NothingAdded
<1> QED
  BY <1>5, NumbersHold, NumbersStay, LessLeft

\* No step of a call leaves as much as there was.
LEMMA NextGoesOn ==
  ASSUME IInv, IInv', Next
  PROVE  CallGoesOn
<1> SUFFICES ASSUME pc # "idle" PROVE StepsLeft' < StepsLeft
  BY DEF CallGoesOn
<1>1. Running
  BY DEF Next, HasherInit, Update, Finalize, Reset
<1> QED
  BY <1>1, FillChunkGoesOn, HashSubtreeGoesOn, AbsorbTailGoesOn, MergeCVGoesOn,
     PushCVGoesOn, SettledGoesOn, RollUpGoesOn DEF Running

(***************************************************************************)
(* A call of update or finalize goes through a bounded number of passes of *)
(* its loops: until it returns, each step brings StepsLeft, a natural that *)
(* is linear in the input and the depth of the stack, nearer to 0.         *)
(***************************************************************************)
THEOREM CallsAreBounded ==
  Spec => [](StepsLeft \in Nat) /\ [][CallGoesOn]_vars
<1>1. IInv /\ IInv' /\ [Next]_vars => [CallGoesOn]_vars
  BY NextGoesOn
<1> QED
  BY <1>1, Invariant, StepsLeftType, PTL DEF Spec
=============================================================================
