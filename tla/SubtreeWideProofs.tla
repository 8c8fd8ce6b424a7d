------------------------- MODULE SubtreeWideProofs --------------------------
(***************************************************************************)
(* The subtree code's invariants hold for every chunk length, length of    *)
(* input and target: whatever the SIMD degree, no write leaves its buffer  *)
(* and the pair is the two children of the subtree's root.                 *)
(*                                                                         *)
(* Lemmas about numbers, powers of two and the trees of Blake3Tree come    *)
(* first (the hasher's proofs use them too); where they speak of a mode it *)
(* is md.                                                                  *)
(*                                                                         *)
(* A recursion is proved about without induction over data: its            *)
(* activations are on a stack, each of them covers the chunks of a node of *)
(* the tree, and each half that has returned left a level of that half's   *)
(* tree in cv_array.  A level is a list of chaining values that are        *)
(* themselves the leaves of a BLAKE3 tree: wherever the list, read as a    *)
(* tree, has a parent, the message's tree has it too.  Joining neighbours  *)
(* makes a level of a level; the levels of two halves, next to each other, *)
(* are a level of the whole if the left one is as wide as the SIMD degree, *)
(* which it is because its chunks are a power of two.                      *)
(***************************************************************************)
EXTENDS SubtreeWide, FiniteSetTheorems, SequenceTheorems, TLAPS

-----------------------------------------------------------------------------
(***************************************************************************)
(* Extremal elements, which stand in for induction.                        *)
(***************************************************************************)
\* A nonempty set of naturals has a least element: the interval below it is
\* minimal, by inclusion, among the intervals below the elements.
LEMMA LeastElement ==
  ASSUME NEW T \in SUBSET Nat, T # {}
  PROVE  \E m \in T : \A x \in T : m <= x
<1> DEFINE Below == {0..x : x \in T}
           Rel == StrictSubsetOrdering(Nat)
<1>1. Below # {}
  OBVIOUS
<1>2. Below \subseteq FiniteSubsetsOf(Nat)
  <2> SUFFICES ASSUME NEW x \in T
               PROVE  0..x \in SUBSET Nat /\ IsFiniteSet(0..x)
    BY DEF FiniteSubsetsOf
  <2>1. x \in Int
    OBVIOUS
  <2> QED
    BY <2>1, FS_Interval
<1>3. IsWellFoundedOn(Rel, FiniteSubsetsOf(Nat))
  BY FS_StrictSubsetOrderingWellFounded
<1>4. PICK S \in Below : \A R \in Below : ~(<<R, S>> \in Rel)
  <2> HIDE DEF Below, Rel
  <2> QED
    BY <1>1, <1>2, <1>3, WFMin, Zenon
<1>5. PICK m \in T : S = 0..m
  BY <1>4
<1>6. ASSUME NEW x \in T, x < m
      PROVE  FALSE
  <2>1. 0..x \in Below
    OBVIOUS
  <2>2. 0..x \in SUBSET Nat /\ 0..m \in SUBSET Nat
    OBVIOUS
  <2>3. 0..x \subseteq 0..m
    BY <1>6
  <2>4. m \in 0..m /\ m \notin 0..x
    BY <1>6
  <2>5. <<0..x, 0..m>> \in Rel
    BY <2>2, <2>3, <2>4 DEF StrictSubsetOrdering
  <2> QED
    BY <1>4, <1>5, <2>1, <2>5
<1> QED
  BY <1>6

\* A nonempty bounded set of naturals has a greatest element.
LEMMA GreatestElement ==
  ASSUME NEW N \in Nat, NEW T \in SUBSET (0..N), T # {}
  PROVE  \E m \in T : \A x \in T : x <= m
<1> DEFINE D == {N - x : x \in T}
<1>1. D \in SUBSET Nat /\ D # {}
  <2>1. \A x \in T : N - x \in Nat
    OBVIOUS
  <2>2. PICK x : x \in T
    OBVIOUS
  <2>3. N - x \in D
    BY <2>2
  <2> QED
    BY <2>1, <2>3
<1>2. PICK d \in D : \A e \in D : d <= e
  <2> HIDE DEF D
  <2> QED
    BY <1>1, LeastElement
<1>3. PICK m \in T : d = N - m
  OBVIOUS
<1>4. ASSUME NEW x \in T
      PROVE  x <= m
  <2>1. d <= N - x
    BY <1>2
  <2> QED
    BY <1>3, <2>1
<1> QED
  BY <1>4

\* Max of a nonempty bounded set of naturals is one of its elements, and no
\* element is above it.
LEMMA MaxIsGreatest ==
  ASSUME NEW N \in Nat, NEW T \in SUBSET (0..N), T # {}
  PROVE  Max(T) \in T /\ \A x \in T : x <= Max(T)
<1>1. \E m \in T : \A x \in T : m >= x
  <2>1. PICK m \in T : \A x \in T : x <= m
    BY GreatestElement
  <2>2. \A x \in T : m >= x
    BY <2>1
  <2> QED
    BY <2>2
<1>2. Max(T) \in T /\ \A x \in T : Max(T) >= x
  BY <1>1, Zenon DEF Max
<1> QED
  BY <1>2
-----------------------------------------------------------------------------
(***************************************************************************)
(* Division.                                                               *)
(***************************************************************************)

\* Quotient and remainder of a natural, as in the C code's / and %.
LEMMA DivisionOf ==
  ASSUME NEW a \in Nat, NEW d \in Nat \ {0}
  PROVE  a \div d \in Nat /\ a % d \in 0..(d-1) /\ a = d * (a \div d) + (a % d)
OBVIOUS

\* Quotient and remainder are determined by what they add up to.
LEMMA DivisionIs ==
  ASSUME NEW d \in Nat \ {0}, NEW q \in Nat, NEW r \in 0..(d-1)
  PROVE  (d * q + r) \div d = q /\ (d * q + r) % d = r
OBVIOUS

\* A multiple of d, divided by d.
LEMMA MultipleMod ==
  ASSUME NEW d \in Nat \ {0}, NEW k \in Nat
  PROVE  (d * k) % d = 0 /\ (d * k) \div d = k
BY DivisionIs, d * k + 0 = d * k, 0 \in 0..(d-1)

\* What leaves no remainder is a multiple.
LEMMA ModMultiple ==
  ASSUME NEW a \in Nat, NEW d \in Nat \ {0}, a % d = 0
  PROVE  a \div d \in Nat /\ a = d * (a \div d)
BY DivisionOf

\* Multiplying by a positive number does not shrink.
LEMMA ProductGrows ==
  ASSUME NEW a \in Nat, NEW d \in Nat \ {0}
  PROVE  a * d \in Nat /\ a <= a * d
OBVIOUS

\* Divisibility is transitive.
LEMMA ModTransitive ==
  ASSUME NEW a \in Nat, NEW b \in Nat \ {0}, NEW c \in Nat \ {0},
         a % b = 0, b % c = 0
  PROVE  a % c = 0
<1>1. PICK k \in Nat : a = b * k
  BY ModMultiple
<1>2. PICK l \in Nat : b = c * l
  BY ModMultiple
<1>3. l * k \in Nat /\ a = c * (l * k)
  BY <1>1, <1>2
<1> QED
  BY <1>3, MultipleMod

\* The sum of two multiples of d is one.
LEMMA ModSum ==
  ASSUME NEW a \in Nat, NEW b \in Nat, NEW d \in Nat \ {0}, a % d = 0, b % d = 0
  PROVE  (a + b) % d = 0
<1>1. PICK k \in Nat : a = d * k
  BY ModMultiple
<1>2. PICK l \in Nat : b = d * l
  BY ModMultiple
<1>3. k + l \in Nat /\ a + b = d * (k + l)
  BY <1>1, <1>2
<1> QED
  BY <1>3, MultipleMod
-----------------------------------------------------------------------------
(***************************************************************************)
(* Powers of two.                                                          *)
(***************************************************************************)

\* Powers of two are positive and 1 is one of them.
LEMMA Pow2Type ==
  /\ 1 \in Pow2 /\ MaxLen \in Nat /\ CHUNK_LEN \in Pow2
  /\ \A p \in Pow2 : p \in Nat \ {0} /\ p \in 1..MaxLen /\ p \in Int
<1>1. \A p \in Pow2 : p \in 1..MaxLen
  BY DEF Pow2
<1>2. 1 \in 1..MaxLen
  BY <1>1, ChunkLenAssumption
<1>3. \A d \in 1..1 : d = 1
  OBVIOUS
<1>4. 1 \in Pow2
  BY <1>2, <1>3 DEF Pow2
<1> QED
  BY <1>1, <1>4, ChunkLenAssumption

\* The powers of two above 1 are even.
LEMMA Pow2Even ==
  ASSUME NEW p \in Pow2, p # 1
  PROVE  p % 2 = 0
<1>1. p \in Nat \ {0}
  BY Pow2Type
<1>2. p \in 1..p /\ p % p = 0
  BY <1>1
<1> QED
  BY <1>2 DEF Pow2

\* Every divisor of a power of two is one.
LEMMA Pow2Divisor ==
  ASSUME NEW p \in Pow2, NEW d \in Nat \ {0}, NEW k \in Nat, p = d * k
  PROVE  d \in Pow2
<1>1. p \in 1..MaxLen /\ MaxLen \in Nat
  BY Pow2Type
<1>2. k >= 1
  BY <1>1
<1>3. d <= p
  BY <1>1, <1>2
<1>4. p % d = 0
  BY MultipleMod
<1>5. d \in 1..MaxLen
  BY <1>1, <1>3
<1>6. ASSUME NEW e \in 1..d, d % e = 0
      PROVE  e = 1 \/ e % 2 = 0
  <2>0. p \in Nat /\ d \in Nat \ {0} /\ e \in Nat \ {0} /\ p % d = 0 /\ d % e = 0
    BY <1>1, <1>4, <1>6
  <2>1. p % e = 0
    BY <2>0, ModTransitive
  <2>2. e \in 1..p
    BY <1>1, <1>3
  <2> QED
    BY <2>1, <2>2 DEF Pow2
<1> QED
  BY <1>5, <1>6 DEF Pow2

\* Powers of two form a chain under divisibility.
LEMMA Pow2Chain ==
  \A p, q \in Pow2 : p <= q => q % p = 0
<1> DEFINE Bad == {p \in Pow2 : \E q \in Pow2 : p <= q /\ q % p # 0}
<1> SUFFICES ASSUME Bad # {} PROVE FALSE
  OBVIOUS
<1>1. Bad \in SUBSET Nat
  BY Pow2Type
<1>2. PICK p \in Bad : \A x \in Bad : p <= x
  <2> HIDE DEF Bad
  <2> QED
    BY <1>1, LeastElement
<1>3. PICK q \in Pow2 : p <= q /\ q % p # 0
  OBVIOUS
<1>4. p \in Pow2 /\ p \in Nat \ {0} /\ q \in Nat \ {0}
  BY Pow2Type
<1>5. p # 1
  BY <1>3, <1>4
<1>6. PICK a \in Nat : p = 2 * a
  BY <1>4, <1>5, Pow2Even, ModMultiple
<1>7. PICK b \in Nat : q = 2 * b
  BY <1>3, <1>4, <1>5, Pow2Even, ModMultiple
<1>8. a \in Pow2 /\ b \in Pow2
  <2>1. a \in Nat \ {0} /\ p = a * 2 /\ b \in Nat \ {0} /\ q = b * 2
    BY <1>4, <1>6, <1>7
  <2> QED
    BY <1>4, <2>1, Pow2Divisor
<1>9. a < p /\ a <= b
  BY <1>3, <1>4, <1>6, <1>7
<1>10. b % a = 0
  BY <1>2, <1>8, <1>9, <1>4
<1>11. PICK c \in Nat : b = a * c
  <2>1. b \in Nat /\ a \in Nat \ {0} /\ b % a = 0
    BY <1>8, <1>10, Pow2Type
  <2> QED
    BY <2>1, ModMultiple
<1>12. q = p * c
  BY <1>6, <1>7, <1>11
<1> QED
  BY <1>3, <1>4, <1>12, MultipleMod

\* The quotient of two powers of two is a power of two.
LEMMA Pow2Quotient ==
  ASSUME NEW p \in Pow2, NEW q \in Pow2, p <= q
  PROVE  q \div p \in Pow2 /\ q = p * (q \div p)
<1>1. p \in Nat \ {0} /\ q \in Nat \ {0} /\ q % p = 0
  BY Pow2Type, Pow2Chain
<1>2. q \div p \in Nat /\ q = p * (q \div p)
  BY <1>1, ModMultiple
<1>3. q = (q \div p) * p /\ q \div p # 0
  BY <1>1, <1>2
<1> QED
  BY <1>1, <1>2, <1>3, Pow2Divisor

\* Below a power of two, doubling gives a power of two that divides it.
LEMMA Pow2Double ==
  ASSUME NEW p \in Pow2, NEW q \in Pow2, p < q
  PROVE  2 * p \in Pow2 /\ 2 * p <= q /\ q % (2 * p) = 0
<1> DEFINE s == q \div p
<1>1. p \in Nat \ {0} /\ q \in Nat \ {0} /\ p <= q
  BY Pow2Type
<1>2. s \in Pow2 /\ q = p * s
  BY <1>1, Pow2Quotient
<1>3. s \in Nat
  BY <1>2, Pow2Type
<1> HIDE DEF s
<1>4. s # 1
  BY <1>1, <1>2
<1>5. PICK u \in Nat : s = 2 * u
  BY <1>2, <1>3, <1>4, Pow2Even, ModMultiple
<1>6. q = (2 * p) * u /\ 2 * p \in Nat \ {0}
  BY <1>1, <1>2, <1>5
<1>7. 2 * p \in Pow2
  BY <1>6, Pow2Divisor
<1>8. q % (2 * p) = 0
  BY <1>6, MultipleMod
<1>9. u >= 1
  BY <1>1, <1>6
<1>10. 2 * p <= q
  BY <1>1, <1>6, <1>9
<1> QED
  BY <1>7, <1>8, <1>10

\* Twice a power of two is a power of two, if it is within the bound.
LEMMA Pow2Twice ==
  ASSUME NEW p \in Pow2, 2 * p <= MaxLen
  PROVE  2 * p \in Pow2
<1>1. p \in Nat \ {0} /\ 2 * p \in 1..MaxLen
  BY Pow2Type
<1>2. ASSUME NEW d \in 1..(2 * p), (2 * p) % d = 0, d % 2 # 0
      PROVE  d = 1
  <2>1. PICK a \in Nat : d = 2 * a + 1
    BY <1>2, DivisionOf
  <2>2. PICK k \in Nat : 2 * p = d * k
    BY <1>1, <1>2, ModMultiple
  <2>3. k = 2 * (p - a * k)
    BY <1>1, <2>1, <2>2
  <2>4. PICK j \in Int : k = 2 * j
    <3>1. a * k \in Int
      OBVIOUS
    <3>2. p - a * k \in Int
      BY <1>1, <3>1
    <3> QED
      BY <2>3, <3>2
  <2>5. j \in Nat
    BY <2>2, <2>4
  <2>6. p = d * j
    BY <1>1, <2>1, <2>2, <2>4, <2>5
  <2>7. d \in Pow2
    BY <2>1, <2>5, <2>6, <1>2, Pow2Divisor
  <2> QED
    BY <1>2, <2>7, Pow2Even
<1> QED
  BY <1>1, <1>2 DEF Pow2
-----------------------------------------------------------------------------
(***************************************************************************)
(* Multiples, and where the nodes of a tree may lie.                       *)
(***************************************************************************)
\* The difference of two multiples is one.
LEMMA ModDifference ==
  ASSUME NEW a \in Nat, NEW b \in Nat, NEW d \in Nat \ {0}, a % d = 0, b % d = 0, a <= b
  PROVE  (b - a) % d = 0
<1>1. PICK k \in Nat : a = d * k
  BY ModMultiple
<1>2. PICK l \in Nat : b = d * l
  BY ModMultiple
<1>3. d * k <= d * l
  BY <1>1, <1>2
<1>4. k <= l
  <2> SUFFICES ASSUME k >= l + 1 PROVE FALSE
    OBVIOUS
  <2>1. d * k >= d * (l + 1)
    OBVIOUS
  <2>2. d * (l + 1) = d * l + d
    OBVIOUS
  <2> QED
    BY <1>3, <2>1, <2>2
<1>5. l - k \in Nat /\ b - a = d * (l - k)
  BY <1>1, <1>2, <1>4
<1> QED
  BY <1>5, MultipleMod

\* Of two multiples the larger is larger by as much.
LEMMA NextMultiple ==
  ASSUME NEW a \in Nat, NEW b \in Nat, NEW d \in Nat \ {0}, a % d = 0, b % d = 0, a < b
  PROVE  a + d <= b
<1>1. (b - a) % d = 0 /\ b - a \in Nat \ {0}
  <2>1. a <= b /\ b - a \in Nat \ {0}
    OBVIOUS
  <2> QED
    BY <2>1, ModDifference
<1>2. PICK k \in Nat : b - a = d * k
  BY <1>1, ModMultiple
<1>3. k # 0
  BY <1>1, <1>2
<1>4. d <= d * k
  BY <1>3
<1> QED
  BY <1>2, <1>4

\* A multiple of 2p that lies in an aligned range starts a node of that
\* range, or it is the range's first and p is not below its size.
LEMMA NodeAt ==
  ASSUME NEW s \in Pow2, NEW lo \in Nat, lo % s = 0, NEW c \in lo..(lo + s - 1),
         NEW p \in Pow2, c % (2 * p) = 0
  PROVE  c + 2 * p <= lo + s \/ (c = lo /\ s <= p)
<1>1. s \in Nat \ {0} /\ p \in Nat \ {0} /\ 2 * p \in Nat \ {0} /\ c \in Nat
  BY Pow2Type
<1>2. CASE p < s
  <2>1. s % (2 * p) = 0
    BY <1>2, Pow2Double
  <2>2. lo % (2 * p) = 0
    BY <1>1, <2>1, ModTransitive
  <2>3. (lo + s) % (2 * p) = 0
    BY <1>1, <2>1, <2>2, ModSum
  <2>4. lo + s \in Nat /\ c < lo + s
    BY <1>1
  <2> QED
    BY <1>1, <2>3, <2>4, NextMultiple
<1>3. CASE s <= p
  <2>1. p % s = 0
    BY <1>3, Pow2Chain
  <2>2. (2 * p) % s = 0
    BY <1>1, <2>1, ModSum, 2 * p = p + p
  <2>3. c % s = 0
    BY <1>1, <2>2, ModTransitive
  <2>4. ~(lo < c)
    BY <1>1, <2>3, NextMultiple
  <2> QED
    BY <1>1, <1>3, <2>4
<1> QED
  BY <1>1, <1>2, <1>3

\* The smaller of two numbers.
LEMMA MinOfTwo ==
  ASSUME NEW a \in Int, NEW b \in Int
  PROVE  Min({a, b}) = IF a <= b THEN a ELSE b
<1>1. \E x \in {a, b} : \A y \in {a, b} : x <= y
  OBVIOUS
<1>2. Min({a, b}) \in {a, b} /\ \A y \in {a, b} : Min({a, b}) <= y
  BY <1>1 DEF Min
<1> QED
  BY <1>2
-----------------------------------------------------------------------------
(***************************************************************************)
(* The nodes of a tree by the chunks they start at.  Suffix is the part of *)
(* the reference tree from chunk lo on, and SuffixTop the node that covers *)
(* all of it.                                                              *)
(***************************************************************************)
Bytes(c, len) == IF c < ChunkCount(len) - 1 THEN CHUNK_LEN ELSE len - c * CHUNK_LEN

\* The nodes of a message's tree from chunk lo on, and the one on top of them.
Suffix(md, lo, len) ==
  LET N == ChunkCount(len)
  IN  {ChunkNode(md, c, c * CHUNK_LEN, Bytes(c, len)) : c \in lo..(N-1)}
        \cup
      {ParentNode(md, cp[1], cp[1] + cp[2], Min({cp[1] + 2 * cp[2], N})) :
         cp \in {cp \in (lo..(N-1)) \X Pow2 :
                   cp[1] % (2 * cp[2]) = 0 /\ cp[1] + cp[2] < N}}

SuffixTop(md, lo, len) ==
  LET N == ChunkCount(len)
  IN  IF N = lo + 1 THEN ChunkNode(md, lo, lo * CHUNK_LEN, len - lo * CHUNK_LEN)
      ELSE ParentNode(md, lo, lo + Max({p \in Pow2 : p < N - lo}), N)

\* The nodes of a complete subtree whose bytes are where its chunks are.
SubtreeNodes(md, lo, n) == CompleteNodes(md, lo, n, lo * CHUNK_LEN)

\* From the first chunk on they are the tree, and its root.
LEMMA SuffixFromStart ==
  ASSUME NEW md, NEW len \in Nat
  PROVE  /\ Suffix(md, 0, len) = RefNodes(md, len)
         /\ SuffixTop(md, 0, len) = RefRoot(md, len)
<1> DEFINE N == ChunkCount(len)
<1>1. CHUNK_LEN \in Nat \ {0}
  BY Pow2Type
<1>2. N \in Nat
  BY <1>1 DEF ChunkCount
<1>3. 0 * CHUNK_LEN = 0 /\ len - 0 = len /\ N - 0 = N /\ 0 + 1 = 1
  BY <1>1, <1>2
<1>4. Suffix(md, 0, len) = RefNodes(md, len)
  BY DEF Suffix, RefNodes, Bytes
<1>5. CASE N = 1
  BY <1>3, <1>4, <1>5 DEF SuffixTop, RefRoot
<1>6. CASE N # 1
  <2> DEFINE P == Max({p \in Pow2 : p < N})
  <2>1. 0 + P = P
    <3>1. Pow2 \subseteq 0..MaxLen /\ MaxLen \in Nat /\ 1 \in Pow2
      BY Pow2Type
    <3>2. N # 0
      BY <1>1 DEF ChunkCount
    <3>3. {p \in Pow2 : p < N} # {} /\ {p \in Pow2 : p < N} \subseteq 0..MaxLen
      <4>1. 1 < N
        BY <1>2, <1>6, <3>2
      <4> QED
        BY <3>1, <4>1
    <3>4. P \in 0..MaxLen
      BY <3>1, <3>3, MaxIsGreatest
    <3> QED
      BY <3>1, <3>4
  <2> QED
    BY <1>3, <1>4, <1>6, <2>1 DEF SuffixTop, RefRoot
<1> QED
  BY <1>4, <1>5, <1>6

\* Membership in either, in the form the proofs use it.
OfSuffix(node, md, lo, len) ==
  LET N == ChunkCount(len)
  IN  \/ \E c \in lo..(N-1) : node = ChunkNode(md, c, c * CHUNK_LEN, Bytes(c, len))
      \/ \E c \in lo..(N-1), p \in Pow2 :
           /\ c % (2 * p) = 0 /\ c + p < N
           /\ node = ParentNode(md, c, c + p, Min({c + 2 * p, N}))

OfSubtree(node, md, lo, n) ==
  \/ \E c \in lo..(lo + n - 1) : node = ChunkNode(md, c, c * CHUNK_LEN, CHUNK_LEN)
  \/ \E c \in lo..(lo + n - 1), p \in Pow2 :
       /\ c % (2 * p) = 0 /\ c + 2 * p <= lo + n
       /\ node = ParentNode(md, c, c + p, c + 2 * p)

\* A node is of the end of the tree as OfSuffix says.
LEMMA InSuffix ==
  ASSUME NEW md, NEW lo \in Nat, NEW len \in Nat, NEW node
  PROVE  node \in Suffix(md, lo, len) <=> OfSuffix(node, md, lo, len)
<1> DEFINE N == ChunkCount(len)
           Pairs == {cp \in (lo..(N-1)) \X Pow2 : cp[1] % (2 * cp[2]) = 0 /\ cp[1] + cp[2] < N}
           Parents == {ParentNode(md, cp[1], cp[1] + cp[2], Min({cp[1] + 2 * cp[2], N})) : cp \in Pairs}
<1>1. node \in Parents <=>
        \E c \in lo..(N-1), p \in Pow2 :
          /\ c % (2 * p) = 0 /\ c + p < N
          /\ node = ParentNode(md, c, c + p, Min({c + 2 * p, N}))
  <2>1. ASSUME node \in Parents
        PROVE  \E c \in lo..(N-1), p \in Pow2 :
                 /\ c % (2 * p) = 0 /\ c + p < N
                 /\ node = ParentNode(md, c, c + p, Min({c + 2 * p, N}))
    <3>1. PICK cp \in Pairs : node = ParentNode(md, cp[1], cp[1] + cp[2], Min({cp[1] + 2 * cp[2], N}))
      BY <2>1
    <3> QED
      BY <3>1
  <2>2. ASSUME NEW c \in lo..(N-1), NEW p \in Pow2, c % (2 * p) = 0, c + p < N,
               node = ParentNode(md, c, c + p, Min({c + 2 * p, N}))
        PROVE  node \in Parents
    <3> DEFINE cp == <<c, p>>
    <3>1. cp \in Pairs /\ cp[1] = c /\ cp[2] = p
      BY <2>2
    <3>2. node = ParentNode(md, cp[1], cp[1] + cp[2], Min({cp[1] + 2 * cp[2], N}))
      BY <2>2
    <3> QED
      BY <3>1, <3>2
  <2> QED
    BY <2>1, <2>2
<1> QED
  BY <1>1 DEF Suffix, OfSuffix

\* A node is of a complete subtree as OfSubtree says.
LEMMA InSubtree ==
  ASSUME NEW md, NEW lo \in Nat, NEW n \in Pow2, lo % n = 0, NEW node
  PROVE  node \in SubtreeNodes(md, lo, n) <=> OfSubtree(node, md, lo, n)
<1>1. n \in Nat \ {0} /\ CHUNK_LEN \in Nat \ {0}
  BY Pow2Type
<1> DEFINE Chunks == {ChunkNode(md, lo + i, lo * CHUNK_LEN + i * CHUNK_LEN, CHUNK_LEN) : i \in 0..(n-1)}
           Pairs == {ip \in (0..(n-1)) \X Pow2 : ip[1] % (2 * ip[2]) = 0 /\ ip[1] + 2 * ip[2] <= n}
           Parents == {ParentNode(md, lo + ip[1], lo + ip[1] + ip[2], lo + ip[1] + 2 * ip[2]) : ip \in Pairs}
<1>2. SubtreeNodes(md, lo, n) = Chunks \cup Parents
  BY DEF SubtreeNodes, CompleteNodes
<1>3. ASSUME NEW p \in Pow2, 2 * p <= n
      PROVE  2 * p \in Nat \ {0} /\ lo % (2 * p) = 0
  <2>1. p \in Nat \ {0} /\ 2 * p \in Nat \ {0} /\ p < n
    BY <1>1, <1>3, Pow2Type
  <2>2. n % (2 * p) = 0
    BY <2>1, Pow2Double
  <2> QED
    BY <1>1, <2>1, <2>2, ModTransitive
<1>4. node \in Chunks <=>
        \E c \in lo..(lo + n - 1) : node = ChunkNode(md, c, c * CHUNK_LEN, CHUNK_LEN)
  <2>1. ASSUME NEW i \in 0..(n-1)
        PROVE  lo + i \in lo..(lo + n - 1) /\ lo * CHUNK_LEN + i * CHUNK_LEN = (lo + i) * CHUNK_LEN
    BY <1>1
  <2>2. ASSUME NEW c \in lo..(lo + n - 1)
        PROVE  c - lo \in 0..(n-1) /\ lo + (c - lo) = c
    BY <1>1
  <2>3. ASSUME node \in Chunks
        PROVE  \E c \in lo..(lo + n - 1) : node = ChunkNode(md, c, c * CHUNK_LEN, CHUNK_LEN)
    BY <2>1, <2>3
  <2>4. ASSUME NEW c \in lo..(lo + n - 1), node = ChunkNode(md, c, c * CHUNK_LEN, CHUNK_LEN)
        PROVE  node \in Chunks
    BY <2>1, <2>2, <2>4
  <2> QED
    BY <2>3, <2>4
<1>5. node \in Parents <=>
        \E c \in lo..(lo + n - 1), p \in Pow2 :
          /\ c % (2 * p) = 0 /\ c + 2 * p <= lo + n
          /\ node = ParentNode(md, c, c + p, c + 2 * p)
  <2>1. ASSUME node \in Parents
        PROVE  \E c \in lo..(lo + n - 1), p \in Pow2 :
                 /\ c % (2 * p) = 0 /\ c + 2 * p <= lo + n
                 /\ node = ParentNode(md, c, c + p, c + 2 * p)
    <3>1. PICK ip \in Pairs : node = ParentNode(md, lo + ip[1], lo + ip[1] + ip[2], lo + ip[1] + 2 * ip[2])
      BY <2>1
    <3> DEFINE i == ip[1]
               p == ip[2]
    <3>2. i \in 0..(n-1) /\ p \in Pow2 /\ i % (2 * p) = 0 /\ i + 2 * p <= n
      OBVIOUS
    <3>3. node = ParentNode(md, lo + i, lo + i + p, lo + i + 2 * p)
      BY <3>1
    <3> HIDE DEF i, p
    <3>4. p \in Nat \ {0} /\ 2 * p <= n
      BY <1>1, <3>2, Pow2Type
    <3>5. (lo + i) % (2 * p) = 0
      BY <1>3, <3>2, <3>4, ModSum, i \in Nat
    <3>6. lo + i \in lo..(lo + n - 1) /\ lo + i + 2 * p <= lo + n
      BY <1>1, <3>2, <3>4
    <3> QED
      BY <3>2, <3>3, <3>5, <3>6
  <2>2. ASSUME NEW c \in lo..(lo + n - 1), NEW p \in Pow2, c % (2 * p) = 0, c + 2 * p <= lo + n,
               node = ParentNode(md, c, c + p, c + 2 * p)
        PROVE  node \in Parents
    <3> DEFINE i == c - lo
    <3>1. p \in Nat \ {0} /\ c \in Nat /\ lo <= c
      BY <1>1, Pow2Type
    <3>2. i \in 0..(n-1) /\ i + 2 * p <= n /\ 2 * p <= n /\ lo + i = c
      BY <1>1, <2>2, <3>1
    <3>3. i % (2 * p) = 0
      BY <1>3, <2>2, <3>1, <3>2, ModDifference
    <3>4. <<i, p>> \in Pairs
      BY <3>2, <3>3
    <3>5. node = ParentNode(md, lo + i, lo + i + p, lo + i + 2 * p)
      BY <2>2, <3>2
    <3> QED
      BY <3>4, <3>5
  <2> QED
    BY <2>1, <2>2
<1> QED
  BY <1>2, <1>4, <1>5 DEF OfSubtree
-----------------------------------------------------------------------------
(***************************************************************************)
(* The number of chunks.                                                   *)
(***************************************************************************)
LEMMA ChunkCountFacts ==
  ASSUME NEW len \in Nat
  PROVE  LET N == ChunkCount(len)
         IN  /\ N \in Nat \ {0}
             /\ len <= N * CHUNK_LEN
             /\ len > 0 => (N - 1) * CHUNK_LEN < len
<1> DEFINE N == ChunkCount(len)
           x == len + CHUNK_LEN - 1
<1>1. CHUNK_LEN \in Nat \ {0}
  BY Pow2Type
<1>2. CASE len = 0
  BY <1>1, <1>2 DEF ChunkCount
<1>3. CASE len # 0
  <2>1. N = x \div CHUNK_LEN /\ x \in Nat
    BY <1>1, <1>3 DEF ChunkCount
  <2>2. N \in Nat /\ x = CHUNK_LEN * N + (x % CHUNK_LEN) /\ x % CHUNK_LEN \in 0..(CHUNK_LEN - 1)
    BY <1>1, <2>1, DivisionOf
  <2>3. CHUNK_LEN * N = N * CHUNK_LEN /\ (N - 1) * CHUNK_LEN = N * CHUNK_LEN - CHUNK_LEN
        /\ N * CHUNK_LEN \in Nat
    BY <1>1, <2>2
  <2> DEFINE all == N * CHUNK_LEN
             less == (N - 1) * CHUNK_LEN
             rest == x % CHUNK_LEN
  <2>4. all \in Nat /\ less = all - CHUNK_LEN /\ x = all + rest /\ rest \in 0..(CHUNK_LEN - 1)
    BY <2>2, <2>3
  <2>5. N # 0
    <3>1. x >= CHUNK_LEN
      BY <1>1, <1>3
    <3>2. N = 0 => all = 0
      BY <1>1
    <3> HIDE DEF all, less, rest, N
    <3> QED
      BY <1>1, <2>4, <3>1, <3>2
  <2>6. len <= all /\ less < len
    <3> HIDE DEF all, less, rest, N
    <3> QED
      BY <1>1, <2>4
  <2> QED
    BY <2>2, <2>5, <2>6
<1> QED
  BY <1>2, <1>3

\* A count of whole chunks within a message, against the message's count.
LEMMA CountAgainst ==
  ASSUME NEW len \in Nat, NEW c \in Nat
  PROVE  LET N == ChunkCount(len)
         IN  /\ c * CHUNK_LEN \in Nat
             /\ c * CHUNK_LEN < len <=> len > 0 /\ c < N
             /\ c * CHUNK_LEN <= len => c <= N
             /\ N * CHUNK_LEN \in Nat
<1> DEFINE N == ChunkCount(len)
           all == N * CHUNK_LEN
           less == (N - 1) * CHUNK_LEN
           here == c * CHUNK_LEN
<1>1. CHUNK_LEN \in Nat \ {0} /\ N \in Nat \ {0}
  BY Pow2Type, ChunkCountFacts
<1>2. len <= all /\ (len > 0 => less < len)
  BY ChunkCountFacts
<1>3. here \in Nat /\ all \in Nat /\ less \in Nat
  BY <1>1
<1>4. c < N => here <= less
  <2>1. c < N => c <= N - 1
    BY <1>1
  <2> HIDE DEF N
  <2> QED
    BY <1>1, <2>1
<1>5. N <= c => all <= here
  <2> HIDE DEF N
  <2> QED
    BY <1>1
<1>6. N < c => all < here
  <2> SUFFICES ASSUME N + 1 <= c PROVE all < here
    BY <1>1
  <2>1. (N + 1) * CHUNK_LEN <= here /\ (N + 1) * CHUNK_LEN = all + CHUNK_LEN
    <3> HIDE DEF N
    <3> QED
      BY <1>1
  <2> HIDE DEF all, here
  <2> QED
    BY <1>1, <1>3, <2>1
<1>7. N \in Int /\ c \in Int /\ len \in Int
  BY <1>1
<1> HIDE DEF N, all, less, here
<1>8. here < len <=> len > 0 /\ c < N
  BY <1>2, <1>3, <1>4, <1>5, <1>7
<1>9. here <= len => c <= N
  BY <1>2, <1>3, <1>6, <1>7
<1> QED
  BY <1>3, <1>8, <1>9 DEF N, all, here

\* The bytes that are not in whole chunks make up one more chunk.
LEMMA CountOf ==
  ASSUME NEW c \in Nat, NEW n \in 0..CHUNK_LEN, n > 0 \/ c = 0
  PROVE  ChunkCount(c * CHUNK_LEN + n) = c + 1
<1> DEFINE done == c * CHUNK_LEN
<1>1. CHUNK_LEN \in Nat \ {0} /\ done \in Nat
  BY Pow2Type
<1>2. CASE n = 0
  BY <1>1, <1>2 DEF ChunkCount
<1>3. CASE n # 0
  <2>1. n - 1 \in 0..(CHUNK_LEN - 1) /\ n \in Nat /\ done + n # 0 /\ c + 1 \in Nat
    BY <1>1, <1>3
  <2>2. done + n + CHUNK_LEN - 1 = CHUNK_LEN * (c + 1) + (n - 1)
    BY <1>1, <2>1
  <2>3. (done + n + CHUNK_LEN - 1) \div CHUNK_LEN = c + 1
    BY <1>1, <2>1, <2>2, DivisionIs
  <2> QED
    BY <2>1, <2>3 DEF ChunkCount
<1> QED
  BY <1>2, <1>3

\* And a message of whole chunks has as many.
LEMMA CountOfWhole ==
  ASSUME NEW c \in Nat \ {0}
  PROVE  ChunkCount(c * CHUNK_LEN) = c
<1>1. CHUNK_LEN \in Nat \ {0} /\ CHUNK_LEN \in 0..CHUNK_LEN /\ c - 1 \in Nat
  BY Pow2Type
<1>2. c * CHUNK_LEN = (c - 1) * CHUNK_LEN + CHUNK_LEN /\ (c - 1) + 1 = c
  BY <1>1
<1>3. ChunkCount((c - 1) * CHUNK_LEN + CHUNK_LEN) = (c - 1) + 1
  <2> DEFINE d == c - 1
  <2>1. d \in Nat /\ CHUNK_LEN > 0 /\ CHUNK_LEN \in 0..CHUNK_LEN
    BY <1>1
  <2> HIDE DEF d
  <2>2. ChunkCount(d * CHUNK_LEN + CHUNK_LEN) = d + 1
    BY <2>1, CountOf
  <2> QED
    BY <2>2 DEF d
<1> QED
  BY <1>2, <1>3-----------------------------------------------------------------------------
(***************************************************************************)
(* The chunks of the subtree, counted from its own first one, and the      *)
(* ranges of them that a node covers.                                      *)
(***************************************************************************)
First == args.chunk_counter
Chunks == ChunkCount(args.input_len)

ArgsOK == args \in [mode : Modes, chunk_counter : Counters,
                    input_len : (CHUNK_LEN + 1)..MaxLen]

\* A parent of p chunks from lo on, and of those behind them up to hi.
Halved(lo, p, hi) ==
  lo % (2 * p) = 0 /\ lo + p < Chunks /\ hi = Min({lo + 2 * p, Chunks})

\* A chunk or a parent covers [lo, hi).
Covers(lo, hi) == (hi = lo + 1 /\ hi <= Chunks) \/ \E p \in Pow2 : Halved(lo, p, hi)

\* Input is more than a chunk and at most the bound.
LEMMA ArgFacts ==
  ASSUME ArgsOK
  PROVE  /\ args.input_len \in Nat /\ args.input_len > CHUNK_LEN /\ args.input_len <= MaxLen
         /\ First \in Nat
         /\ Chunks \in Nat /\ Chunks >= 2 /\ Chunks <= MaxLen
         /\ CHUNK_LEN \in Nat \ {0}
<1>1. CHUNK_LEN \in Nat \ {0} /\ MaxLen \in Nat
  BY Pow2Type
<1>2. args.input_len \in Nat /\ args.input_len > CHUNK_LEN /\ args.input_len <= MaxLen
  BY <1>1 DEF ArgsOK
<1>3. First \in Nat
  BY TargetsAssumption DEF ArgsOK, First
<1>4. /\ Chunks \in Nat \ {0}
      /\ args.input_len <= Chunks * CHUNK_LEN
      /\ (Chunks - 1) * CHUNK_LEN < args.input_len
  BY <1>1, <1>2, ChunkCountFacts DEF Chunks
<1> DEFINE N == Chunks
<1> HIDE DEF N
<1>5. N \in Nat \ {0} /\ args.input_len <= N * CHUNK_LEN /\ (N - 1) * CHUNK_LEN < args.input_len
  BY <1>4 DEF N
<1>6. N # 1
  <2>1. 1 * CHUNK_LEN = CHUNK_LEN
    BY <1>1
  <2> QED
    BY <1>1, <1>2, <1>5, <2>1
<1>7. N - 1 <= (N - 1) * CHUNK_LEN
  BY <1>1, <1>5, ProductGrows
<1>8. (N - 1) * CHUNK_LEN \in Nat
  BY <1>1, <1>5
<1>9. N <= MaxLen
  <2> DEFINE y == (N - 1) * CHUNK_LEN
  <2>1. N - 1 <= y /\ y \in Nat /\ y < args.input_len
    BY <1>5, <1>7, <1>8
  <2> HIDE DEF y
  <2> QED
    BY <1>1, <1>2, <1>5, <2>1
<1> QED
  BY <1>1, <1>2, <1>3, <1>5, <1>6, <1>9 DEF N

\* The bounds of a parent's range.
LEMMA HalvedFacts ==
  ASSUME ArgsOK, NEW lo \in Nat, NEW p \in Pow2, NEW hi, Halved(lo, p, hi)
  PROVE  /\ p \in Nat \ {0} /\ hi \in Nat /\ hi <= Chunks /\ lo + p < hi /\ hi <= lo + 2 * p
         /\ hi = lo + 2 * p \/ hi = Chunks
         /\ hi = IF lo + 2 * p <= Chunks THEN lo + 2 * p ELSE Chunks
<1>1. p \in Nat \ {0} /\ Chunks \in Nat
  BY Pow2Type, ArgFacts
<1>2. hi = IF lo + 2 * p <= Chunks THEN lo + 2 * p ELSE Chunks
  BY <1>1, MinOfTwo DEF Halved
<1> QED
  BY <1>1, <1>2 DEF Halved

\* Ranges are within the subtree.
LEMMA CoversFacts ==
  ASSUME ArgsOK, NEW lo \in Nat, NEW hi, Covers(lo, hi)
  PROVE  hi \in Nat /\ lo < hi /\ hi <= Chunks
<1>1. Chunks \in Nat
  BY ArgFacts
<1>2. CASE hi = lo + 1 /\ hi <= Chunks
  BY <1>1, <1>2
<1>3. CASE \E p \in Pow2 : Halved(lo, p, hi)
  <2>1. PICK p \in Pow2 : Halved(lo, p, hi)
    BY <1>3
  <2> QED
    BY <2>1, HalvedFacts
<1> QED
  BY <1>2, <1>3 DEF Covers

\* Of the powers of two below a number of chunks there is a largest one, and
\* twice it is not below.
LEMMA LargestBelow ==
  ASSUME NEW n \in Nat, n >= 2, n <= MaxLen
  PROVE  LET P == Max({p \in Pow2 : p < n})
         IN  P \in Pow2 /\ P < n /\ n <= 2 * P /\ \A q \in Pow2 : q < n => q <= P
<1> DEFINE Less == {p \in Pow2 : p < n}
           P == Max(Less)
<1>1. Less \in SUBSET (0..MaxLen) /\ Less # {} /\ MaxLen \in Nat
  <2>1. 1 \in Less
    BY Pow2Type
  <2> QED
    BY <2>1, Pow2Type
<1>2. P \in Less /\ \A q \in Less : q <= P
  <2> HIDE DEF Less
  <2> QED
    BY <1>1, MaxIsGreatest
<1>3. P \in Pow2 /\ P < n /\ \A q \in Pow2 : q < n => q <= P
  BY <1>2
<1> HIDE DEF P
<1>4. P \in Nat \ {0}
  BY <1>3, Pow2Type
<1>5. n <= 2 * P
  <2> SUFFICES ASSUME 2 * P < n PROVE FALSE
    BY <1>4
  <2>1. 2 * P \in Pow2
    BY <1>1, <1>3, <1>4, Pow2Twice
  <2> QED
    BY <1>3, <1>4, <2>1
<1> QED
  BY <1>3, <1>5 DEF P

\* The whole subtree is covered by its root.
LEMMA WholeCovered ==
  ASSUME ArgsOK
  PROVE  Halved(0, Max({p \in Pow2 : p < Chunks}), Chunks) /\ Covers(0, Chunks)
<1> DEFINE P == Max({p \in Pow2 : p < Chunks})
<1>1. Chunks \in Nat /\ Chunks >= 2 /\ Chunks <= MaxLen
  BY ArgFacts
<1>2. P \in Pow2 /\ P < Chunks /\ Chunks <= 2 * P
  BY <1>1, LargestBelow
<1> HIDE DEF P
<1>3. P \in Nat \ {0} /\ 2 * P \in Nat \ {0}
  BY <1>2, Pow2Type
<1>4. 0 % (2 * P) = 0
  BY <1>3, MultipleMod, (2 * P) * 0 = 0
<1>5. Min({0 + 2 * P, Chunks}) = Chunks
  BY <1>1, <1>2, <1>3, MinOfTwo
<1>6. Halved(0, P, Chunks)
  BY <1>1, <1>2, <1>3, <1>4, <1>5 DEF Halved
<1> QED
  BY <1>2, <1>6 DEF P, Covers

\* The largest power of two below a node's chunks is where its halves meet,
\* and both halves are nodes.
LEMMA SplitRange ==
  ASSUME ArgsOK, NEW lo \in Nat, NEW hi, Covers(lo, hi), NEW P \in Pow2,
         P < hi - lo, \A q \in Pow2 : q < hi - lo => q <= P
  PROVE  Halved(lo, P, hi) /\ Covers(lo, lo + P) /\ Covers(lo + P, hi)
<1>1. hi \in Nat /\ lo < hi /\ hi <= Chunks /\ Chunks \in Nat /\ Chunks <= MaxLen
      /\ P \in Nat \ {0} /\ MaxLen \in Nat
  BY CoversFacts, ArgFacts, Pow2Type
<1>2. PICK p \in Pow2 : Halved(lo, p, hi)
  BY <1>1 DEF Covers
<1>3. /\ p \in Nat \ {0} /\ lo + p < hi /\ hi <= lo + 2 * p
      /\ hi = lo + 2 * p \/ hi = Chunks
  BY <1>2, HalvedFacts
<1>4. P = p
  <2>1. p <= P
    BY <1>1, <1>3
  <2>2. ~(p < P)
    <3> SUFFICES ASSUME p < P PROVE FALSE
      OBVIOUS
    <3>1. 2 * p <= P
      BY Pow2Double
    <3> QED
      BY <1>1, <1>3, <3>1
  <2> QED
    BY <1>1, <1>3, <2>1, <2>2
<1>5. Covers(lo, lo + p)
  <2>1. CASE p = 1
    BY <1>1, <1>3, <2>1 DEF Covers
  <2>2. CASE p # 1
    <3>1. PICK h \in Nat : p = 2 * h
      BY <1>3, <2>2, Pow2Even, ModMultiple
    <3>2. h \in Nat \ {0} /\ p = h * 2
      BY <1>3, <3>1
    <3>3. h \in Pow2
      BY <3>2, Pow2Divisor, 2 \in Nat
    <3>4. lo % (2 * h) = 0
      <4>1. lo % (2 * p) = 0 /\ 2 * p \in Nat \ {0} /\ 2 * p = p * 2
        BY <1>2, <1>3 DEF Halved
      <4>2. (2 * p) % p = 0
        BY <1>3, <4>1, MultipleMod, 2 \in Nat
      <4>3. lo % p = 0
        BY <1>3, <4>1, <4>2, ModTransitive
      <4> QED
        BY <3>1, <4>3
    <3>5. lo + p = Min({lo + 2 * h, Chunks})
      BY <1>1, <1>3, <3>1, MinOfTwo
    <3>6. Halved(lo, h, lo + p)
      BY <1>1, <1>3, <3>1, <3>2, <3>4, <3>5 DEF Halved
    <3> QED
      BY <3>3, <3>6 DEF Covers
  <2> QED
    BY <2>1, <2>2
<1>6. Covers(lo + p, hi)
  <2>1. CASE hi = lo + p + 1
    BY <1>1, <2>1 DEF Covers
  <2>2. CASE hi # lo + p + 1
    <3> DEFINE n == hi - (lo + p)
               h == Max({q \in Pow2 : q < n})
    <3>1. n \in Nat /\ n >= 2 /\ n <= p /\ n <= MaxLen
      BY <1>1, <1>3, <2>2
    <3>2. h \in Pow2 /\ h < n /\ n <= 2 * h
      <4> HIDE DEF n
      <4> QED
        BY <3>1, LargestBelow
    <3> HIDE DEF h
    <3>3. h \in Nat \ {0} /\ h < p /\ 2 * h \in Nat \ {0}
      <4>1. h \in Nat \ {0}
        BY <3>2, Pow2Type
      <4> QED
        BY <1>3, <3>1, <3>2, <4>1
    <3>4. 2 * h <= p /\ p % (2 * h) = 0
      BY <3>2, <3>3, Pow2Double
    <3>5. (lo + p) % (2 * h) = 0
      <4>1. lo % (2 * p) = 0 /\ 2 * p \in Nat \ {0} /\ 2 * p = p * 2
        BY <1>2, <1>3 DEF Halved
      <4>2. (2 * p) % p = 0
        BY <1>3, <4>1, MultipleMod, 2 \in Nat
      <4>3. lo % p = 0
        BY <1>3, <4>1, <4>2, ModTransitive
      <4>4. lo % (2 * h) = 0
        BY <1>3, <3>3, <3>4, <4>3, ModTransitive
      <4> QED
        BY <1>3, <3>3, <3>4, <4>4, ModSum
    <3>6. hi = Min({(lo + p) + 2 * h, Chunks}) /\ (lo + p) + h < Chunks
      BY <1>1, <1>3, <3>1, <3>2, <3>3, <3>4, MinOfTwo
    <3>7. Halved(lo + p, h, hi)
      BY <3>5, <3>6 DEF Halved
    <3> QED
      BY <3>2, <3>7 DEF Covers
  <2> QED
    BY <2>1, <2>2
<1> QED
  BY <1>2, <1>4, <1>5, <1>6
-----------------------------------------------------------------------------
(***************************************************************************)
(* Reference chaining values: a chunk's, and a parent's of those below it. *)
(***************************************************************************)
\* The nodes of the reference that RefCV moves to their place.
Part(lo, hi) ==
  {x \in RefNodes(args.mode, args.input_len) :
     /\ x[3] >= lo
     /\ IF x[1] = "chunk" THEN x[3] < hi ELSE x[5] <= hi}

\* The nodes of the reference, one by one.
LEMMA InReference ==
  ASSUME ArgsOK, NEW node
  PROVE  node \in RefNodes(args.mode, args.input_len) <=>
           \/ \E c \in 0..(Chunks - 1) :
                node = ChunkNode(args.mode, c, c * CHUNK_LEN, Bytes(c, args.input_len))
           \/ \E c \in 0..(Chunks - 1), p \in Pow2 :
                /\ c % (2 * p) = 0 /\ c + p < Chunks
                /\ node = ParentNode(args.mode, c, c + p, Min({c + 2 * p, Chunks}))
<1>1. args.input_len \in Nat
  BY ArgFacts
<1>2. node \in RefNodes(args.mode, args.input_len) <=> OfSuffix(node, args.mode, 0, args.input_len)
  BY <1>1, InSuffix, SuffixFromStart, 0 \in Nat
<1> QED
  BY <1>2 DEF OfSuffix, Chunks

\* What is in a part: its chunks, and the parents that cover nothing else.
OfPart(node, lo, hi) ==
  \/ \E c \in 0..(Chunks - 1) :
       /\ lo <= c /\ c < hi
       /\ node = ChunkNode(args.mode, c, c * CHUNK_LEN, Bytes(c, args.input_len))
  \/ \E c \in 0..(Chunks - 1), p \in Pow2 :
       /\ c % (2 * p) = 0 /\ c + p < Chunks
       /\ lo <= c /\ Min({c + 2 * p, Chunks}) <= hi
       /\ node = ParentNode(args.mode, c, c + p, Min({c + 2 * p, Chunks}))

\* The nodes of a part, one by one.
LEMMA PartOf ==
  ASSUME ArgsOK, NEW lo \in Nat, NEW hi \in Nat, NEW node
  PROVE  node \in Part(lo, hi) <=> OfPart(node, lo, hi)
<1>1. ASSUME NEW c
      PROVE  LET x == ChunkNode(args.mode, c, c * CHUNK_LEN, Bytes(c, args.input_len))
             IN  x[1] = "chunk" /\ x[3] = c
  BY DEF ChunkNode
<1>2. ASSUME NEW c, NEW p, NEW e
      PROVE  LET x == ParentNode(args.mode, c, p, e)
             IN  x[1] # "chunk" /\ x[3] = c /\ x[5] = e
  BY DEF ParentNode
<1>3. Chunks \in Nat
  BY ArgFacts
<1>4. ASSUME NEW c \in 0..(Chunks - 1),
             node = ChunkNode(args.mode, c, c * CHUNK_LEN, Bytes(c, args.input_len))
      PROVE  /\ node \in RefNodes(args.mode, args.input_len)
             /\ node \in Part(lo, hi) <=> lo <= c /\ c < hi
  <2>1. node \in RefNodes(args.mode, args.input_len)
    BY <1>4, InReference
  <2>2. node[1] = "chunk" /\ node[3] = c
    BY <1>1, <1>4
  <2> QED
    BY <1>3, <2>1, <2>2 DEF Part
<1>5. ASSUME NEW c \in 0..(Chunks - 1), NEW p \in Pow2, c % (2 * p) = 0, c + p < Chunks,
             node = ParentNode(args.mode, c, c + p, Min({c + 2 * p, Chunks}))
      PROVE  /\ node \in RefNodes(args.mode, args.input_len)
             /\ node \in Part(lo, hi) <=> lo <= c /\ Min({c + 2 * p, Chunks}) <= hi
  <2>1. node \in RefNodes(args.mode, args.input_len)
    BY <1>5, InReference
  <2>2. node[1] # "chunk" /\ node[3] = c /\ node[5] = Min({c + 2 * p, Chunks})
    BY <1>2, <1>5
  <2> QED
    BY <1>3, <2>1, <2>2 DEF Part
<1>6. node \in Part(lo, hi) => node \in RefNodes(args.mode, args.input_len)
  BY DEF Part
<1>7. ASSUME node \in Part(lo, hi),
             ~ \E c \in 0..(Chunks - 1) :
                 /\ lo <= c /\ c < hi
                 /\ node = ChunkNode(args.mode, c, c * CHUNK_LEN, Bytes(c, args.input_len))
      PROVE  \E c \in 0..(Chunks - 1), p \in Pow2 :
               /\ c % (2 * p) = 0 /\ c + p < Chunks
               /\ lo <= c /\ Min({c + 2 * p, Chunks}) <= hi
               /\ node = ParentNode(args.mode, c, c + p, Min({c + 2 * p, Chunks}))
  <2>1. ~ \E c \in 0..(Chunks - 1) :
            node = ChunkNode(args.mode, c, c * CHUNK_LEN, Bytes(c, args.input_len))
    BY <1>4, <1>7
  <2>2. PICK c \in 0..(Chunks - 1), p \in Pow2 :
          /\ c % (2 * p) = 0 /\ c + p < Chunks
          /\ node = ParentNode(args.mode, c, c + p, Min({c + 2 * p, Chunks}))
    BY <1>6, <1>7, <2>1, InReference
  <2>3. lo <= c /\ Min({c + 2 * p, Chunks}) <= hi
    BY <1>5, <1>7, <2>2
  <2> QED
    BY <2>2, <2>3
<1>8. ASSUME NEW c \in 0..(Chunks - 1), lo <= c, c < hi,
             node = ChunkNode(args.mode, c, c * CHUNK_LEN, Bytes(c, args.input_len))
      PROVE  node \in Part(lo, hi)
  BY <1>4, <1>8
<1>9. ASSUME NEW c \in 0..(Chunks - 1), NEW p \in Pow2, c % (2 * p) = 0, c + p < Chunks,
             lo <= c, Min({c + 2 * p, Chunks}) <= hi,
             node = ParentNode(args.mode, c, c + p, Min({c + 2 * p, Chunks}))
      PROVE  node \in Part(lo, hi)
  BY <1>5, <1>9
<1> QED
  BY <1>7, <1>8, <1>9 DEF OfPart

\* A chunk's part is the chunk.
LEMMA PartOfChunk ==
  ASSUME ArgsOK, NEW lo \in Nat, lo < Chunks
  PROVE  Part(lo, lo + 1) =
           {ChunkNode(args.mode, lo, lo * CHUNK_LEN, Bytes(lo, args.input_len))}
<1>1. Chunks \in Nat /\ lo + 1 \in Nat /\ lo \in 0..(Chunks - 1)
  BY ArgFacts
<1>2. ASSUME NEW node, NEW c \in 0..(Chunks - 1), lo <= c, c < lo + 1
      PROVE  c = lo
  BY <1>1, <1>2
<1>3. ASSUME NEW c \in 0..(Chunks - 1), NEW p \in Pow2, c + p < Chunks, lo <= c
      PROVE  ~(Min({c + 2 * p, Chunks}) <= lo + 1)
  <2>1. p \in Nat \ {0}
    BY Pow2Type
  <2>2. Min({c + 2 * p, Chunks}) = IF c + 2 * p <= Chunks THEN c + 2 * p ELSE Chunks
    BY <1>1, <2>1, MinOfTwo
  <2> QED
    BY <1>1, <1>3, <2>1, <2>2
<1>4. ASSUME NEW node
      PROVE  node \in Part(lo, lo + 1) <=>
               node = ChunkNode(args.mode, lo, lo * CHUNK_LEN, Bytes(lo, args.input_len))
  <2>0. node \in Part(lo, lo + 1) <=> OfPart(node, lo, lo + 1)
    BY <1>1, PartOf
  <2>1. ASSUME node \in Part(lo, lo + 1)
        PROVE  node = ChunkNode(args.mode, lo, lo * CHUNK_LEN, Bytes(lo, args.input_len))
    <3>1. PICK c \in 0..(Chunks - 1) :
            /\ lo <= c /\ c < lo + 1
            /\ node = ChunkNode(args.mode, c, c * CHUNK_LEN, Bytes(c, args.input_len))
      BY <1>1, <1>3, <2>0, <2>1 DEF OfPart
    <3>2. c = lo
      BY <1>2, <3>1
    <3> QED
      BY <3>1, <3>2
  <2>2. ASSUME node = ChunkNode(args.mode, lo, lo * CHUNK_LEN, Bytes(lo, args.input_len))
        PROVE  node \in Part(lo, lo + 1)
    <3>1. lo <= lo /\ lo < lo + 1
      BY <1>1
    <3> QED
      BY <1>1, <2>0, <2>2, <3>1 DEF OfPart
  <2> QED
    BY <2>1, <2>2
<1> QED
  BY <1>4

\* A parent's part is its halves' and itself: a node that reaches from one
\* half into the other is the parent.
LEMMA PartOfParent ==
  ASSUME ArgsOK, NEW lo \in Nat, NEW p \in Pow2, NEW hi, Halved(lo, p, hi)
  PROVE  Part(lo, hi) = Part(lo, lo + p) \cup Part(lo + p, hi)
                          \cup {ParentNode(args.mode, lo, lo + p, hi)}
<1>1. /\ p \in Nat \ {0} /\ hi \in Nat /\ hi <= Chunks /\ lo + p < hi /\ hi <= lo + 2 * p
      /\ Chunks \in Nat /\ lo + p \in Nat /\ 2 * p \in Nat \ {0}
      /\ hi = IF lo + 2 * p <= Chunks THEN lo + 2 * p ELSE Chunks
  BY HalvedFacts, ArgFacts
<1>2. ASSUME NEW c \in Nat, NEW q \in Pow2, c % (2 * q) = 0, c + q < Chunks,
             lo <= c, Min({c + 2 * q, Chunks}) <= hi,
             c < lo + p, ~(Min({c + 2 * q, Chunks}) <= lo + p)
      PROVE  c = lo /\ q = p
  <2>1. q \in Nat \ {0} /\ 2 * q \in Nat \ {0}
    BY Pow2Type
  <2>2. Min({c + 2 * q, Chunks}) = IF c + 2 * q <= Chunks THEN c + 2 * q ELSE Chunks
    BY <1>1, <2>1, MinOfTwo
  <2>3. ~(q < p)
    <3> SUFFICES ASSUME q < p PROVE FALSE
      OBVIOUS
    <3>1. p % (2 * q) = 0
      BY Pow2Double
    <3>2. (2 * p) % p = 0
      BY <1>1, MultipleMod, 2 \in Nat, 2 * p = p * 2
    <3>3. lo % (2 * p) = 0
      BY DEF Halved
    <3>4. lo % p = 0
      BY <1>1, <3>2, <3>3, ModTransitive
    <3>5. lo % (2 * q) = 0
      BY <1>1, <2>1, <3>1, <3>4, ModTransitive
    <3>6. (lo + p) % (2 * q) = 0
      BY <1>1, <2>1, <3>1, <3>5, ModSum
    <3>7. c + 2 * q <= lo + p
      BY <1>1, <1>2, <2>1, <3>6, NextMultiple
    <3> QED
      BY <1>1, <1>2, <2>2, <3>7
  <2>4. c = lo
    <3>1. q % p = 0
      BY <1>1, <2>1, <2>3, Pow2Chain
    <3>2. PICK k \in Nat : q = p * k
      <4>1. q \in Nat /\ p \in Nat \ {0} /\ q % p = 0
        BY <1>1, <2>1, <3>1
      <4>2. q \div p \in Nat /\ q = p * (q \div p)
        BY ONLY <4>1, ModMultiple
      <4> QED
        BY <4>2
    <3>3. 2 * q = (2 * p) * k
      BY <1>1, <2>1, <3>2
    <3> DEFINE P2 == 2 * p
               Q2 == 2 * q
    <3>4. /\ P2 \in Nat \ {0} /\ Q2 \in Nat \ {0} /\ Q2 = P2 * k /\ c % Q2 = 0
      BY <1>1, <1>2, <2>1, <3>3
    <3>5. c % P2 = 0
      <4> HIDE DEF P2, Q2
      <4>1. Q2 % P2 = 0
        BY <3>4, MultipleMod
      <4> QED
        BY <3>4, <4>1, ModTransitive
    <3>6. ~(lo < c)
      <4> SUFFICES ASSUME lo < c PROVE FALSE
        OBVIOUS
      <4>1. lo % (2 * p) = 0
        BY DEF Halved
      <4>2. lo + 2 * p <= c
        BY <1>1, <3>5, <4>1, NextMultiple
      <4> QED
        BY <1>1, <1>2, <4>2
    <3> QED
      BY <1>1, <1>2, <3>6
  <2>5. ~(p < q)
    <3> SUFFICES ASSUME p < q PROVE FALSE
      OBVIOUS
    <3>1. 2 * p <= q
      BY Pow2Double
    <3> QED
      BY <1>1, <1>2, <2>1, <2>2, <2>4, <3>1
  <2> QED
    BY <1>1, <2>1, <2>3, <2>4, <2>5
<1> SUFFICES ASSUME NEW node
             PROVE  node \in Part(lo, hi) <=>
                      \/ node \in Part(lo, lo + p) \/ node \in Part(lo + p, hi)
                      \/ node = ParentNode(args.mode, lo, lo + p, hi)
  BY DEF Part
<1>0. /\ node \in Part(lo, hi) <=> OfPart(node, lo, hi)
      /\ node \in Part(lo, lo + p) <=> OfPart(node, lo, lo + p)
      /\ node \in Part(lo + p, hi) <=> OfPart(node, lo + p, hi)
  BY <1>1, PartOf
<1>3. ASSUME node \in Part(lo, hi),
             ~(node \in Part(lo, lo + p)), ~(node \in Part(lo + p, hi))
      PROVE  node = ParentNode(args.mode, lo, lo + p, hi)
  <2>1. ASSUME NEW c \in 0..(Chunks - 1), lo <= c, c < hi,
               node = ChunkNode(args.mode, c, c * CHUNK_LEN, Bytes(c, args.input_len))
        PROVE  FALSE
    <3>1. CASE c < lo + p
      BY <1>0, <1>3, <2>1, <3>1 DEF OfPart
    <3>2. CASE lo + p <= c
      BY <1>0, <1>3, <2>1, <3>2 DEF OfPart
    <3> QED
      BY <1>1, <3>1, <3>2
  <2>2. PICK c \in 0..(Chunks - 1), q \in Pow2 :
          /\ c % (2 * q) = 0 /\ c + q < Chunks
          /\ lo <= c /\ Min({c + 2 * q, Chunks}) <= hi
          /\ node = ParentNode(args.mode, c, c + q, Min({c + 2 * q, Chunks}))
    <3>1. OfPart(node, lo, hi)
      BY <1>0, <1>3
    <3> QED
      BY <2>1, <3>1 DEF OfPart
  <2>3. c < lo + p
    <3> SUFFICES ASSUME lo + p <= c PROVE FALSE
      BY <1>1
    <3> QED
      BY <1>0, <1>3, <2>2 DEF OfPart
  <2>4. ~(Min({c + 2 * q, Chunks}) <= lo + p)
    BY <1>0, <1>1, <1>3, <2>2 DEF OfPart
  <2>5. c = lo /\ q = p
    BY <1>1, <1>2, <2>2, <2>3, <2>4, c \in Nat
  <2> QED
    BY <2>2, <2>5 DEF Halved
<1>4. ASSUME NEW c \in 0..(Chunks - 1), NEW q \in Pow2, c + q < Chunks
      PROVE  Min({c + 2 * q, Chunks}) \in Nat /\ c < Min({c + 2 * q, Chunks})
  <2>1. q \in Nat \ {0}
    BY Pow2Type
  <2>2. Min({c + 2 * q, Chunks}) = IF c + 2 * q <= Chunks THEN c + 2 * q ELSE Chunks
    BY <1>1, <2>1, MinOfTwo
  <2> QED
    BY <1>1, <1>4, <2>1, <2>2
<1>5. ASSUME NEW a \in Nat, NEW b \in Nat, lo <= a, b <= hi, node \in Part(a, b)
      PROVE  node \in Part(lo, hi)
  <2>0. OfPart(node, a, b)
    BY <1>5, PartOf
  <2>1. CASE \E c \in 0..(Chunks - 1) :
               /\ a <= c /\ c < b
               /\ node = ChunkNode(args.mode, c, c * CHUNK_LEN, Bytes(c, args.input_len))
    <3>1. PICK c \in 0..(Chunks - 1) :
            /\ a <= c /\ c < b
            /\ node = ChunkNode(args.mode, c, c * CHUNK_LEN, Bytes(c, args.input_len))
      BY <2>1
    <3>2. lo <= c /\ c < hi
      BY <1>1, <1>5, <3>1
    <3> QED
      BY <1>0, <3>1, <3>2 DEF OfPart
  <2>2. CASE \E c \in 0..(Chunks - 1), q \in Pow2 :
               /\ c % (2 * q) = 0 /\ c + q < Chunks
               /\ a <= c /\ Min({c + 2 * q, Chunks}) <= b
               /\ node = ParentNode(args.mode, c, c + q, Min({c + 2 * q, Chunks}))
    <3>1. PICK c \in 0..(Chunks - 1), q \in Pow2 :
            /\ c % (2 * q) = 0 /\ c + q < Chunks
            /\ a <= c /\ Min({c + 2 * q, Chunks}) <= b
            /\ node = ParentNode(args.mode, c, c + q, Min({c + 2 * q, Chunks}))
      BY <2>2
    <3>2. lo <= c /\ Min({c + 2 * q, Chunks}) <= hi
      BY <1>1, <1>4, <1>5, <3>1
    <3> QED
      BY <1>0, <3>1, <3>2 DEF OfPart
  <2> QED
    BY <2>0, <2>1, <2>2 DEF OfPart
<1>6. ASSUME node = ParentNode(args.mode, lo, lo + p, hi)
      PROVE  node \in Part(lo, hi)
  <2>1. /\ lo \in 0..(Chunks - 1) /\ lo % (2 * p) = 0 /\ lo + p < Chunks
        /\ hi = Min({lo + 2 * p, Chunks}) /\ lo <= lo /\ hi <= hi
    BY <1>1 DEF Halved
  <2> QED
    BY <1>0, <1>6, <2>1 DEF OfPart
<1> QED
  BY <1>1, <1>3, <1>5, <1>6

\* The chaining value of a chunk.
LEMMA ChunkIsRef ==
  ASSUME ArgsOK, NEW lo \in Nat, lo < Chunks
  PROVE  output_chaining_value(chunk_output(args.mode,
           [counter |-> First + lo, at |-> (First + lo) * CHUNK_LEN,
            len |-> Bytes(lo, args.input_len)])) = RefCV(lo, lo + 1)
<1> DEFINE x == ChunkNode(args.mode, lo, lo * CHUNK_LEN, Bytes(lo, args.input_len))
           y == ChunkNode(args.mode, First + lo, (First + lo) * CHUNK_LEN,
                          Bytes(lo, args.input_len))
<1>1. First \in Nat /\ CHUNK_LEN \in Nat
  BY ArgFacts
<1>2. InMessage(x) = y
  <2>1. lo + First = First + lo /\ lo * CHUNK_LEN + First * CHUNK_LEN = (First + lo) * CHUNK_LEN
    BY <1>1
  <2> QED
    BY <2>1 DEF InMessage, ChunkNode, First
<1>3. {InMessage(z) : z \in Part(lo, lo + 1)} = {y}
  BY <1>2, PartOfChunk
<1>4. RefCV(lo, lo + 1) = [lo |-> First + lo, hi |-> First + (lo + 1), nodes |-> {y}]
  BY <1>3 DEF RefCV, Part, First
<1>5. First + (lo + 1) = First + lo + 1
  BY <1>1
<1> QED
  BY <1>4, <1>5 DEF output_chaining_value, chunk_output

\* The chaining value of a parent.
LEMMA ParentIsRef ==
  ASSUME ArgsOK, NEW lo \in Nat, NEW p \in Pow2, NEW hi, Halved(lo, p, hi)
  PROVE  output_chaining_value(parent_output(args.mode, RefCV(lo, lo + p), RefCV(lo + p, hi)))
           = RefCV(lo, hi)
<1> DEFINE x == ParentNode(args.mode, lo, lo + p, hi)
           y == ParentNode(args.mode, First + lo, First + (lo + p), First + hi)
           left == {InMessage(z) : z \in Part(lo, lo + p)}
           right == {InMessage(z) : z \in Part(lo + p, hi)}
<1>1. First \in Nat /\ p \in Nat /\ hi \in Nat
  BY ArgFacts, HalvedFacts
<1>2. InMessage(x) = y
  <2>1. lo + First = First + lo /\ (lo + p) + First = First + (lo + p) /\ hi + First = First + hi
    BY <1>1
  <2> QED
    BY <2>1 DEF InMessage, ParentNode, First
<1>3. {InMessage(z) : z \in Part(lo, hi)} = (left \cup right) \cup {y}
  BY <1>2, PartOfParent
<1>4. RefCV(lo, hi) = [lo |-> First + lo, hi |-> First + hi, nodes |-> (left \cup right) \cup {y}]
  BY <1>3 DEF RefCV, Part, First
<1>5. /\ RefCV(lo, lo + p) = [lo |-> First + lo, hi |-> First + (lo + p), nodes |-> left]
      /\ RefCV(lo + p, hi) = [lo |-> First + (lo + p), hi |-> First + hi, nodes |-> right]
  BY DEF RefCV, Part, First
<1> HIDE DEF left, right
<1> QED
  BY <1>4, <1>5 DEF output_chaining_value, parent_output
-----------------------------------------------------------------------------
(***************************************************************************)
(* Levels: where the k chaining values of a list start and end, so that    *)
(* every parent of a tree with these k leaves is one of the message's.     *)
(***************************************************************************)
UpTo(i, q, k) == IF i + 2 * q <= k THEN i + 2 * q ELSE k

\* The leaves from i on and those from i + q on meet where a parent of the
\* message's tree has its halves.
MeetAt(b, i, q, k) == \E p \in Pow2 : b[i + q] = b[i] + p /\ Halved(b[i], p, b[UpTo(i, q, k)])

Bounds(b, k, lo, hi) ==
  /\ k \in Nat \ {0} /\ k <= hi - lo
  /\ b \in [0..k -> Nat] /\ b[0] = lo /\ b[k] = hi
  /\ \A i \in 1..k : b[i - 1] < b[i]
  /\ \A i \in 0..k : (i = 0 \/ lo < b[i]) /\ (i = k \/ b[i] < hi)
  /\ \A i \in 0..(k - 1), q \in Pow2 : i % (2 * q) = 0 /\ i + q < k => MeetAt(b, i, q, k)

\* The slots after skip hold a level's chaining values.
Listed(slots, skip, b, k) == \A i \in 1..k : slots[skip + i] = RefCV(b[i - 1], b[i])
Level(slots, skip, k, lo, hi) ==
  \E b \in [0..k -> Nat] : Bounds(b, k, lo, hi) /\ Listed(slots, skip, b, k)

\* Doubling both keeps a multiple a multiple.
LEMMA ModDouble ==
  ASSUME NEW a \in Nat, NEW d \in Nat \ {0}, a % d = 0
  PROVE  (2 * a) % (2 * d) = 0
<1> DEFINE r == a \div d
           e == 2 * d
<1>1. r \in Nat /\ a = d * r
  BY ModMultiple
<1> HIDE DEF r
<1>2. 2 * a = e * r /\ e \in Nat \ {0}
  BY <1>1
<1> HIDE DEF e
<1>3. (e * r) % e = 0
  BY <1>1, <1>2, MultipleMod
<1> QED
  BY <1>2, <1>3 DEF e

\* Chunks side by side are a level of what they cover.
LEMMA ChunkBounds ==
  ASSUME ArgsOK, NEW lo \in Nat, NEW hi, Covers(lo, hi)
  PROVE  Bounds([i \in 0..(hi - lo) |-> lo + i], hi - lo, lo, hi)
<1> DEFINE k == hi - lo
           b == [i \in 0..k |-> lo + i]
<1>1. hi \in Nat /\ lo < hi /\ hi <= Chunks /\ Chunks \in Nat
  BY CoversFacts, ArgFacts
<1>2. k \in Nat \ {0} /\ hi = lo + k
  BY <1>1
<1> HIDE DEF k
<1>3. \A i \in 0..k : b[i] = lo + i /\ b[i] \in Nat
  BY <1>2
<1>4. b \in [0..k -> Nat]
  BY <1>2
<1> HIDE DEF b
<1>5. ASSUME NEW i \in 0..(k - 1), NEW q \in Pow2, i % (2 * q) = 0, i + q < k
      PROVE  MeetAt(b, i, q, k)
  <2>1. q \in Nat \ {0} /\ 2 * q \in Nat \ {0}
    BY Pow2Type
  <2>2. PICK P \in Pow2 : Halved(lo, P, hi)
    BY <1>1, <1>2, <1>5, <2>1 DEF Covers
  <2>3. /\ P \in Nat \ {0} /\ hi <= lo + 2 * P /\ lo % (2 * P) = 0
        /\ hi = lo + 2 * P \/ hi = Chunks
    BY <2>2, HalvedFacts DEF Halved
  <2>4. (2 * P) % (2 * q) = 0 /\ 2 * P \in Nat \ {0}
    <3>1. q <= P
      <4> SUFFICES ASSUME P < q PROVE FALSE
        BY <2>1, <2>3
      <4>1. 2 * P <= q
        BY Pow2Double
      <4> QED
        BY <1>2, <1>5, <2>1, <2>3, <4>1
    <3>2. P % q = 0
      BY <3>1, Pow2Chain
    <3> QED
      BY <2>1, <2>3, <3>2, ModDouble
  <2>5. lo % (2 * q) = 0
    BY <2>1, <2>3, <2>4, ModTransitive
  <2>6. (lo + i) % (2 * q) = 0
    <3> DEFINE d == 2 * q
    <3>1. lo \in Nat /\ i \in Nat /\ d \in Nat \ {0} /\ lo % d = 0 /\ i % d = 0
      BY <1>2, <1>5, <2>1, <2>5
    <3> HIDE DEF d
    <3>2. (lo + i) % d = 0
      BY <3>1, ModSum
    <3> QED
      BY <3>2 DEF d
  <2>7. UpTo(i, q, k) \in 0..k /\ lo + UpTo(i, q, k) = Min({lo + i + 2 * q, Chunks})
    <3>1. Min({lo + i + 2 * q, Chunks}) =
            IF lo + i + 2 * q <= Chunks THEN lo + i + 2 * q ELSE Chunks
      BY <1>1, <1>5, <2>1, MinOfTwo
    <3>2. CASE i + 2 * q <= k
      BY <1>1, <1>2, <1>5, <2>1, <3>1, <3>2 DEF UpTo
    <3>3. CASE ~(i + 2 * q <= k)
      <4>1. hi # lo + 2 * P
        <5> SUFFICES ASSUME hi = lo + 2 * P PROVE FALSE
          OBVIOUS
        <5>1. i < 2 * P /\ k = 2 * P
          BY <1>2, <1>5, <2>3
        <5>2. i + 2 * q <= 2 * P
          <6> DEFINE d == 2 * q
                     e == 2 * P
          <6>1. i \in Nat /\ i < e /\ e \in Nat /\ d \in Nat \ {0} /\ e % d = 0 /\ i % d = 0
            BY <1>2, <1>5, <2>1, <2>4, <5>1
          <6> HIDE DEF d, e
          <6>2. i + d <= e
            BY <6>1, NextMultiple
          <6> QED
            BY <6>2 DEF d, e
        <5> QED
          BY <3>3, <5>1, <5>2
      <4>2. hi = Chunks
        BY <2>3, <4>1
      <4> QED
        BY <1>1, <1>2, <1>5, <2>1, <3>1, <3>3, <4>2 DEF UpTo
    <3> QED
      BY <3>2, <3>3
  <2>8. b[i] = lo + i /\ b[i + q] = b[i] + q /\ b[UpTo(i, q, k)] = Min({b[i] + 2 * q, Chunks})
    <3>1. i \in 0..k /\ i + q \in 0..k /\ lo + (i + q) = lo + i + q
      BY <1>2, <1>5, <2>1
    <3>2. b[i] = lo + i /\ b[i + q] = lo + (i + q) /\ b[UpTo(i, q, k)] = lo + UpTo(i, q, k)
      BY <1>3, <2>7, <3>1
    <3> QED
      BY <2>7, <3>1, <3>2
  <2>9. Halved(b[i], q, b[UpTo(i, q, k)])
    BY <1>1, <1>2, <1>5, <2>1, <2>6, <2>8 DEF Halved
  <2> QED
    BY <2>8, <2>9 DEF MeetAt
<1>6. /\ b[0] = lo /\ b[k] = hi
      /\ \A i \in 1..k : b[i - 1] < b[i]
      /\ \A i \in 0..k : (i = 0 \/ lo < b[i]) /\ (i = k \/ b[i] < hi)
  BY <1>1, <1>2, <1>3
<1>7. Bounds(b, k, lo, hi)
  BY <1>1, <1>2, <1>4, <1>5, <1>6 DEF Bounds
<1> QED
  BY <1>7 DEF b, k

\* Every other bound: the neighbours joined.
Paired(b, k) == [j \in 0..((k + 1) \div 2) |-> b[IF 2 * j <= k THEN 2 * j ELSE k]]

LEMMA PairedBounds ==
  ASSUME ArgsOK, NEW k, NEW b, NEW lo \in Nat, NEW hi \in Nat, hi <= MaxLen,
         Bounds(b, k, lo, hi)
  PROVE  Bounds(Paired(b, k), (k + 1) \div 2, lo, hi)
<1> DEFINE h == (k + 1) \div 2
           c == Paired(b, k)
<1>1. /\ k \in Nat \ {0} /\ k <= hi - lo /\ b \in [0..k -> Nat] /\ b[0] = lo /\ b[k] = hi
      /\ \A i \in 1..k : b[i - 1] < b[i]
      /\ \A i \in 0..k : (i = 0 \/ lo < b[i]) /\ (i = k \/ b[i] < hi)
  BY DEF Bounds
<1>2. h \in Nat \ {0} /\ h <= k /\ (k = 2 * h \/ k = 2 * h - 1) /\ MaxLen \in Nat
  BY <1>1, Pow2Type
<1>3. c = [j \in 0..h |-> b[IF 2 * j <= k THEN 2 * j ELSE k]]
  BY DEF Paired
<1> HIDE DEF h, c
<1>4. /\ \A j \in 0..h : c[j] = b[IF 2 * j <= k THEN 2 * j ELSE k]
      /\ c \in [0..h -> Nat]
  <2>1. \A j \in 0..h : (IF 2 * j <= k THEN 2 * j ELSE k) \in 0..k
    BY <1>1, <1>2
  <2> QED
    BY <1>1, <1>3, <2>1
<1>5. c[0] = lo /\ c[h] = hi
  <2>1. 0 \in 0..h /\ h \in 0..h /\ 2 * 0 = 0 /\ 0 <= k
    BY <1>1, <1>2
  <2>2. (IF 2 * h <= k THEN 2 * h ELSE k) = k
    BY <1>1, <1>2
  <2> QED
    BY <1>1, <1>4, <2>1, <2>2
<1>6. ASSUME NEW j \in 1..h PROVE c[j - 1] < c[j]
  <2>1. c[j - 1] = b[2 * j - 2] /\ 2 * j - 2 \in 0..k
    <3>1. j - 1 \in 0..h /\ 2 * (j - 1) = 2 * j - 2 /\ 2 * j - 2 <= k
      BY <1>1, <1>2
    <3> QED
      BY <1>1, <1>2, <1>4, <3>1
  <2>2. 2 * j - 1 \in 1..k /\ b[2 * j - 2] < b[2 * j - 1]
    <3>1. 2 * j - 1 \in 1..k /\ (2 * j - 1) - 1 = 2 * j - 2
      BY <1>1, <1>2
    <3> QED
      BY <1>1, <3>1
  <2>3. CASE 2 * j <= k
    <3>1. 2 * j \in 1..k /\ (2 * j) - 1 = 2 * j - 1 /\ c[j] = b[2 * j]
      BY <1>1, <1>2, <1>4, <2>3
    <3>2. b[2 * j - 1] < b[2 * j]
      BY <1>1, <3>1
    <3>3. b[2 * j - 2] \in Nat /\ b[2 * j - 1] \in Nat /\ b[2 * j] \in Nat
      BY <1>1, <2>1, <2>2, <3>1
    <3> QED
      BY <2>1, <2>2, <3>1, <3>2, <3>3
  <2>4. CASE ~(2 * j <= k)
    <3>1. 2 * j - 1 = k /\ c[j] = b[k]
      BY <1>1, <1>2, <1>4, <2>4
    <3> QED
      BY <2>1, <2>2, <3>1
  <2> QED
    BY <2>3, <2>4
<1>7. ASSUME NEW j \in 0..h
      PROVE  (j = 0 \/ lo < c[j]) /\ (j = h \/ c[j] < hi)
  <2> DEFINE i == IF 2 * j <= k THEN 2 * j ELSE k
  <2>1. i \in 0..k /\ c[j] = b[i] /\ (i = 0 => j = 0) /\ (i = k => j = h)
    BY <1>1, <1>2, <1>4
  <2> HIDE DEF i
  <2> QED
    BY <1>1, <2>1
<1>8. ASSUME NEW i \in 0..(h - 1), NEW q \in Pow2, i % (2 * q) = 0, i + q < h
      PROVE  MeetAt(c, i, q, h)
  <2> DEFINE i2 == 2 * i
             q2 == 2 * q
  <2>1. q \in Nat \ {0}
    BY Pow2Type
  <2>2. i2 \in 0..(k - 1) /\ q2 \in Nat \ {0} /\ i2 + q2 < k
    BY <1>1, <1>2, <1>8, <2>1
  <2>3. q2 \in Pow2
    BY <1>1, <1>2, <2>1, <2>2, Pow2Twice
  <2>4. i2 % (2 * q2) = 0
    <3>1. i \in Nat /\ i % q2 = 0
      BY <1>2, <1>8
    <3> HIDE DEF q2
    <3> QED
      BY <2>2, <3>1, ModDouble
  <2>5. UpTo(i2, q2, k) = IF 2 * UpTo(i, q, h) <= k THEN 2 * UpTo(i, q, h) ELSE k
    BY <1>1, <1>2, <1>8, <2>1 DEF UpTo
  <2>6. UpTo(i, q, h) \in 0..h
    BY <1>2, <1>8, <2>1 DEF UpTo
  <2>7. /\ c[i] = b[i2] /\ c[i + q] = b[i2 + q2]
        /\ c[UpTo(i, q, h)] = b[UpTo(i2, q2, k)]
    <3>1. i \in 0..h /\ i + q \in 0..h /\ 2 * (i + q) = i2 + q2
      BY <1>2, <1>8, <2>1
    <3>2. i2 <= k /\ i2 + q2 <= k
      BY <1>1, <2>2
    <3> QED
      BY <1>4, <2>5, <2>6, <3>1, <3>2
  <2>8. MeetAt(b, i2, q2, k)
    <3> HIDE DEF i2, q2
    <3> QED
      BY <2>2, <2>3, <2>4 DEF Bounds
  <2> QED
    BY <2>7, <2>8 DEF MeetAt
<1>9. h <= hi - lo
  BY <1>1, <1>2
<1>10. Bounds(c, h, lo, hi)
  BY <1>2, <1>4, <1>5, <1>6, <1>7, <1>8, <1>9 DEF Bounds
<1> QED
  BY <1>10 DEF c, h

\* The bounds of one half behind those of the other, whose chunks are P.
SideBySide(b, k, c, n) == [i \in 0..(k + n) |-> IF i <= k THEN b[i] ELSE c[i - k]]

\* The left half is as wide as a power of two, and the right one not wider:
\* what reaches from one half into the other is the parent of all.
LEMMA SideBySideBounds ==
  ASSUME ArgsOK, NEW lo \in Nat, NEW hi \in Nat, NEW P \in Pow2, Halved(lo, P, hi),
         NEW k \in Pow2, NEW b, Bounds(b, k, lo, lo + P),
         NEW n, NEW c, Bounds(c, n, lo + P, hi), n <= k
  PROVE  Bounds(SideBySide(b, k, c, n), k + n, lo, hi)
<1> DEFINE m == k + n
           d == SideBySide(b, k, c, n)
           mid == lo + P
<1>1. /\ P \in Nat \ {0} /\ mid \in Nat /\ lo < mid /\ mid < hi
  BY HalvedFacts
<1>2. /\ k \in Nat \ {0} /\ k <= mid - lo /\ b \in [0..k -> Nat] /\ b[0] = lo /\ b[k] = mid
      /\ \A i \in 1..k : b[i - 1] < b[i]
      /\ \A i \in 0..k : (i = 0 \/ lo < b[i]) /\ (i = k \/ b[i] < mid)
  BY DEF Bounds
<1>3. /\ n \in Nat \ {0} /\ n <= hi - mid /\ c \in [0..n -> Nat] /\ c[0] = mid /\ c[n] = hi
      /\ \A i \in 1..n : c[i - 1] < c[i]
      /\ \A i \in 0..n : (i = 0 \/ mid < c[i]) /\ (i = n \/ c[i] < hi)
  BY DEF Bounds
<1>4. m \in Nat \ {0} /\ m = k + n
  BY <1>2, <1>3
<1>5. d = [i \in 0..m |-> IF i <= k THEN b[i] ELSE c[i - k]]
  BY DEF SideBySide
<1> HIDE DEF m, d
<1>6. /\ \A i \in 0..k : d[i] = b[i]
      /\ \A i \in 0..n : d[k + i] = c[i]
      /\ d \in [0..m -> Nat]
  <2>1. ASSUME NEW i \in 0..k PROVE d[i] = b[i]
    <3>1. i \in 0..m /\ i <= k
      BY <1>2, <1>3, <1>4
    <3> QED
      BY <1>5, <3>1
  <2>2. ASSUME NEW i \in 0..n PROVE d[k + i] = c[i]
    <3>1. CASE i = 0
      BY <1>2, <1>3, <2>1, <3>1, k + 0 = k, k \in 0..k
    <3>2. CASE i # 0
      <4>1. k + i \in 0..m /\ ~(k + i <= k) /\ (k + i) - k = i
        BY <1>2, <1>3, <1>4, <3>2
      <4> QED
        BY <1>5, <4>1
    <3> QED
      BY <3>1, <3>2
  <2>3. ASSUME NEW i \in 0..m
        PROVE  (IF i <= k THEN b[i] ELSE c[i - k]) \in Nat
    <3>1. CASE i <= k
      BY <1>2, <1>4, <3>1, i \in 0..k
    <3>2. CASE ~(i <= k)
      <4>1. i - k \in 0..n
        BY <1>2, <1>3, <1>4, <3>2
      <4> QED
        BY <1>3, <3>2, <4>1
    <3> QED
      BY <3>1, <3>2
  <2> QED
    BY <1>5, <2>1, <2>2, <2>3
<1>7. d[0] = lo /\ d[m] = hi
  BY <1>2, <1>3, <1>4, <1>6, 0 \in 0..k, n \in 0..n
<1>8. ASSUME NEW i \in 1..m PROVE d[i - 1] < d[i]
  <2>1. CASE i <= k
    <3>1. i \in 1..k /\ i \in 0..k /\ i - 1 \in 0..k
      BY <1>2, <1>4, <2>1
    <3> QED
      BY <1>2, <1>6, <3>1
  <2>2. CASE ~(i <= k)
    <3> DEFINE j == i - k
    <3>1. j \in 1..n /\ j \in 0..n /\ j - 1 \in 0..n /\ i = k + j /\ i - 1 = k + (j - 1)
      BY <1>2, <1>3, <1>4, <2>2
    <3>2. c[j - 1] < c[j]
      BY <1>3, <3>1
    <3>3. d[k + j] = c[j] /\ d[k + (j - 1)] = c[j - 1]
      BY <1>6, <3>1
    <3> HIDE DEF j
    <3> QED
      BY <3>1, <3>2, <3>3
  <2> QED
    BY <2>1, <2>2
<1>9. ASSUME NEW i \in 0..m
      PROVE  (i = 0 \/ lo < d[i]) /\ (i = m \/ d[i] < hi)
  <2>1. CASE i <= k
    <3>1. i \in 0..k /\ d[i] = b[i] /\ b[i] \in Nat
      BY <1>2, <1>4, <1>6, <2>1
    <3>2. b[i] <= mid
      BY <1>1, <1>2, <3>1
    <3> QED
      BY <1>1, <1>2, <3>1, <3>2
  <2>2. CASE ~(i <= k)
    <3> DEFINE j == i - k
    <3>1. j \in 0..n /\ j # 0 /\ i = k + j
      BY <1>2, <1>3, <1>4, <2>2
    <3>2. d[i] = c[j] /\ c[j] \in Nat /\ (j = n => i = m)
      BY <1>3, <1>4, <1>6, <3>1
    <3>3. mid < c[j] /\ (j = n \/ c[j] < hi)
      BY <1>3, <3>1
    <3> HIDE DEF j
    <3> QED
      BY <1>1, <3>2, <3>3
  <2> QED
    BY <2>1, <2>2
<1>10. ASSUME NEW i \in 0..(m - 1), NEW q \in Pow2, i % (2 * q) = 0, i + q < m
       PROVE  MeetAt(d, i, q, m)
  <2>1. q \in Nat \ {0} /\ i \in Nat
    BY <1>4, Pow2Type
  <2>2. ASSUME q < k
        PROVE  k % (2 * q) = 0
    BY <2>2, Pow2Double
  <2>3. CASE i < k /\ q < k
    <3>1. i + 2 * q <= k
      <4> DEFINE d2 == 2 * q
      <4>1. k % d2 = 0 /\ i % d2 = 0 /\ d2 \in Nat \ {0}
        BY <1>10, <2>1, <2>2, <2>3
      <4> HIDE DEF d2
      <4>2. i + d2 <= k
        BY <1>2, <2>1, <2>3, <4>1, NextMultiple
      <4> QED
        BY <4>2 DEF d2
    <3>2. i \in 0..(k - 1) /\ i + q < k
      BY <1>2, <2>1, <2>3, <3>1
    <3>3. MeetAt(b, i, q, k)
      BY <1>10, <3>2 DEF Bounds
    <3>4. UpTo(i, q, k) = i + 2 * q /\ UpTo(i, q, m) = i + 2 * q /\ i + 2 * q \in 0..k
          /\ i \in 0..k /\ i + q \in 0..k
      BY <1>2, <1>3, <1>4, <2>1, <3>1, <3>2 DEF UpTo
    <3>5. d[i] = b[i] /\ d[i + q] = b[i + q] /\ d[UpTo(i, q, m)] = b[UpTo(i, q, k)]
      BY <1>6, <3>4
    <3> QED
      BY <3>3, <3>5 DEF MeetAt
  <2>4. CASE i < k /\ ~(q < k)
    <3>1. i = 0
      <4> SUFFICES ASSUME i # 0 PROVE FALSE
        OBVIOUS
      <4> DEFINE d2 == 2 * q
      <4>1. d2 \in Nat \ {0} /\ 0 % d2 = 0 /\ i % d2 = 0 /\ 0 < i /\ 0 \in Nat
        BY <1>10, <2>1, MultipleMod, d2 * 0 = 0
      <4>2. i < d2
        BY <1>2, <2>1, <2>4
      <4> HIDE DEF d2
      <4>3. 0 + d2 <= i
        BY <2>1, <4>1, NextMultiple
      <4> QED
        BY <2>1, <4>1, <4>2, <4>3
    <3>2. q = k
      <4> SUFFICES ASSUME k < q PROVE FALSE
        BY <1>2, <2>1, <2>4
      <4>1. 2 * k <= q
        BY Pow2Double
      <4> QED
        BY <1>2, <1>3, <1>4, <1>10, <2>1, <3>1, <4>1
    <3>3. UpTo(i, q, m) = m
      BY <1>2, <1>3, <1>4, <3>1, <3>2 DEF UpTo
    <3>4. d[i] = lo /\ d[i + q] = lo + P /\ d[UpTo(i, q, m)] = hi
      <4>1. i + q = k /\ k \in 0..k
        BY <1>2, <3>1, <3>2
      <4> QED
        BY <1>2, <1>6, <1>7, <3>1, <3>3, <4>1
    <3> QED
      BY <3>4 DEF MeetAt
  <2>5. CASE ~(i < k)
    <3>1. q < k
      <4> SUFFICES ASSUME ~(q < k) PROVE FALSE
        OBVIOUS
      <4>1. i < 2 * q /\ 0 < i
        BY <1>2, <1>3, <1>4, <2>1, <2>5
      <4> DEFINE d2 == 2 * q
      <4>2. d2 \in Nat \ {0} /\ 0 % d2 = 0 /\ i % d2 = 0 /\ i < d2 /\ 0 \in Nat
        BY <1>10, <2>1, <4>1, MultipleMod, d2 * 0 = 0
      <4> HIDE DEF d2
      <4>3. 0 + d2 <= i
        BY <2>1, <4>1, <4>2, NextMultiple
      <4> QED
        BY <2>1, <4>2, <4>3
    <3> DEFINE j == i - k
               d2 == 2 * q
    <3>2. j \in 0..(n - 1) /\ j + q < n /\ i = k + j
      BY <1>2, <1>3, <1>4, <1>10, <2>1, <2>5
    <3>3. j % (2 * q) = 0
      <4>1. k % d2 = 0 /\ i % d2 = 0 /\ d2 \in Nat \ {0} /\ k <= i
        BY <1>2, <1>10, <2>1, <2>2, <2>5, <3>1
      <4> HIDE DEF d2
      <4>2. (i - k) % d2 = 0
        BY <1>2, <2>1, <4>1, ModDifference
      <4> QED
        BY <4>2 DEF d2
    <3> HIDE DEF j, d2
    <3>4. MeetAt(c, j, q, n)
      BY <3>2, <3>3 DEF Bounds
    <3>5. UpTo(i, q, m) = k + UpTo(j, q, n) /\ UpTo(j, q, n) \in 0..n
          /\ j \in 0..n /\ j + q \in 0..n /\ i + q = k + (j + q)
      BY <1>2, <1>3, <1>4, <2>1, <3>2 DEF UpTo
    <3>6. d[i] = c[j] /\ d[i + q] = c[j + q] /\ d[UpTo(i, q, m)] = c[UpTo(j, q, n)]
      BY <1>6, <3>2, <3>5
    <3> QED
      BY <3>4, <3>6 DEF MeetAt
  <2> QED
    BY <2>3, <2>4, <2>5
<1>11. m <= hi - lo
  BY <1>1, <1>2, <1>3, <1>4
<1>12. Bounds(d, m, lo, hi)
  BY <1>4, <1>6, <1>7, <1>8, <1>9, <1>10, <1>11 DEF Bounds
<1> QED
  BY <1>12 DEF d, m
-----------------------------------------------------------------------------
(***************************************************************************)
(* What the functions below blake3_compress_subtree_wide make of levels.   *)
(***************************************************************************)
Values == {Garbage} \cup {RefCV(r[1], r[2]) : r \in Nat \X Nat}

\* A list of k chaining values that are a level of the range.
LevelOf(cvs, k, lo, hi) == cvs \in Seq(Values) /\ Len(cvs) = k /\ Level(cvs, 0, k, lo, hi)

\* Where the input of a range ends.
EndOf(hi) == IF hi < Chunks THEN hi * CHUNK_LEN ELSE args.input_len

\* A list given by its slots.
LEMMA ListOf ==
  ASSUME NEW k \in Nat, NEW f, DOMAIN f = 1..k, f = [i \in 1..k |-> f[i]],
         NEW S, \A i \in 1..k : f[i] \in S
  PROVE  f \in Seq(S) /\ Len(f) = k
<1>1. f \in [1..k -> S]
  OBVIOUS
<1> QED
  BY <1>1, LenProperties, SeqDef

\* Slots of a level are chaining values of its bounds.
LEMMA ListedValues ==
  ASSUME NEW f, NEW k \in Nat, NEW b \in [0..k -> Nat], Listed(f, 0, b, k)
  PROVE  \A i \in 1..k : f[i] = RefCV(b[i - 1], b[i]) /\ f[i] \in Values
<1> SUFFICES ASSUME NEW i \in 1..k
             PROVE  f[i] = RefCV(b[i - 1], b[i]) /\ f[i] \in Values
  OBVIOUS
<1>1. 0 + i = i /\ i \in 0..k /\ i - 1 \in 0..k
  OBVIOUS
<1>2. f[i] = RefCV(b[i - 1], b[i])
  BY <1>1 DEF Listed
<1>3. <<b[i - 1], b[i]>> \in Nat \X Nat
  BY <1>1
<1> QED
  BY <1>2, <1>3 DEF Values

\* The bytes of a range make up as many chunks as it has.
LEMMA RangeLen ==
  ASSUME ArgsOK, NEW lo \in Nat, NEW hi, Covers(lo, hi)
  PROVE  LET len == EndOf(hi) - lo * CHUNK_LEN
         IN  /\ len \in 1..MaxLen
             /\ ChunkCount(len) = hi - lo
             /\ (len - 1) \div CHUNK_LEN = hi - lo - 1
             /\ len \div CHUNK_LEN <= hi - lo
             /\ \A i \in 0..(hi - lo - 1) :
                  (IF i < len \div CHUNK_LEN THEN CHUNK_LEN ELSE len - i * CHUNK_LEN)
                    = Bytes(lo + i, args.input_len)
<1> DEFINE L == CHUNK_LEN
           k == hi - lo
           less == (k - 1) * L
           all == args.input_len
           before == lo * L
           len == EndOf(hi) - before
           N == Chunks
<1>1. /\ hi \in Nat /\ lo < hi /\ hi <= N /\ N \in Nat /\ L \in Nat \ {0}
      /\ all \in Nat /\ all > L /\ all <= MaxLen /\ MaxLen \in Nat
  BY CoversFacts, ArgFacts, Pow2Type
<1>2. k \in Nat \ {0} /\ hi = lo + k
  BY <1>1
<1>3. all <= N * L /\ (N - 1) * L < all
  BY <1>1, ChunkCountFacts DEF Chunks
<1>4. less \in Nat /\ before \in Nat /\ k * L \in Nat /\ hi * L \in Nat
      /\ k * L = less + L /\ hi * L = before + k * L
  BY <1>1, <1>2
<1>5. hi < N => hi * L < all
  <2> SUFFICES ASSUME hi < N PROVE hi * L < all
    OBVIOUS
  <2>1. hi * L <= (N - 1) * L
    <3>1. hi <= N - 1 /\ N - 1 \in Nat
      BY <1>1
    <3> DEFINE M == N - 1
    <3>2. hi <= M /\ M \in Nat
      BY <3>1
    <3> HIDE DEF M, N
    <3>3. hi * L <= M * L
      BY <1>1, <3>2
    <3> QED
      BY <3>3 DEF M
  <2>2. (N - 1) * L \in Int
    BY <1>1
  <2> HIDE DEF N
  <2> QED
    BY <1>1, <1>3, <1>4, <2>1, <2>2
\* The last chunk has at least one byte, and at most CHUNK_LEN.
<1>6. len \in Nat /\ less < len /\ len <= less + L /\ (hi < N => len = less + L)
  <2>1. CASE hi < N
    <3>1. len = hi * L - before
      BY <2>1 DEF EndOf
    <3> HIDE DEF len, less, before
    <3> QED
      BY <1>1, <1>2, <1>4, <2>1, <3>1
  <2>2. CASE ~(hi < N)
    <3>1. hi = N
      BY <1>1, <2>2
    <3>2. len = all - before
      BY <2>2 DEF EndOf
    <3>3. (N - 1) * L = hi * L - L /\ N * L = hi * L
      BY <1>1, <3>1
    <3> DEFINE H == hi * L
    <3>4. all <= H /\ H - L < all /\ H \in Nat /\ H = before + (less + L)
      BY <1>3, <1>4, <3>3
    <3> HIDE DEF len, less, before, N, H
    <3> QED
      BY <1>1, <1>2, <1>4, <2>2, <3>2, <3>4
  <2> QED
    BY <2>1, <2>2
<1>7. len \in 1..MaxLen
  <2>1. len <= all
    <3>1. CASE hi < N
      <4>1. len = hi * L - before
        BY <3>1 DEF EndOf
      <4> HIDE DEF len, before, less
      <4> QED
        BY <1>1, <1>4, <1>5, <3>1, <4>1
    <3>2. CASE ~(hi < N)
      <4>1. len = all - before
        BY <3>2 DEF EndOf
      <4> HIDE DEF len, before, less
      <4> QED
        BY <1>1, <1>4, <4>1
    <3> QED
      BY <3>1, <3>2
  <2> HIDE DEF len, less
  <2> QED
    BY <1>1, <1>4, <1>6, <2>1
<1>8. ChunkCount(len) = k
  <2> DEFINE c == k - 1
             n == len - less
  <2>1. c \in Nat /\ n \in 0..L /\ n > 0 /\ c + 1 = k /\ len = c * L + n
    <3>1. c \in Nat /\ c + 1 = k /\ c * L = less
      BY <1>2
    <3> HIDE DEF c, len, less
    <3> QED
      BY <1>1, <1>4, <1>6, <3>1
  <2> HIDE DEF c, n, len
  <2>2. ChunkCount(c * L + n) = c + 1
    BY <2>1, CountOf
  <2> QED
    BY <2>1, <2>2
<1>9. (len - 1) \div L = k - 1
  <2> DEFINE c == k - 1
             r == len - less - 1
  <2>1. c \in Nat /\ r \in 0..(L - 1) /\ len - 1 = L * c + r
    <3>1. c \in Nat /\ L * c = less
      BY <1>1, <1>2
    <3> HIDE DEF c, len, less
    <3> QED
      BY <1>1, <1>4, <1>6, <3>1
  <2> HIDE DEF c, r, len
  <2>2. (L * c + r) \div L = c
    BY <1>1, <2>1, DivisionIs
  <2>3. (len - 1) \div L = c
    BY <2>1, <2>2
  <2> QED
    BY <2>3 DEF c
\* The chunks before the last are whole, the last is if it fills its place.
<1>10. len \div L = IF len = less + L THEN k ELSE k - 1
  <2>1. CASE len = less + L
    <3>1. len = L * k
      BY <1>1, <1>2, <1>4, <2>1
    <3> HIDE DEF len, k
    <3>2. len \div L = k
      BY <1>1, <1>2, <3>1, MultipleMod
    <3> QED
      BY <2>1, <3>2
  <2>2. CASE len # less + L
    <3> DEFINE c == k - 1
               r == len - less
    <3>1. c \in Nat /\ r \in 0..(L - 1) /\ len = L * c + r
      <4>1. c \in Nat /\ L * c = less
        BY <1>1, <1>2
      <4> HIDE DEF c, len, less
      <4> QED
        BY <1>1, <1>4, <1>6, <2>2, <4>1
    <3> HIDE DEF c, r, len
    <3>2. (L * c + r) \div L = c
      BY <1>1, <3>1, DivisionIs
    <3>3. len \div L = c
      BY <3>1, <3>2
    <3> QED
      BY <2>2, <3>3 DEF c
  <2> QED
    BY <2>1, <2>2
<1>11. len \div L <= k
  <2> HIDE DEF len, less, k
  <2> QED
    BY <1>2, <1>10
<1>12. ASSUME NEW i \in 0..(k - 1)
       PROVE  (IF i < len \div L THEN L ELSE len - i * L) = Bytes(lo + i, all)
  <2>1. CASE i < k - 1
    <3>1. i < len \div L
      <4> HIDE DEF len, less, k
      <4> QED
        BY <1>2, <1>10, <2>1
    <3>2. lo + i < N - 1
      BY <1>1, <1>2, <2>1
    <3>3. Bytes(lo + i, all) = L
      BY <3>2 DEF Bytes, Chunks
    <3> QED
      BY <3>1, <3>3
  <2>2. CASE ~(i < k - 1)
    <3>1. i = k - 1 /\ i * L = less
      BY <1>2, <2>2
    <3>2. CASE hi < N
      <4>1. len \div L = k
        BY <1>6, <1>10, <3>2
      <4>2. i < k /\ lo + i < N - 1
        BY <1>1, <1>2, <3>1, <3>2
      <4>3. Bytes(lo + i, all) = L
        BY <4>2 DEF Bytes, Chunks
      <4> QED
        BY <4>1, <4>2, <4>3
    <3>3. CASE ~(hi < N)
      <4>1. lo + i = N - 1 /\ lo + i = hi - 1
        BY <1>1, <1>2, <3>1, <3>3
      <4>2. Bytes(lo + i, all) = all - (lo + i) * L
        BY <1>1, <4>1 DEF Bytes, Chunks
      <4>3. (lo + i) * L = before + less
        BY <1>1, <1>2, <3>1
      <4>4. len = all - before
        BY <3>3 DEF EndOf
      <4>5. all - (lo + i) * L = len - less
        <5> DEFINE here == (lo + i) * L
        <5>1. here = before + less
          BY <4>3
        <5> HIDE DEF here, before, less, len
        <5>2. all - here = len - less
          BY <1>1, <1>4, <4>4, <5>1
        <5> QED
          BY <5>2 DEF here
      <4>6. i < len \div L => len = less + L
        <5> HIDE DEF len, less, k
        <5> QED
          BY <1>2, <1>10, <3>1
      <4>7. i < len \div L => len - less = L
        <5> HIDE DEF len, less
        <5> QED
          BY <1>1, <1>4, <4>6
      <4> HIDE DEF len, less
      <4> QED
        BY <3>1, <4>2, <4>5, <4>7
    <3> QED
      BY <3>2, <3>3
  <2> QED
    BY <2>1, <2>2
<1> QED
  BY <1>7, <1>8, <1>9, <1>11, <1>12

\* Chunks hashed side by side are a level of their range.
LEMMA ChunksOut ==
  ASSUME ArgsOK, NEW lo \in Nat, NEW hi, Covers(lo, hi)
  PROVE  LevelOf(compress_chunks_parallel(First + lo, (First + lo) * CHUNK_LEN,
                                          EndOf(hi) - lo * CHUNK_LEN),
                 hi - lo, lo, hi)
<1> DEFINE len == EndOf(hi) - lo * CHUNK_LEN
           at == (First + lo) * CHUNK_LEN
           k == hi - lo
           b == [i \in 0..k |-> lo + i]
           cvs == compress_chunks_parallel(First + lo, at, len)
           Chunk(i) ==
             [counter |-> First + lo + i, at |-> at + i * CHUNK_LEN,
              len |-> IF i < len \div CHUNK_LEN THEN CHUNK_LEN ELSE len - i * CHUNK_LEN]
<1>1. /\ hi \in Nat /\ lo < hi /\ hi <= Chunks /\ Chunks \in Nat /\ CHUNK_LEN \in Nat
      /\ First \in Nat
  BY CoversFacts, ArgFacts
<1>2. k \in Nat \ {0} /\ hi = lo + k
  BY <1>1
<1>3. /\ ChunkCount(len) = k
      /\ \A i \in 0..(k - 1) :
           (IF i < len \div CHUNK_LEN THEN CHUNK_LEN ELSE len - i * CHUNK_LEN)
             = Bytes(lo + i, args.input_len)
  BY RangeLen
<1>4. cvs = [i \in 1..k |->
               output_chaining_value(chunk_output(args.mode, Chunk(i - 1)))]
  BY <1>3 DEF compress_chunks_parallel
<1>5. ASSUME NEW i \in 1..k PROVE cvs[i] = RefCV(lo + (i - 1), lo + i)
  <2> DEFINE j == i - 1
             c == lo + j
  <2>1. j \in 0..(k - 1) /\ c \in Nat /\ c < Chunks /\ c + 1 = lo + i
    BY <1>1, <1>2
  <2>2. Chunk(j) = [counter |-> First + c, at |-> (First + c) * CHUNK_LEN,
                    len |-> Bytes(c, args.input_len)]
    <3>1. (IF j < len \div CHUNK_LEN THEN CHUNK_LEN ELSE len - j * CHUNK_LEN)
             = Bytes(c, args.input_len)
      BY <1>3, <2>1
    <3>2. First + lo + j = First + c /\ at + j * CHUNK_LEN = (First + c) * CHUNK_LEN
      <4>1. j \in Nat
        BY <2>1
      <4> HIDE DEF j
      <4> QED
        BY <1>1, <4>1
    <3> HIDE DEF len, j, c
    <3> QED
      BY <3>1, <3>2
  <2>3. output_chaining_value(chunk_output(args.mode, Chunk(j))) = RefCV(c, c + 1)
    <3> HIDE DEF c, j, Chunk
    <3> QED
      BY <2>1, <2>2, ChunkIsRef
  <2> QED
    BY <1>4, <2>1, <2>3
<1> HIDE DEF len, at, k, cvs
<1>6. DOMAIN cvs = 1..k /\ cvs = [i \in 1..k |-> cvs[i]]
  BY <1>4
<1>7. b \in [0..k -> Nat] /\ \A i \in 0..k : b[i] = lo + i
  BY <1>2
<1>8. Bounds(b, k, lo, hi)
  BY ChunkBounds DEF k
<1> HIDE DEF b
<1>9. Listed(cvs, 0, b, k)
  <2>1. ASSUME NEW i \in 1..k PROVE cvs[0 + i] = RefCV(b[i - 1], b[i])
    <3>1. i \in 0..k /\ i - 1 \in 0..k /\ 0 + i = i
      BY <1>2
    <3> QED
      BY <1>5, <1>7, <3>1
  <2> QED
    BY <2>1 DEF Listed
<1>10. cvs \in Seq(Values) /\ Len(cvs) = k
  <2>1. \A i \in 1..k : cvs[i] \in Values
    BY <1>2, <1>7, <1>9, ListedValues
  <2> QED
    BY <1>2, <1>6, <2>1, ListOf
<1>11. LevelOf(cvs, k, lo, hi)
  BY <1>7, <1>8, <1>9, <1>10 DEF LevelOf, Level
<1> QED
  BY <1>11 DEF cvs, k, at, len

\* Neighbours joined are a level again, half as long.
LEMMA ParentsOut ==
  ASSUME ArgsOK, NEW lo \in Nat, NEW hi \in Nat, hi <= MaxLen,
         NEW k, NEW s, LevelOf(s, k, lo, hi)
  PROVE  LevelOf(compress_parents_parallel(s), (k + 1) \div 2, lo, hi)
<1> DEFINE h == (k + 1) \div 2
           out == compress_parents_parallel(s)
<1>1. PICK b \in [0..k -> Nat] : Bounds(b, k, lo, hi) /\ Listed(s, 0, b, k)
  BY DEF LevelOf, Level
<1>2. k \in Nat \ {0} /\ Len(s) = k
  BY <1>1 DEF Bounds, LevelOf
<1>3. h \in Nat \ {0} /\ (k = 2 * h \/ k = 2 * h - 1)
  BY <1>2
<1> DEFINE c == Paired(b, k)
<1>4. Bounds(c, h, lo, hi)
  BY <1>1, PairedBounds
<1>5. out = [i \in 1..h |->
               IF 2 * i <= k
               THEN output_chaining_value(parent_output(args.mode, s[2*i - 1], s[2*i]))
               ELSE s[2*i - 1]]
  BY <1>2 DEF compress_parents_parallel
<1>6. c = [j \in 0..h |-> b[IF 2 * j <= k THEN 2 * j ELSE k]]
  BY DEF Paired
<1> HIDE DEF h, c, out
<1>7. \A i \in 1..k : s[i] = RefCV(b[i - 1], b[i])
  <2>1. k \in Nat /\ Listed(s, 0, b, k)
    BY <1>1, <1>2
  <2> QED
    BY ONLY <2>1, b \in [0..k -> Nat], ListedValues
<1>8. ASSUME NEW i \in 1..h PROVE out[i] = RefCV(c[i - 1], c[i])
  <2>1. /\ i - 1 \in 0..h /\ i \in 0..h /\ 2 * (i - 1) = 2 * i - 2 /\ 2 * i - 2 <= k
        /\ 2 * i - 1 \in 1..k /\ (2 * i - 1) - 1 = 2 * i - 2
    BY <1>2, <1>3
  <2>2. c[i - 1] = b[2 * i - 2] /\ s[2 * i - 1] = RefCV(b[2 * i - 2], b[2 * i - 1])
    BY <1>6, <1>7, <2>1
  <2>3. CASE 2 * i <= k
    <3> DEFINE j == 2 * i - 2
    <3>1. j \in 0..(k - 1) /\ j + 1 < k /\ 2 * i \in 1..k /\ (2 * i) - 1 = j + 1
          /\ 2 * i - 1 = j + 1 /\ 2 * i = j + 2
      BY <1>2, <2>1, <2>3
    <3>2. j % (2 * 1) = 0
      <4> DEFINE r == i - 1
      <4>1. r \in Nat /\ j = 2 * r /\ 2 * 1 = 2
        BY <2>1
      <4> HIDE DEF j, r
      <4>2. (2 * r) % 2 = 0
        BY <4>1, MultipleMod, 2 \in Nat \ {0}
      <4> QED
        BY <4>1, <4>2
    <3> HIDE DEF j
    <3>3. MeetAt(b, j, 1, k)
      BY <1>1, <3>1, <3>2, Pow2Type DEF Bounds
    <3>4. UpTo(j, 1, k) = j + 2
      <4>1. j \in Nat /\ k \in Nat /\ j + 2 <= k /\ 2 * 1 = 2
        BY <1>2, <2>3, <3>1
      <4> QED
        BY <4>1 DEF UpTo
    <3>5. PICK p \in Pow2 : b[j + 1] = b[j] + p /\ Halved(b[j], p, b[j + 2])
      BY <3>3, <3>4 DEF MeetAt
    <3>6. b[j] \in Nat
      BY <1>2, <3>1, j \in 0..k
    <3>7. output_chaining_value(parent_output(args.mode, RefCV(b[j], b[j + 1]),
                                              RefCV(b[j + 1], b[j + 2])))
            = RefCV(b[j], b[j + 2])
      BY <3>5, <3>6, ParentIsRef
    <3>8. s[2 * i] = RefCV(b[j + 1], b[j + 2]) /\ c[i] = b[j + 2]
      BY <1>6, <1>7, <2>1, <2>3, <3>1
    <3>9. out[i] = output_chaining_value(parent_output(args.mode, s[2 * i - 1], s[2 * i]))
      BY <1>5, <2>3
    <3>10. s[2 * i - 1] = RefCV(b[j], b[j + 1]) /\ c[i - 1] = b[j]
      BY <2>2, <3>1 DEF j
    <3> QED
      BY <3>7, <3>8, <3>9, <3>10
  <2>4. CASE ~(2 * i <= k)
    <3>1. k = 2 * i - 1
      BY <1>2, <1>3, <2>4
    <3>2. c[i] = b[k] /\ out[i] = s[2 * i - 1]
      BY <1>5, <1>6, <2>1, <2>4
    <3> QED
      BY <2>2, <3>1, <3>2
  <2> QED
    BY <2>3, <2>4
<1>9. Listed(out, 0, c, h)
  <2>1. ASSUME NEW i \in 1..h PROVE out[0 + i] = RefCV(c[i - 1], c[i])
    BY <1>3, <1>8, 0 + i = i
  <2> QED
    BY <2>1 DEF Listed
<1>10. c \in [0..h -> Nat]
  BY <1>4 DEF Bounds
<1>11. out \in Seq(Values) /\ Len(out) = h
  <2>1. DOMAIN out = 1..h /\ out = [i \in 1..h |-> out[i]]
    BY <1>5
  <2>2. \A i \in 1..h : out[i] \in Values
    BY <1>3, <1>9, <1>10, ListedValues
  <2> QED
    BY <1>3, <2>1, <2>2, ListOf
<1>12. LevelOf(out, h, lo, hi)
  BY <1>4, <1>9, <1>10, <1>11 DEF LevelOf, Level
<1> QED
  BY <1>12 DEF out, h

\* The halves' levels, next to each other in the slots, are the whole's.
LEMMA HalvesOut ==
  ASSUME ArgsOK, NEW lo \in Nat, NEW hi \in Nat, NEW P \in Pow2, Halved(lo, P, hi),
         NEW k \in Pow2, NEW n, n <= k, NEW room \in Nat, k + n <= room,
         NEW slots \in [1..room -> Values],
         Level(slots, 0, k, lo, lo + P), Level(slots, k, n, lo + P, hi)
  PROVE  LevelOf(SubSeq(slots, 1, k + n), k + n, lo, hi)
<1>1. PICK b \in [0..k -> Nat] : Bounds(b, k, lo, lo + P) /\ Listed(slots, 0, b, k)
  BY DEF Level
<1>2. PICK c \in [0..n -> Nat] : Bounds(c, n, lo + P, hi) /\ Listed(slots, k, c, n)
  BY DEF Level
<1>3. k \in Nat \ {0} /\ n \in Nat \ {0} /\ c[0] = lo + P /\ b[k] = lo + P
  BY <1>1, <1>2 DEF Bounds
<1> DEFINE m == k + n
           d == SideBySide(b, k, c, n)
           s == SubSeq(slots, 1, m)
<1>4. Bounds(d, m, lo, hi)
  BY <1>1, <1>2, SideBySideBounds
<1>5. m \in Nat \ {0} /\ m <= room
  BY <1>3
<1>6. s \in Seq(Values) /\ Len(s) = m /\ \A i \in 1..m : s[i] = slots[i]
  <2> HIDE DEF m
  <2>1. slots \in Seq(Values) /\ Len(slots) = room
    BY LenProperties, SeqDef
  <2>2. 1 \in 1..(Len(slots) + 1) /\ m \in 0..Len(slots) /\ m - 1 + 1 = m /\ 1 <= m + 1
    BY <1>5, <2>1
  <2>3. /\ s \in Seq(Values)
        /\ Len(s) = IF 1 <= m THEN m - 1 + 1 ELSE 0
        /\ \A i \in 1..m - 1 + 1 : s[i] = slots[1 + i - 1]
    BY <2>1, <2>2, SubSeqProperties
  <2>4. \A i \in 1..m : 1 + i - 1 = i
    BY <1>5
  <2> QED
    BY <1>5, <2>2, <2>3, <2>4
<1>7. d = [i \in 0..m |-> IF i <= k THEN b[i] ELSE c[i - k]]
  BY DEF SideBySide
<1>8. m = k + n
  OBVIOUS
<1> HIDE DEF d, m, s
<1>9. ASSUME NEW i \in 1..m PROVE s[0 + i] = RefCV(d[i - 1], d[i])
  <2>1. 0 + i = i /\ i \in 0..m /\ i - 1 \in 0..m /\ s[i] = slots[i]
    BY <1>5, <1>6
  <2>2. CASE i <= k
    <3>1. d[i] = b[i] /\ d[i - 1] = b[i - 1] /\ i \in 1..k
      BY <1>3, <1>5, <1>7, <2>1, <2>2
    <3>2. slots[0 + i] = RefCV(b[i - 1], b[i])
      BY <1>1, <3>1 DEF Listed
    <3> QED
      BY <2>1, <3>1, <3>2
  <2>3. CASE ~(i <= k)
    <3> DEFINE j == i - k
    <3>1. j \in 1..n /\ k + j = i /\ i - 1 - k = j - 1
      BY <1>3, <1>5, <1>8, <2>3
    <3>2. slots[k + j] = RefCV(c[j - 1], c[j])
      <4> HIDE DEF j
      <4> QED
        BY <1>2, <3>1 DEF Listed
    <3>3. d[i] = c[j]
      BY <1>7, <2>1, <2>3
    <3>4. d[i - 1] = c[j - 1]
      <4>1. CASE i - 1 <= k
        <5>1. i - 1 = k /\ j - 1 = 0
          BY <1>3, <1>5, <2>3, <4>1
        <5> QED
          BY <1>3, <1>7, <2>1, <4>1, <5>1
      <4>2. CASE ~(i - 1 <= k)
        BY <1>7, <2>1, <3>1, <4>2
      <4> QED
        BY <4>1, <4>2
    <3> HIDE DEF j
    <3> QED
      BY <2>1, <3>1, <3>2, <3>3, <3>4
  <2> QED
    BY <2>2, <2>3
<1>10. d \in [0..m -> Nat]
  BY <1>4 DEF Bounds
<1>11. LevelOf(s, m, lo, hi)
  BY <1>4, <1>6, <1>9, <1>10 DEF LevelOf, Level, Listed
<1> QED
  BY <1>11 DEF s, m

\* A level of two of the whole subtree is the pair of the root's children.
LEMMA PairOut ==
  ASSUME ArgsOK, NEW s, LevelOf(s, 2, 0, Chunks)
  PROVE  s = RefPair
<1>1. PICK b \in [0..2 -> Nat] : Bounds(b, 2, 0, Chunks) /\ Listed(s, 0, b, 2)
  BY DEF LevelOf, Level
<1>2. /\ Chunks \in Nat /\ Chunks >= 2 /\ Chunks <= MaxLen
      /\ b[0] = 0 /\ b[2] = Chunks
  BY <1>1, ArgFacts DEF Bounds
<1>3. MeetAt(b, 0, 1, 2)
  <2>1. 0 \in 0..(2 - 1) /\ 1 \in Pow2 /\ 0 + 1 < 2
    BY Pow2Type
  <2>2. 0 % (2 * 1) = 0
    OBVIOUS
  <2> QED
    BY <1>1, <2>1, <2>2 DEF Bounds
<1>4. UpTo(0, 1, 2) = 2
  BY DEF UpTo
<1>5. PICK p \in Pow2 : b[1] = 0 + p /\ Halved(0, p, Chunks)
  BY <1>2, <1>3, <1>4 DEF MeetAt
<1>6. p \in Nat \ {0} /\ p < Chunks /\ Chunks <= 2 * p
  BY <1>2, <1>5, HalvedFacts, 0 \in Nat
<1> DEFINE P == Max({q \in Pow2 : q < Chunks})
<1>7. P \in Pow2 /\ P < Chunks /\ Chunks <= 2 * P /\ \A q \in Pow2 : q < Chunks => q <= P
  BY <1>2, LargestBelow
<1> HIDE DEF P
<1>8. p = P
  <2>1. p <= P /\ P \in Nat
    BY <1>6, <1>7, Pow2Type
  <2>2. ~(p < P)
    <3> SUFFICES ASSUME p < P PROVE FALSE
      OBVIOUS
    <3>1. 2 * p <= P
      BY <1>7, Pow2Double
    <3> QED
      BY <1>2, <1>6, <1>7, <2>1, <3>1
  <2> QED
    BY <1>6, <2>1, <2>2
<1>9. \A i \in 1..2 : s[i] = RefCV(b[i - 1], b[i])
  BY <1>1, 2 \in Nat, ListedValues
<1>10. s[1] = RefCV(0, P) /\ s[2] = RefCV(P, Chunks)
  <2>1. 1 \in 1..2 /\ 2 \in 1..2 /\ 1 - 1 = 0 /\ 2 - 1 = 1 /\ b[1] = p
    BY <1>5, <1>6
  <2> QED
    BY <1>2, <1>8, <1>9, <2>1
<1>11. s = <<s[1], s[2]>>
  <2>1. s \in Seq(Values) /\ Len(s) = 2
    BY DEF LevelOf
  <2> QED
    BY <2>1
<1> QED
  BY <1>10, <1>11 DEF P, RefPair, Chunks
-----------------------------------------------------------------------------
(***************************************************************************)
(* Degrees and widths: a range of as many chunks as the SIMD degree, or of *)
(* more if that is a power of two, is hashed to as many chaining values as *)
(* the degree (two if the degree is 1).                                    *)
(***************************************************************************)
WideDegree == IF degree = 1 THEN 2 ELSE degree

Width(k, n) ==
  /\ k \in 1..WideDegree
  /\ n <= WideDegree => k = n
  /\ n >= 2 => k >= 2
  /\ n \in Pow2 /\ n >= WideDegree => k = WideDegree

\* The degrees of the targets.
LEMMA Degrees ==
  ASSUME target \in Targets
  PROVE  /\ degree \in {1, 4, 8, 16} /\ WideDegree \in {2, 4, 8, 16}
         /\ OR_2 \in {2, 4, 16} /\ WideDegree <= OR_2 /\ degree <= WideDegree
         /\ degree <= MAX_SIMD_DEGREE(target)
<1>1. target.lanes \in {1, 4, 8, 16}
  BY TargetsAssumption
<1> DEFINE MAX == MAX_SIMD_DEGREE(target)
<1>2. /\ MAX \in {1, 4, 16} /\ degree \in {1, 4, 8, 16} /\ degree <= MAX
      /\ IS_X86(target) => MAX = 16
  <2>1. CASE IS_X86(target)
    BY <1>1, <2>1 DEF MAX_SIMD_DEGREE, degree, blake3_simd_degree
  <2>2. CASE ~IS_X86(target)
    BY <2>2 DEF MAX_SIMD_DEGREE, degree, blake3_simd_degree
  <2> QED
    BY <2>1, <2>2
<1>3. OR_2 = IF MAX > 2 THEN MAX ELSE 2
  BY DEF OR_2
<1> HIDE DEF MAX
<1>4. degree # 1 => degree <= OR_2 /\ degree >= 4
  BY <1>2, <1>3
<1> QED
  BY <1>2, <1>3, <1>4 DEF MAX, WideDegree

\* Degrees within the bound are among the powers of two.
LEMMA DegreeIsPow2 ==
  ASSUME NEW d \in {1, 2, 4, 8, 16}, d <= MaxLen
  PROVE  d \in Pow2
<1>1. 1 \in Pow2 /\ MaxLen \in Nat
  BY Pow2Type
<1>2. 2 <= MaxLen => 2 \in Pow2
  BY <1>1, Pow2Twice, 2 * 1 = 2
<1>3. 4 <= MaxLen => 4 \in Pow2
  BY <1>1, <1>2, Pow2Twice, 2 * 2 = 4
<1>4. 8 <= MaxLen => 8 \in Pow2
  BY <1>1, <1>3, Pow2Twice, 2 * 4 = 8
<1>5. ASSUME 16 <= MaxLen PROVE 16 \in Pow2
  <2>1. 8 \in Pow2 /\ 2 * 8 <= MaxLen
    BY <1>1, <1>4, <1>5
  <2>2. 2 * 8 \in Pow2
    BY <2>1, Pow2Twice
  <2> QED
    BY <2>2
<1> QED
  BY <1>1, <1>2, <1>3, <1>4, <1>5

-----------------------------------------------------------------------------
(***************************************************************************)
(* Activations and their ranges.                                           *)
(***************************************************************************)
\* An activation is for the chunks [lo, hi), which a node covers.
InRange(call, lo, hi) ==
  /\ lo \in Nat /\ Covers(lo, hi)
  /\ call.counter = First + lo
  /\ call.at = (First + lo) * CHUNK_LEN
  /\ call.len = EndOf(hi) - lo * CHUNK_LEN

Lo(call) == call.counter - First
Hi(call) == Lo(call) + ChunkCount(call.len)
Half(n) == Max({p \in Pow2 : p < n})
Mid(call) == Lo(call) + Half(Hi(call) - Lo(call))

\* The range is told by the arguments.
LEMMA RangeOf ==
  ASSUME ArgsOK, NEW call, NEW lo, NEW hi, InRange(call, lo, hi)
  PROVE  /\ Lo(call) = lo /\ Hi(call) = hi /\ Mid(call) = lo + Half(hi - lo)
         /\ lo \in Nat /\ hi \in Nat /\ lo < hi /\ hi <= Chunks
         /\ call.counter \in Nat /\ call.at \in Nat /\ call.len \in 1..MaxLen
<1>1. /\ lo \in Nat /\ hi \in Nat /\ lo < hi /\ hi <= Chunks /\ First \in Nat
      /\ CHUNK_LEN \in Nat
  BY CoversFacts, ArgFacts DEF InRange
<1>2. /\ EndOf(hi) - lo * CHUNK_LEN \in 1..MaxLen
      /\ ChunkCount(EndOf(hi) - lo * CHUNK_LEN) = hi - lo
  BY RangeLen DEF InRange
<1>3. call.len \in 1..MaxLen /\ ChunkCount(call.len) = hi - lo
  BY <1>2 DEF InRange
<1>4. call.counter = First + lo
  BY DEF InRange
<1>5. Lo(call) = lo
  BY <1>1, <1>4 DEF Lo
<1>6. Hi(call) = hi
  BY <1>1, <1>3, <1>5 DEF Hi
<1>7. (First + lo) * CHUNK_LEN \in Nat /\ call.at = (First + lo) * CHUNK_LEN
  BY <1>1 DEF InRange
<1> QED
  BY <1>1, <1>3, <1>4, <1>5, <1>6, <1>7 DEF Mid

\* The halves of a range of at least two chunks are ranges, and left_len is
\* that of the left one.
LEMMA HalfRanges ==
  ASSUME ArgsOK, NEW call, NEW lo, NEW hi, InRange(call, lo, hi), hi - lo >= 2
  PROVE  LET P == Half(hi - lo)
         IN  /\ P \in Pow2 /\ P \in Nat \ {0} /\ P < hi - lo /\ hi - lo <= 2 * P
             /\ \A q \in Pow2 : q < hi - lo => q <= P
             /\ Halved(lo, P, hi)
             /\ LeftLen(call) > CHUNK_LEN <=> P > 1
             /\ InRange(LeftOf(call), lo, lo + P)
             /\ InRange(RightOf(call), lo + P, hi)
<1> DEFINE n == hi - lo
           P == Half(n)
           L == CHUNK_LEN
<1>1. /\ lo \in Nat /\ hi \in Nat /\ lo < hi /\ hi <= Chunks /\ First \in Nat /\ L \in Nat \ {0}
      /\ Chunks \in Nat /\ Chunks <= MaxLen /\ MaxLen \in Nat /\ Covers(lo, hi)
  BY RangeOf, ArgFacts, Pow2Type DEF InRange
<1>2. n \in Nat /\ n >= 2 /\ n <= MaxLen
  BY <1>1
<1>3. P \in Pow2 /\ P < n /\ n <= 2 * P /\ \A q \in Pow2 : q < n => q <= P
  <2> HIDE DEF n
  <2> QED
    BY <1>2, LargestBelow DEF Half
<1>4. P \in Nat \ {0}
  BY <1>3, Pow2Type
<1>5. (call.len - 1) \div L = n - 1
  BY <1>1, RangeLen DEF InRange
<1>6. round_down_to_power_of_2(n - 1) = P
  <2>1. (IF n - 1 = 0 THEN 1 ELSE n - 1) = n - 1
    BY <1>2
  <2>2. {p \in Pow2 : p <= n - 1} = {p \in Pow2 : p < n}
    <3>1. \A p \in Pow2 : p <= n - 1 <=> p < n
      BY <1>2, Pow2Type
    <3> QED
      BY <3>1
  <2> HIDE DEF n
  <2> QED
    BY <2>1, <2>2 DEF round_down_to_power_of_2, Half
<1> HIDE DEF P
<1>7. LeftLen(call) = P * L
  BY <1>5, <1>6 DEF LeftLen, left_subtree_len
<1>8. Halved(lo, P, hi) /\ Covers(lo, lo + P) /\ Covers(lo + P, hi)
  BY <1>1, <1>3, SplitRange
<1>9. LeftLen(call) > L <=> P > 1
  <2> DEFINE left == P * L
  <2>1. left \in Nat /\ (P = 1 => left = L) /\ (P > 1 => left > L)
    <3>1. P = 1 => P * L = L
      BY <1>1
    <3>2. ASSUME P > 1 PROVE P * L > L
      <4>1. P - 1 \in Nat /\ 1 <= P - 1
        BY <1>4, <3>2
      <4>2. P * L = L + (P - 1) * L
        BY <1>1, <1>4
      <4> DEFINE r == P - 1
      <4>3. r \in Nat /\ r <= r * L /\ r * L \in Nat /\ 1 <= r
        <5>1. r \in Nat /\ 1 <= r
          BY <4>1
        <5> HIDE DEF r
        <5> QED
          BY <1>1, <5>1, ProductGrows
      <4>4. P * L = L + r * L
        BY <4>2
      <4> HIDE DEF r
      <4> DEFINE x == r * L
                 y == P * L
      <4>5. y = L + x /\ x \in Nat /\ x >= 1
        <5>1. x \in Nat /\ r <= x
          BY <4>3
        <5> HIDE DEF x
        <5> QED
          BY <4>3, <4>4, <5>1 DEF x
      <4> HIDE DEF x, y
      <4> QED
        BY <1>1, <4>5 DEF y
    <3> QED
      BY <1>1, <1>4, <3>1, <3>2
  <2> HIDE DEF left
  <2> QED
    BY <1>1, <1>4, <1>7, <2>1 DEF left
<1>10. lo + P < Chunks /\ lo + P \in Nat /\ lo * L \in Nat /\ P * L \in Nat
       /\ (lo + P) * L = lo * L + P * L
  BY <1>1, <1>4, <1>8 DEF Halved
<1>11. /\ call.counter = First + lo
       /\ call.at = (First + lo) * L
       /\ call.len = EndOf(hi) - lo * L
  BY DEF InRange
<1>12. InRange(LeftOf(call), lo, lo + P)
  <2>1. EndOf(lo + P) = (lo + P) * L
    BY <1>10 DEF EndOf
  <2>2. P * L = EndOf(lo + P) - lo * L
    <3> DEFINE x == P * L
               y == lo * L
    <3>1. EndOf(lo + P) = y + x /\ x \in Nat /\ y \in Nat
      BY <1>10, <2>1
    <3> HIDE DEF x, y
    <3>2. x = EndOf(lo + P) - y
      BY <3>1
    <3> QED
      BY <3>2 DEF x, y
  <2> QED
    BY <1>1, <1>7, <1>8, <1>11, <2>2 DEF InRange, LeftOf, Activation
<1>13. InRange(RightOf(call), lo + P, hi)
  <2>1. LeftLen(call) \div L = P
    BY <1>1, <1>4, <1>7, MultipleMod, P * L = L * P
  <2>2. call.counter + P = First + (lo + P)
    BY <1>1, <1>4, <1>11
  <2>3. call.at + LeftLen(call) = (First + (lo + P)) * L
    BY <1>1, <1>4, <1>7, <1>11
  <2>4. call.len - LeftLen(call) = EndOf(hi) - (lo + P) * L
    <3>1. EndOf(hi) \in Int
      <4>1. hi * L \in Nat /\ args.input_len \in Nat
        BY <1>1, ArgFacts
      <4> QED
        BY <4>1 DEF EndOf
    <3> DEFINE x == P * L
               y == lo * L
    <3>2. call.len = EndOf(hi) - y /\ LeftLen(call) = x /\ (lo + P) * L = y + x
          /\ x \in Nat /\ y \in Nat
      BY <1>7, <1>10, <1>11
    <3> HIDE DEF x, y
    <3> QED
      BY <3>1, <3>2
  <2> QED
    BY <1>8, <1>10, <2>1, <2>2, <2>3, <2>4 DEF InRange, RightOf, Activation
<1> QED
  BY <1>3, <1>4, <1>8, <1>9, <1>12, <1>13 DEF P
-----------------------------------------------------------------------------
(***************************************************************************)
(* The inductive invariant.                                                *)
(***************************************************************************)
Activations ==
  [counter : Nat, at : Nat, len : 1..MaxLen, step : {"entered", "left", "right", "join"},
   cvs : [1..(2 * OR_2) -> Values], left_n : 0..OR_2, right_n : 0..OR_2]

\* A half has returned with k chaining values: they are a level of it.
HalfDone(call, skip, k, lo, hi) == Width(k, hi - lo) /\ Level(call.cvs, skip, k, lo, hi)

CallOK(call) ==
  /\ InRange(call, Lo(call), Hi(call))
  /\ call.step # "entered" => Hi(call) - Lo(call) > degree
  /\ call.step \in {"right", "join"} => HalfDone(call, 0, call.left_n, Lo(call), Mid(call))
  /\ call.step = "join" =>
       HalfDone(call, RightSlot(LeftLen(call)), call.right_n, Mid(call), Hi(call))

\* The activation above a call is for the half the call waits for.
Above(call, next) ==
  \/ call.step = "left" /\ InRange(next, Lo(call), Mid(call))
  \/ call.step = "right" /\ InRange(next, Mid(call), Hi(call))

CallsOK ==
  /\ \A i \in 1..Len(calls) : CallOK(calls[i])
  /\ \A i \in 1..(Len(calls) - 1) : Above(calls[i], calls[i + 1])
  /\ Len(calls) > 0 => InRange(calls[1], 0, Chunks)

\* What has returned to compress_subtree_to_parent_node.
ArrayOK ==
  /\ stage = "wide" => cv_array = <<>>
  /\ stage # "wide" => num_cvs \in 2..OR_2 /\ LevelOf(cv_array, num_cvs, 0, Chunks)
  /\ stage = "done" => num_cvs = 2

WideInv ==
  /\ target \in Targets /\ ArgsOK
  /\ calls \in Seq(Activations) /\ cv_array \in Seq(Values)
  /\ fits = TRUE
  /\ stage \in {"wide", "condense", "done"}
  /\ stage = "wide" <=> Len(calls) > 0
  /\ CallsOK /\ ArrayOK

\* What is said of a call or a range depends on nothing that changes.
LEMMA Same ==
  ASSUME UNCHANGED <<target, args>>
  PROVE  /\ First' = First /\ Chunks' = Chunks /\ degree' = degree /\ OR_2' = OR_2
         /\ ArgsOK' <=> ArgsOK
         /\ Activations' = Activations /\ Values' = Values
         /\ \A lo, hi : RefCV(lo, hi)' = RefCV(lo, hi)
         /\ \A lo, hi : Covers(lo, hi)' <=> Covers(lo, hi)
         /\ \A call, lo, hi : InRange(call, lo, hi)' <=> InRange(call, lo, hi)
         /\ \A s, k, lo, hi : LevelOf(s, k, lo, hi)' <=> LevelOf(s, k, lo, hi)
         /\ \A call : CallOK(call)' <=> CallOK(call)
         /\ \A call, next : Above(call, next)' <=> Above(call, next)
<1>1. First' = First /\ Chunks' = Chunks /\ degree' = degree /\ OR_2' = OR_2
  BY DEF First, Chunks, degree, OR_2
<1>2. ArgsOK' <=> ArgsOK
  BY DEF ArgsOK
<1>3. \A lo, hi : RefCV(lo, hi)' = RefCV(lo, hi)
  BY DEF RefCV, InMessage
<1>4. Values' = Values
  BY <1>3 DEF Values
<1>5. Activations' = Activations
  BY <1>1, <1>4 DEF Activations
<1>6. \A lo, p, hi : Halved(lo, p, hi)' <=> Halved(lo, p, hi)
  BY <1>1 DEF Halved
<1>7. \A lo, hi : Covers(lo, hi)' <=> Covers(lo, hi)
  BY <1>1, <1>6 DEF Covers
<1>8. \A hi : EndOf(hi)' = EndOf(hi)
  BY <1>1 DEF EndOf
<1>9. \A call, lo, hi : InRange(call, lo, hi)' <=> InRange(call, lo, hi)
  BY <1>1, <1>7, <1>8 DEF InRange
<1>10. \A b, k, lo, hi : Bounds(b, k, lo, hi)' <=> Bounds(b, k, lo, hi)
  BY <1>6 DEF Bounds, MeetAt
<1>11. \A s, skip, b, k : Listed(s, skip, b, k)' <=> Listed(s, skip, b, k)
  BY <1>3 DEF Listed
<1>12. \A s, skip, k, lo, hi : Level(s, skip, k, lo, hi)' <=> Level(s, skip, k, lo, hi)
  BY <1>10, <1>11 DEF Level
<1>13. \A s, k, lo, hi : LevelOf(s, k, lo, hi)' <=> LevelOf(s, k, lo, hi)
  BY <1>4, <1>12 DEF LevelOf
<1>14. \A call : Lo(call)' = Lo(call) /\ Hi(call)' = Hi(call) /\ Mid(call)' = Mid(call)
  BY <1>1 DEF Lo, Hi, Mid
<1>15. \A call, skip, k, lo, hi :
         HalfDone(call, skip, k, lo, hi)' <=> HalfDone(call, skip, k, lo, hi)
  BY <1>1, <1>12 DEF HalfDone, Width, WideDegree
<1>16. \A len : RightSlot(len)' = RightSlot(len)
  BY <1>1 DEF RightSlot
<1>17. \A call : CallOK(call)' <=> CallOK(call)
  BY <1>1, <1>9, <1>14, <1>15, <1>16 DEF CallOK
<1>18. \A call, next : Above(call, next)' <=> Above(call, next)
  BY <1>9, <1>14 DEF Above
<1> QED
  BY <1>1, <1>2, <1>3, <1>4, <1>5, <1>7, <1>9, <1>13, <1>17, <1>18
-----------------------------------------------------------------------------
(***************************************************************************)
(* The widths of halves.  P is the chunks of the left half.                *)
(***************************************************************************)
LEMMA HalfWidths ==
  ASSUME target \in Targets, ArgsOK, NEW call, NEW lo, NEW hi, InRange(call, lo, hi),
         hi - lo > degree
  PROVE  LET P == Half(hi - lo)
             slot == RightSlot(LeftLen(call))
         IN  /\ hi - lo >= 2 /\ P >= degree /\ P >= slot
             /\ slot \in 1..WideDegree /\ slot \in Pow2
             /\ slot = WideDegree \/ (slot = 1 /\ P = 1 /\ hi - lo = 2 /\ degree = 1)
             /\ \A k : Width(k, P) => k = slot
             /\ \A k : Width(k, hi - lo - P) => k \in 1..slot
<1> DEFINE n == hi - lo
           P == Half(n)
           slot == RightSlot(LeftLen(call))
<1>1. /\ degree \in {1, 4, 8, 16} /\ WideDegree \in {2, 4, 8, 16}
      /\ WideDegree = IF degree = 1 THEN 2 ELSE degree
  BY Degrees DEF WideDegree
<1>2. lo \in Nat /\ hi \in Nat /\ lo < hi /\ hi <= Chunks /\ Chunks \in Nat /\ Chunks <= MaxLen
      /\ MaxLen \in Nat
  BY RangeOf, ArgFacts, Pow2Type
<1>3. n \in Nat /\ n >= 2 /\ n <= MaxLen /\ n > degree
  BY <1>1, <1>2
<1>4. /\ P \in Pow2 /\ P \in Nat \ {0} /\ P < n /\ n <= 2 * P
      /\ \A q \in Pow2 : q < n => q <= P
      /\ LeftLen(call) > CHUNK_LEN <=> P > 1
  BY <1>3, HalfRanges
<1> HIDE DEF n, P
<1>5. P >= degree
  <2>1. degree <= MaxLen
    BY <1>1, <1>2, <1>3
  <2>2. degree \in Pow2
    BY <1>1, <2>1, DegreeIsPow2
  <2> QED
    BY <1>1, <1>3, <1>4, <2>2
<1>6. slot = IF P > 1 /\ degree = 1 THEN 2 ELSE degree
  BY <1>4 DEF RightSlot
<1> HIDE DEF slot
<1>7. slot = WideDegree \/ (slot = 1 /\ P = 1 /\ n = 2 /\ degree = 1)
  BY <1>1, <1>3, <1>4, <1>6
<1>8. slot \in 1..WideDegree /\ slot <= P
  BY <1>1, <1>4, <1>5, <1>6, <1>7
<1>9. slot \in Pow2
  <2>1. slot \in {1, 2, 4, 8, 16} /\ slot <= MaxLen
    BY <1>1, <1>2, <1>3, <1>4, <1>7, <1>8
  <2> QED
    BY <2>1, DegreeIsPow2
<1>10. ASSUME NEW k, Width(k, P) PROVE k = slot
  <2>1. CASE slot = WideDegree
    <3>1. P >= WideDegree
      BY <1>1, <1>4, <1>8, <2>1
    <3> QED
      BY <1>4, <1>10, <2>1, <3>1 DEF Width
  <2>2. CASE slot = 1 /\ P = 1
    BY <1>1, <1>10, <2>2 DEF Width
  <2> QED
    BY <1>7, <2>1, <2>2
<1>11. ASSUME NEW k, Width(k, n - P) PROVE k \in 1..slot
  <2>1. CASE slot = WideDegree
    BY <1>11, <2>1 DEF Width
  <2>2. CASE slot = 1 /\ P = 1 /\ n = 2
    <3>1. n - P = 1
      BY <2>2
    <3> QED
      BY <1>1, <1>11, <2>2, <3>1 DEF Width
  <2> QED
    BY <1>7, <2>1, <2>2
<1> QED
  BY <1>3, <1>5, <1>7, <1>8, <1>9, <1>10, <1>11 DEF n, P, slot

\* Two chaining values of single chunks are returned as they are; of any
\* other two halves neighbours are joined, to the width of the whole.
LEMMA JoinWidth ==
  ASSUME target \in Targets, ArgsOK, NEW call, NEW lo, NEW hi, InRange(call, lo, hi),
         hi - lo > degree, NEW r, Width(r, hi - lo - Half(hi - lo))
  PROVE  LET slot == RightSlot(LeftLen(call))
             m == slot + r
         IN  /\ r \in 1..slot /\ m \in 2..(2 * WideDegree)
             /\ slot = 1 => m = 2 /\ Width(2, hi - lo)
             /\ slot # 1 => Width((m + 1) \div 2, hi - lo)
<1> DEFINE n == hi - lo
           P == Half(n)
           slot == RightSlot(LeftLen(call))
           m == slot + r
           h == (m + 1) \div 2
<1>1. /\ degree \in {1, 4, 8, 16} /\ WideDegree \in {2, 4, 8, 16}
      /\ WideDegree = IF degree = 1 THEN 2 ELSE degree
  BY Degrees DEF WideDegree
<1>2. lo \in Nat /\ hi \in Nat
  BY RangeOf
<1>3. /\ n >= 2 /\ P >= degree /\ P >= slot /\ slot \in 1..WideDegree
      /\ slot = WideDegree \/ (slot = 1 /\ P = 1 /\ n = 2 /\ degree = 1)
      /\ r \in 1..slot
  BY HalfWidths
<1>4. /\ P \in Pow2 /\ P \in Nat \ {0} /\ P < n /\ n <= 2 * P
  BY <1>3, HalfRanges
<1>5. n \in Nat /\ n > degree
  BY <1>1, <1>2
<1>6. Width(r, n - P)
  OBVIOUS
<1> HIDE DEF n, P, slot
<1>7. m \in 2..(2 * WideDegree)
  BY <1>1, <1>3
<1>8. ASSUME slot = 1 PROVE m = 2 /\ Width(2, n)
  <2>1. r = 1 /\ n = 2 /\ WideDegree = 2
    BY <1>1, <1>3, <1>8
  <2> QED
    BY <1>8, <2>1 DEF Width
<1>9. ASSUME slot # 1 PROVE Width(h, n)
  <2>1. slot = WideDegree /\ h \in 2..WideDegree
    BY <1>1, <1>3, <1>9
  <2>2. n > WideDegree
    BY <1>1, <1>3, <1>4, <1>5, <1>9, <2>1
  <2>3. ASSUME n \in Pow2 PROVE h = WideDegree
    <3>1. 2 * P <= n
      BY <1>4, <2>3, Pow2Double
    <3>2. n - P = P
      BY <1>4, <1>5, <3>1
    <3>3. r = WideDegree
      BY <1>1, <1>3, <1>4, <1>6, <2>1, <3>2 DEF Width
    <3> QED
      BY <1>1, <2>1, <3>3
  <2> HIDE DEF h
  <2> QED
    BY <1>1, <1>5, <2>1, <2>2, <2>3 DEF Width
<1> QED
  BY <1>3, <1>7, <1>8, <1>9 DEF n, P, slot, m, h

-----------------------------------------------------------------------------
(***************************************************************************)
(* The stack.                                                              *)
(***************************************************************************)
\* The running activation, and the one that waits for it.
LEMMA TopFacts ==
  ASSUME WideInv, stage = "wide"
  PROVE  /\ Len(calls) \in Nat \ {0} /\ DOMAIN calls = 1..Len(calls)
         /\ \A i \in 1..Len(calls) : calls[i] \in Activations /\ CallOK(calls[i])
         /\ top \in Activations /\ CallOK(top) /\ InRange(top, Lo(top), Hi(top))
         /\ Len(calls) = 1 => Lo(top) = 0 /\ Hi(top) = Chunks
         /\ Len(calls) # 1 =>
              Len(calls) - 1 \in 1..Len(calls) /\ Above(calls[Len(calls) - 1], top)
<1> DEFINE n == Len(calls)
<1>1. calls \in Seq(Activations) /\ CallsOK /\ n > 0 /\ ArgsOK
  BY DEF WideInv
<1>2. n \in Nat \ {0} /\ DOMAIN calls = 1..n /\ \A i \in 1..n : calls[i] \in Activations
  BY <1>1
<1>3. /\ \A i \in 1..n : CallOK(calls[i])
      /\ \A i \in 1..(n - 1) : Above(calls[i], calls[i + 1])
      /\ InRange(calls[1], 0, Chunks)
  BY <1>1 DEF CallsOK
<1>4. top = calls[n] /\ n \in 1..n
  BY <1>2 DEF top
<1> HIDE DEF n
<1>5. InRange(top, Lo(top), Hi(top))
  BY <1>3, <1>4 DEF CallOK
<1>6. n = 1 => Lo(top) = 0 /\ Hi(top) = Chunks
  BY <1>1, <1>3, <1>4, RangeOf
<1>7. n # 1 => n - 1 \in 1..n /\ Above(calls[n - 1], top)
  <2> SUFFICES ASSUME n # 1 PROVE n - 1 \in 1..n /\ Above(calls[n - 1], top)
    OBVIOUS
  <2>1. n - 1 \in 1..(n - 1) /\ (n - 1) + 1 = n /\ n - 1 \in 1..n
    BY <1>2
  <2> QED
    BY <1>3, <1>4, <2>1
<1> QED
  BY <1>2, <1>3, <1>4, <1>5, <1>6, <1>7 DEF n

\* What a half of a call is: its range, and the slots it has.
LEMMA AboveFacts ==
  ASSUME target \in Targets, ArgsOK, NEW call, CallOK(call), NEW next, Above(call, next)
  PROVE  LET P == Half(Hi(call) - Lo(call))
         IN  /\ InRange(call, Lo(call), Hi(call)) /\ Hi(call) - Lo(call) > degree
             /\ Lo(call) \in Nat /\ Hi(call) \in Nat /\ P \in Nat
             /\ Mid(call) = Lo(call) + P
             /\ \/ call.step = "left" /\ Lo(next) = Lo(call) /\ Hi(next) = Mid(call)
                   /\ Hi(next) - Lo(next) = P
                \/ call.step = "right" /\ Lo(next) = Mid(call) /\ Hi(next) = Hi(call)
                   /\ Hi(next) - Lo(next) = Hi(call) - Lo(call) - P
<1>1. InRange(call, Lo(call), Hi(call)) /\ Hi(call) - Lo(call) > degree
  BY DEF CallOK, Above
<1>2. Lo(call) \in Nat /\ Hi(call) \in Nat /\ degree >= 1 /\ degree \in Nat
  BY <1>1, RangeOf, Degrees
<1>3. Half(Hi(call) - Lo(call)) \in Nat
  <2>1. Hi(call) - Lo(call) >= 2
    BY <1>1, <1>2
  <2> QED
    BY <1>1, <2>1, HalfRanges
<1>4. Mid(call) = Lo(call) + Half(Hi(call) - Lo(call))
  BY DEF Mid
<1>5. CASE call.step = "left" /\ InRange(next, Lo(call), Mid(call))
  <2>1. Lo(next) = Lo(call) /\ Hi(next) = Mid(call)
    BY <1>5, RangeOf
  <2> QED
    BY <1>1, <1>2, <1>3, <1>4, <1>5, <2>1
<1>6. CASE call.step = "right" /\ InRange(next, Mid(call), Hi(call))
  <2>1. Lo(next) = Mid(call) /\ Hi(next) = Hi(call)
    BY <1>6, RangeOf
  <2> QED
    BY <1>1, <1>2, <1>3, <1>4, <1>6, <2>1
<1> QED
  BY <1>5, <1>6 DEF Above

\* A width of chaining values fits where their activation writes.
LEMMA WidthFits ==
  ASSUME WideInv, stage = "wide", NEW k, Width(k, Hi(top) - Lo(top))
  PROVE  k <= OwnSlots
<1>1. target \in Targets /\ ArgsOK
  BY DEF WideInv
<1>2. WideDegree \in {2, 4, 8, 16} /\ OR_2 \in {2, 4, 16} /\ WideDegree <= OR_2
  BY <1>1, Degrees
<1>3. k \in 1..WideDegree
  BY DEF Width
<1>4. CASE Len(calls) = 1
  BY <1>2, <1>3, <1>4 DEF OwnSlots
<1>5. CASE Len(calls) # 1
  <2> DEFINE call == calls[Len(calls) - 1]
             P == Half(Hi(call) - Lo(call))
             slot == RightSlot(LeftLen(call))
  <2>1. CallOK(call) /\ Above(call, top)
    BY <1>5, TopFacts
  <2>2. /\ slot \in 1..WideDegree
        /\ Width(k, P) => k = slot
    <3>1. InRange(call, Lo(call), Hi(call)) /\ Hi(call) - Lo(call) > degree
      BY <1>1, <2>1, AboveFacts
    <3> HIDE DEF call
    <3> QED
      BY <1>1, <3>1, HalfWidths
  <2>3. OwnSlots = IF call.step = "left" THEN slot ELSE 2 * OR_2 - slot
    BY <1>5 DEF OwnSlots
  <2>4. call.step # "left" \/ Hi(top) - Lo(top) = P
    <3> HIDE DEF call
    <3> QED
      BY <1>1, <2>1, AboveFacts
  <2>5. call.step = "left" => k = slot
    BY <2>2, <2>4
  <2> HIDE DEF slot, call
  <2> QED
    BY <1>2, <1>3, <2>2, <2>3, <2>5
<1> QED
  BY <1>4, <1>5

\* What is said of the arguments of a call does not depend on its locals.
LEMMA SameArguments ==
  ASSUME NEW call, NEW r, r.counter = call.counter, r.at = call.at, r.len = call.len
  PROVE  /\ Lo(r) = Lo(call) /\ Hi(r) = Hi(call) /\ Mid(r) = Mid(call)
         /\ LeftLen(r) = LeftLen(call)
         /\ \A lo, hi : InRange(r, lo, hi) <=> InRange(call, lo, hi)
<1>1. Lo(r) = Lo(call) /\ Hi(r) = Hi(call)
  BY DEF Lo, Hi
<1>2. Mid(r) = Mid(call)
  BY <1>1 DEF Mid
<1> QED
  BY <1>1, <1>2 DEF InRange, LeftLen

\* What a half returns is received in the half's own slots.
LEMMA ReceivedOK ==
  ASSUME target \in Targets, ArgsOK, NEW call \in Activations, CallOK(call),
         NEW next, Above(call, next), NEW k, NEW cvs,
         LevelOf(cvs, k, Lo(next), Hi(next)), Width(k, Hi(next) - Lo(next))
  PROVE  LET r == Received(call, cvs)
         IN  /\ r \in Activations /\ CallOK(r)
             /\ r.counter = call.counter /\ r.at = call.at /\ r.len = call.len
<1> DEFINE r == Received(call, cvs)
           P == Half(Hi(call) - Lo(call))
           slot == RightSlot(LeftLen(call))
           skip == IF call.step = "left" THEN 0 ELSE slot
           room == 2 * OR_2
           written == [s \in DOMAIN call.cvs |->
                         IF s - skip \in DOMAIN cvs THEN cvs[s - skip] ELSE call.cvs[s]]
<1>1. /\ WideDegree \in {2, 4, 8, 16} /\ OR_2 \in {2, 4, 16} /\ WideDegree <= OR_2
      /\ room \in Nat
  BY Degrees
<1>2. /\ InRange(call, Lo(call), Hi(call)) /\ Hi(call) - Lo(call) > degree
      /\ Lo(call) \in Nat /\ Hi(call) \in Nat /\ P \in Nat
      /\ Mid(call) = Lo(call) + P
      /\ \/ call.step = "left" /\ Lo(next) = Lo(call) /\ Hi(next) = Mid(call)
            /\ Hi(next) - Lo(next) = P
         \/ call.step = "right" /\ Lo(next) = Mid(call) /\ Hi(next) = Hi(call)
            /\ Hi(next) - Lo(next) = Hi(call) - Lo(call) - P
  BY AboveFacts
<1>3. slot \in 1..WideDegree /\ \A j : Width(j, P) => j = slot
  BY <1>2, HalfWidths
<1>4. k \in 1..WideDegree /\ Len(cvs) = k /\ cvs \in Seq(Values)
  BY DEF Width, LevelOf
<1>5. PICK b \in [0..k -> Nat] :
        Bounds(b, k, Lo(next), Hi(next)) /\ Listed(cvs, 0, b, k)
  BY DEF LevelOf, Level
<1>6. DOMAIN cvs = 1..k /\ \A i \in 1..k : cvs[i] \in Values
  BY <1>4
<1>7. call.cvs \in [1..room -> Values] /\ DOMAIN call.cvs = 1..room
      /\ call.left_n \in 0..OR_2 /\ call.right_n \in 0..OR_2
      /\ call.counter \in Nat /\ call.at \in Nat /\ call.len \in 1..MaxLen
  BY DEF Activations
<1>8. skip \in 0..WideDegree /\ skip \in Nat /\ skip + k <= room
  <2> HIDE DEF slot
  <2> QED
    BY <1>1, <1>3, <1>4
<1> HIDE DEF room, slot
<1>9. written \in [1..room -> Values]
  <2>1. written = [s \in 1..room |-> IF s - skip \in 1..k THEN cvs[s - skip] ELSE call.cvs[s]]
    BY <1>6, <1>7
  <2> HIDE DEF written, skip
  <2> QED
    BY <1>6, <1>7, <2>1
<1>10. ASSUME NEW i \in 1..k PROVE written[skip + i] = cvs[i]
  <2> HIDE DEF skip
  <2>1. skip + i \in 1..room /\ (skip + i) - skip = i
    BY <1>1, <1>4, <1>8
  <2> QED
    BY <1>6, <1>7, <2>1
<1>11. ASSUME NEW i \in 1..skip PROVE written[i] = call.cvs[i]
  <2> HIDE DEF skip
  <2>1. i \in 1..room /\ ~(i - skip \in 1..k)
    BY <1>1, <1>4, <1>8
  <2> QED
    BY <1>6, <1>7, <2>1
<1>12. r = IF call.step = "left"
           THEN [call EXCEPT !.cvs = written, !.left_n = k, !.step = "right"]
           ELSE [call EXCEPT !.cvs = written, !.right_n = k, !.step = "join"]
  BY <1>4 DEF Received, slot
<1> HIDE DEF written, skip, r
<1>13. Level(written, skip, k, Lo(next), Hi(next))
  <2>1. ASSUME NEW i \in 1..k PROVE written[skip + i] = RefCV(b[i - 1], b[i])
    <3>1. k \in Nat
      BY <1>4, <1>1
    <3>2. cvs[i] = RefCV(b[i - 1], b[i])
      BY ONLY <1>5, <3>1, b \in [0..k -> Nat], i \in 1..k, ListedValues
    <3> QED
      BY <1>10, <3>2
  <2>2. Listed(written, skip, b, k)
    BY <2>1 DEF Listed
  <2> QED
    BY <1>5, <2>2 DEF Level
<1>14. k \in 0..OR_2
  BY <1>1, <1>4
<1>15. r \in Activations /\ r.counter = call.counter /\ r.at = call.at /\ r.len = call.len
  <2>1. CASE call.step = "left"
    BY <1>7, <1>9, <1>12, <1>14, <2>1 DEF Activations, room
  <2>2. CASE call.step # "left"
    BY <1>7, <1>9, <1>12, <1>14, <2>2 DEF Activations, room
  <2> QED
    BY <2>1, <2>2
<1>16. /\ Lo(r) = Lo(call) /\ Hi(r) = Hi(call) /\ Mid(r) = Mid(call)
       /\ LeftLen(r) = LeftLen(call)
       /\ InRange(r, Lo(call), Hi(call))
  BY <1>2, <1>15, SameArguments
<1>17. CallOK(r)
  <2>1. CASE call.step = "left"
    <3>1. r.cvs = written /\ r.left_n = k /\ r.step = "right"
      BY <1>12, <2>1 DEF Activations
    <3>2. skip = 0 /\ Lo(next) = Lo(call) /\ Hi(next) = Mid(call)
      BY <1>2, <2>1 DEF skip
    <3>3. HalfDone(r, 0, r.left_n, Lo(call), Mid(call))
      BY <1>13, <3>1, <3>2 DEF HalfDone
    <3> QED
      BY <1>2, <1>16, <3>1, <3>3 DEF CallOK
  <2>2. CASE call.step = "right"
    <3>1. r.cvs = written /\ r.left_n = call.left_n /\ r.right_n = k /\ r.step = "join"
      BY <1>12, <2>2 DEF Activations
    <3>2. skip = slot /\ Lo(next) = Mid(call) /\ Hi(next) = Hi(call)
      BY <1>2, <2>2 DEF skip
    <3>3. HalfDone(call, 0, call.left_n, Lo(call), Mid(call))
      BY <2>2 DEF CallOK
    <3>4. call.left_n = slot
      <4>1. Mid(call) - Lo(call) = P
        BY <1>2
      <4> QED
        BY <1>3, <3>3, <4>1 DEF HalfDone
    <3>5. Level(written, 0, call.left_n, Lo(call), Mid(call))
      <4>1. PICK c \in [0..call.left_n -> Nat] :
              /\ Bounds(c, call.left_n, Lo(call), Mid(call))
              /\ Listed(call.cvs, 0, c, call.left_n)
        BY <3>3 DEF HalfDone, Level
      <4>2. ASSUME NEW i \in 1..call.left_n PROVE written[0 + i] = RefCV(c[i - 1], c[i])
        <5>1. 0 + i = i /\ i \in 1..skip
          BY <3>2, <3>4
        <5>2. call.cvs[0 + i] = RefCV(c[i - 1], c[i])
          BY <4>1 DEF Listed
        <5> QED
          BY <1>11, <5>1, <5>2
      <4>3. Listed(written, 0, c, call.left_n)
        BY <4>2 DEF Listed
      <4> QED
        BY <4>1, <4>3 DEF Level
    <3>6. HalfDone(r, 0, r.left_n, Lo(call), Mid(call))
      BY <3>1, <3>3, <3>5 DEF HalfDone
    <3>7. HalfDone(r, RightSlot(LeftLen(r)), r.right_n, Mid(call), Hi(call))
      BY <1>13, <1>16, <3>1, <3>2 DEF HalfDone, slot
    <3> QED
      BY <1>2, <1>16, <3>1, <3>6, <3>7 DEF CallOK
  <2> QED
    BY <1>2, <2>1, <2>2
<1> QED
  BY <1>15, <1>17 DEF r

\* A return keeps the invariant.
LEMMA ReturnOK ==
  ASSUME WideInv, stage = "wide", NEW k, NEW cvs, LevelOf(cvs, k, Lo(top), Hi(top)),
         Width(k, Hi(top) - Lo(top)), NEW listed, listed = TRUE, Returns(cvs, listed)
  PROVE  WideInv'
<1> DEFINE n == Len(calls)
<1>1. /\ target \in Targets /\ ArgsOK /\ fits = TRUE /\ CallsOK /\ ArrayOK
      /\ calls \in Seq(Activations) /\ cv_array \in Seq(Values)
  BY DEF WideInv
<1>2. UNCHANGED <<target, args>>
  BY DEF Returns
<1>3. /\ n \in Nat \ {0} /\ DOMAIN calls = 1..n
      /\ \A i \in 1..n : calls[i] \in Activations /\ CallOK(calls[i])
      /\ n = 1 => Lo(top) = 0 /\ Hi(top) = Chunks
      /\ n # 1 => n - 1 \in 1..n /\ Above(calls[n - 1], top)
  BY TopFacts
<1>4. fits' = TRUE
  <2>1. Len(cvs) <= OwnSlots
    BY WidthFits DEF LevelOf
  <2>2. fits' = (fits /\ listed /\ Len(cvs) <= OwnSlots)
    BY DEF Returns
  <2> QED
    BY <1>1, <2>1, <2>2
<1>5. /\ target' \in Targets /\ ArgsOK' /\ OR_2' = OR_2 /\ Chunks' = Chunks
      /\ Activations' = Activations /\ Values' = Values
  BY <1>1, <1>2, Same
<1>6. CASE n = 1
  <2>1. calls' = <<>> /\ cv_array' = cvs /\ stage' = "condense"
    BY <1>6 DEF Returns
  <2>2. LevelOf(cvs, k, 0, Chunks)
    BY <1>3, <1>6
  <2>3. LevelOf(cvs, k, 0, Chunks)'
    BY <1>2, <2>2, Same
  <2>4. k \in 2..OR_2
    <3>1. Chunks \in Nat /\ Chunks >= 2 /\ Chunks - 0 = Chunks
      BY <1>1, ArgFacts
    <3>2. WideDegree <= OR_2 /\ WideDegree \in Nat /\ OR_2 \in Nat
      BY <1>1, Degrees
    <3>3. Width(k, Chunks)
      BY <1>3, <1>6, <3>1
    <3> QED
      BY <3>1, <3>2, <3>3 DEF Width
  <2>5. Len(cvs) = k /\ cvs \in Seq(Values)
    BY DEF LevelOf
  <2>6. num_cvs' = k
    BY <2>1, <2>5 DEF num_cvs
  <2>7. ArrayOK'
    <3>1. LevelOf(cv_array, num_cvs, 0, Chunks)'
      BY <1>2, <1>5, <2>1, <2>2, <2>6, Same
    <3> QED
      BY <1>5, <2>1, <2>4, <2>6, <3>1 DEF ArrayOK
  <2>8. Len(calls') = 0 /\ calls' \in Seq(Activations)
    BY <2>1
  <2>9. CallsOK'
    BY <2>8 DEF CallsOK
  <2> QED
    BY <1>4, <1>5, <2>1, <2>5, <2>7, <2>8, <2>9 DEF WideInv
<1>7. CASE n # 1
  <2> DEFINE call == calls[n - 1]
             r == Received(call, cvs)
             m == n - 1
  <2>1. /\ calls' = [i \in 1..m |-> IF i = m THEN r ELSE calls[i]]
        /\ cv_array' = cv_array /\ stage' = stage
    BY <1>7 DEF Returns, Received
  <2>2. call \in Activations /\ CallOK(call) /\ Above(call, top) /\ m \in Nat \ {0} /\ n = m + 1
    BY <1>3, <1>7
  <2>3. /\ r \in Activations /\ CallOK(r)
        /\ r.counter = call.counter /\ r.at = call.at /\ r.len = call.len
    <3> HIDE DEF call
    <3> QED
      BY <1>1, <2>2, ReceivedOK
  <2>4. \A lo, hi : InRange(r, lo, hi) <=> InRange(call, lo, hi)
    <3> HIDE DEF call, r
    <3> QED
      BY <2>3, SameArguments
  <2>5. call = calls[m]
    OBVIOUS
  <2> HIDE DEF call, r, m
  <2>6. calls' \in Seq(Activations) /\ Len(calls') = m
    <3>1. \A i \in 1..m : calls'[i] \in Activations
      BY <1>3, <2>1, <2>2, <2>3
    <3>2. DOMAIN calls' = 1..m /\ calls' = [i \in 1..m |-> calls'[i]]
      BY <2>1
    <3> QED
      BY <2>2, <3>1, <3>2, ListOf
  <2>7. ASSUME NEW i \in 1..m
        PROVE  /\ CallOK(calls'[i])
               /\ \A lo, hi : InRange(calls'[i], lo, hi) <=> InRange(calls[i], lo, hi)
               /\ i # m => calls'[i] = calls[i]
    <3>1. CASE i = m
      BY <2>1, <2>3, <2>4, <2>5, <3>1
    <3>2. CASE i # m
      BY <1>3, <2>1, <2>2, <3>2
    <3> QED
      BY <3>1, <3>2
  <2>8. ASSUME NEW i \in 1..(m - 1)
        PROVE  Above(calls'[i], calls'[i + 1])
    <3>1. i \in 1..m /\ i # m /\ i + 1 \in 1..m /\ i \in 1..(n - 1)
      BY <2>2
    <3>2. Above(calls[i], calls[i + 1])
      BY <1>1, <3>1 DEF CallsOK
    <3> QED
      BY <2>7, <3>1, <3>2 DEF Above
  <2>9. InRange(calls'[1], 0, Chunks)
    <3>1. InRange(calls[1], 0, Chunks)
      BY <1>1, <1>3 DEF CallsOK
    <3> QED
      BY <2>2, <2>7, <3>1, 1 \in 1..m
  <2>10. CallsOK'
    <3>1. \A i \in 1..m : CallOK(calls[i])'
      BY <1>2, <2>7, Same
    <3>2. \A i \in 1..(m - 1) : Above(calls[i], calls[i + 1])'
      BY <1>2, <2>8, Same
    <3>3. InRange(calls[1], 0, Chunks)'
      BY <1>2, <1>5, <2>9, Same
    <3> QED
      BY <2>6, <3>1, <3>2, <3>3 DEF CallsOK
  <2>11. ArrayOK'
    <3>1. stage = "wide" => cv_array = <<>>
      BY <1>1 DEF ArrayOK
    <3> QED
      BY <2>1, <3>1 DEF ArrayOK
  <2> QED
    BY <1>1, <1>4, <1>5, <2>1, <2>2, <2>6, <2>10, <2>11 DEF WideInv
<1> QED
  BY <1>6, <1>7

\* A call keeps the invariant: the caller waits, with all it had received.
LEMMA CallKeeps ==
  ASSUME WideInv, stage = "wide", NEW step \in {"left", "right"}, NEW half,
         top.step \in {"entered", "right"}, (top.step = "right") <=> (step = "right"),
         Hi(top) - Lo(top) > degree,
         half \in Activations, half.step = "entered",
         step = "left" => InRange(half, Lo(top), Mid(top)),
         step = "right" => InRange(half, Mid(top), Hi(top)),
         Calls(step, half)
  PROVE  WideInv'
<1> DEFINE n == Len(calls)
           r == [top EXCEPT !.step = step]
           m == n + 1
<1>1. /\ target \in Targets /\ ArgsOK /\ fits = TRUE /\ CallsOK /\ ArrayOK
      /\ calls \in Seq(Activations) /\ cv_array \in Seq(Values)
  BY DEF WideInv
<1>2. /\ UNCHANGED <<target, args, cv_array, fits, stage>>
      /\ calls' = Append([calls EXCEPT ![n].step = step], half)
  BY DEF Calls
<1>3. /\ n \in Nat \ {0} /\ DOMAIN calls = 1..n
      /\ \A i \in 1..n : calls[i] \in Activations /\ CallOK(calls[i])
      /\ top \in Activations /\ CallOK(top) /\ top = calls[n] /\ n \in 1..n
  BY TopFacts DEF top
<1>4. /\ target' \in Targets /\ ArgsOK' /\ OR_2' = OR_2 /\ Chunks' = Chunks
      /\ Activations' = Activations /\ Values' = Values
  BY <1>1, <1>2, Same
<1>5. /\ r \in Activations /\ r.step = step /\ r.cvs = top.cvs
      /\ r.left_n = top.left_n /\ r.right_n = top.right_n
      /\ r.counter = top.counter /\ r.at = top.at /\ r.len = top.len
  BY <1>3 DEF Activations
<1>6. /\ Lo(r) = Lo(top) /\ Hi(r) = Hi(top) /\ Mid(r) = Mid(top) /\ LeftLen(r) = LeftLen(top)
      /\ \A lo, hi : InRange(r, lo, hi) <=> InRange(top, lo, hi)
  <2> HIDE DEF r
  <2> QED
    BY <1>5, SameArguments
<1> HIDE DEF r
<1>7. CallOK(r)
  <2>1. InRange(top, Lo(top), Hi(top))
    BY <1>3 DEF CallOK
  <2>2. CASE step = "left"
    BY <1>5, <1>6, <2>1, <2>2 DEF CallOK
  <2>3. CASE step = "right"
    <3>1. HalfDone(top, 0, top.left_n, Lo(top), Mid(top))
      BY <1>3, <2>3 DEF CallOK
    <3>2. HalfDone(r, 0, r.left_n, Lo(r), Mid(r))
      BY <1>5, <1>6, <3>1 DEF HalfDone
    <3> QED
      BY <1>5, <1>6, <2>1, <2>3, <3>2 DEF CallOK
  <2> QED
    BY <2>2, <2>3
<1>8. CallOK(half)
  <2>1. Lo(half) \in Nat /\ InRange(half, Lo(half), Hi(half))
    <3>1. CASE step = "left"
      BY <1>1, <3>1, RangeOf
    <3>2. CASE step = "right"
      BY <1>1, <3>2, RangeOf
    <3> QED
      BY <3>1, <3>2
  <2> QED
    BY <2>1 DEF CallOK
<1>9. Above(r, half)
  BY <1>5, <1>6 DEF Above
<1>10. /\ calls' \in Seq(Activations) /\ Len(calls') = m
       /\ calls'[m] = half /\ calls'[n] = r
       /\ \A i \in 1..(n - 1) : calls'[i] = calls[i]
  <2> DEFINE waiting == [calls EXCEPT ![n].step = step]
  <2>1. waiting = [i \in 1..n |-> IF i = n THEN r ELSE calls[i]]
    BY <1>3 DEF r
  <2> HIDE DEF waiting
  <2>2. waiting \in Seq(Activations) /\ Len(waiting) = n
    <3>1. \A i \in 1..n : waiting[i] \in Activations
      BY <1>3, <1>5, <2>1
    <3>2. DOMAIN waiting = 1..n /\ waiting = [i \in 1..n |-> waiting[i]]
      BY <2>1
    <3> QED
      BY <1>3, <3>1, <3>2, ListOf
  <2>3. calls' = Append(waiting, half)
    BY <1>2 DEF waiting
  <2> DEFINE len == Len(waiting)
  <2>4. /\ calls' \in Seq(Activations) /\ Len(calls') = len + 1
        /\ \A i \in 1..len : calls'[i] = waiting[i]
        /\ calls'[len + 1] = half
    BY <2>2, <2>3, AppendProperties
  <2>5. len = n
    BY <2>2
  <2> HIDE DEF len, n
  <2>6. calls'[n] = r
    BY <1>3, <2>1, <2>4, <2>5
  <2>7. ASSUME NEW i \in 1..(n - 1) PROVE calls'[i] = calls[i]
    <3>1. i \in 1..n /\ i # n
      BY <1>3
    <3> QED
      BY <2>1, <2>4, <2>5, <3>1
  <2> QED
    BY <2>4, <2>5, <2>6, <2>7
<1>11. \A i \in 1..m : i = m \/ i = n \/ i \in 1..(n - 1)
  <2>1. n \in Nat
    BY <1>3
  <2> HIDE DEF n
  <2> QED
    BY <2>1
<1> HIDE DEF n
<1>12. \A i \in 1..m : CallOK(calls'[i])
  <2>1. \A i \in 1..(n - 1) : i \in 1..n
    BY <1>3
  <2> QED
    BY <1>3, <1>7, <1>8, <1>10, <1>11, <2>1
<1>13. ASSUME NEW i \in 1..(m - 1) PROVE Above(calls'[i], calls'[i + 1])
  <2>1. CASE i = n
    BY <1>9, <1>10, <2>1
  <2>2. CASE i # n
    <3>1. i \in 1..(n - 1)
      BY <1>3, <2>2
    <3>2. Above(calls[i], calls[i + 1])
      BY <1>1, <3>1 DEF CallsOK, n
    <3>3. CASE i + 1 = n
      BY <1>3, <1>6, <1>10, <3>1, <3>2, <3>3 DEF Above
    <3>4. CASE i + 1 # n
      <4>1. i + 1 \in 1..(n - 1)
        BY <1>3, <3>1, <3>4
      <4> QED
        BY <1>10, <3>1, <3>2, <4>1
    <3> QED
      BY <3>3, <3>4
  <2> QED
    BY <2>1, <2>2
<1>14. InRange(calls'[1], 0, Chunks)
  <2>1. InRange(calls[1], 0, Chunks)
    BY <1>1, <1>3 DEF CallsOK, n
  <2>2. CASE n = 1
    BY <1>3, <1>6, <1>10, <2>1, <2>2
  <2>3. CASE n # 1
    <3>1. 1 \in 1..(n - 1)
      BY <1>3, <2>3
    <3> QED
      BY <1>10, <2>1, <3>1
  <2> QED
    BY <2>2, <2>3
<1>15. m \in Nat /\ m > 0
  BY <1>3
<1> HIDE DEF m
<1>16. CallsOK'
  <2>1. \A i \in 1..m : CallOK(calls[i])'
    BY <1>2, <1>12, Same
  <2>2. \A i \in 1..(m - 1) : Above(calls[i], calls[i + 1])'
    BY <1>2, <1>13, Same
  <2>3. InRange(calls[1], 0, Chunks)'
    BY <1>2, <1>4, <1>14, Same
  <2> QED
    BY <1>10, <2>1, <2>2, <2>3 DEF CallsOK
<1>17. ArrayOK'
  BY <1>1, <1>2 DEF ArrayOK
<1> QED
  BY <1>1, <1>2, <1>4, <1>10, <1>15, <1>16, <1>17 DEF WideInv

\* A new activation is one.
LEMMA ActivationType ==
  ASSUME target \in Targets, ArgsOK, NEW counter, NEW at, NEW len, NEW lo, NEW hi,
         InRange(Activation(counter, at, len), lo, hi)
  PROVE  Activation(counter, at, len) \in Activations
         /\ Activation(counter, at, len).step = "entered"
<1> DEFINE a == Activation(counter, at, len)
<1>1. a.counter \in Nat /\ a.at \in Nat /\ a.len \in 1..MaxLen
  <2> HIDE DEF a
  <2>1. InRange(a, lo, hi)
    BY DEF a
  <2> QED
    BY <2>1, RangeOf
<1>2. a = [counter |-> counter, at |-> at, len |-> len, step |-> "entered",
           cvs |-> [s \in 1..(2 * OR_2) |-> Garbage], left_n |-> 0, right_n |-> 0]
  BY DEF Activation
<1>3. [s \in 1..(2 * OR_2) |-> Garbage] \in [1..(2 * OR_2) -> Values]
  BY DEF Values
<1>4. 0 \in 0..OR_2
  BY Degrees
<1> QED
  BY <1>1, <1>2, <1>3, <1>4 DEF Activations
\* An activation with more input than the degree has chunks has more chunks.
LEMMA MoreThanDegree ==
  ASSUME target \in Targets, ArgsOK, NEW call, NEW lo, NEW hi, InRange(call, lo, hi),
         call.len > degree * CHUNK_LEN
  PROVE  hi - lo > degree
<1>1. lo \in Nat /\ hi \in Nat /\ degree \in {1, 4, 8, 16} /\ CHUNK_LEN \in Nat
  BY RangeOf, Degrees, ArgFacts
<1> DEFINE len == call.len
<1>2. len \in Nat /\ ChunkCount(len) = hi - lo
  <2>1. Covers(lo, hi) /\ call.len = EndOf(hi) - lo * CHUNK_LEN
    BY DEF InRange
  <2>2. call.len \in 1..MaxLen /\ ChunkCount(call.len) = hi - lo
    BY <1>1, <2>1, RangeLen
  <2> QED
    BY <2>2
<1>3. degree * CHUNK_LEN < len
  <2>1. degree * CHUNK_LEN \in Int
    BY <1>1
  <2> QED
    BY <1>2, <2>1
<1> HIDE DEF len
<1>4. degree < ChunkCount(len)
  BY <1>1, <1>2, <1>3, CountAgainst
<1> QED
  BY <1>1, <1>2, <1>4
-----------------------------------------------------------------------------
(***************************************************************************)
(* One lemma for each action.                                              *)
(***************************************************************************)
LEMMA WideInitKeeps ==
  ASSUME WideInit
  PROVE  WideInv
<1> DEFINE call == Activation(args.chunk_counter, args.chunk_counter * CHUNK_LEN,
                              args.input_len)
<1>1. /\ target \in Targets /\ ArgsOK /\ calls = <<call>> /\ cv_array = <<>>
      /\ fits = TRUE /\ stage = "wide"
  BY DEF WideInit, ArgsOK
<1>2. InRange(call, 0, Chunks)
  <2>1. Covers(0, Chunks)
    BY <1>1, WholeCovered
  <2>2. First \in Nat /\ CHUNK_LEN \in Nat /\ args.input_len \in Nat
    BY <1>1, ArgFacts
  <2>3. EndOf(Chunks) = args.input_len
    <3>1. ~(Chunks < Chunks)
      BY <1>1, ArgFacts
    <3> QED
      BY <3>1 DEF EndOf
  <2>4. First = First + 0 /\ args.input_len = args.input_len - 0 * CHUNK_LEN
    BY <2>2
  <2>5. call.counter = First /\ call.at = First * CHUNK_LEN /\ call.len = args.input_len
    BY DEF Activation, First
  <2> HIDE DEF call
  <2> QED
    BY <2>1, <2>3, <2>4, <2>5 DEF InRange
<1>3. call \in Activations /\ call.step = "entered"
  BY <1>1, <1>2, ActivationType
<1>4. CallOK(call)
  <2>1. Lo(call) = 0 /\ Hi(call) = Chunks
    <3> HIDE DEF call
    <3> QED
      BY <1>1, <1>2, RangeOf
  <2> HIDE DEF call
  <2> QED
    BY <1>2, <1>3, <2>1 DEF CallOK
<1> HIDE DEF call
<1>5. calls \in Seq(Activations) /\ Len(calls) = 1 /\ calls[1] = call
  BY <1>1, <1>3
<1>6. CallsOK
  <2>1. \A i \in 1..1 : i = 1
    OBVIOUS
  <2>2. 1..(1 - 1) = {}
    OBVIOUS
  <2> QED
    BY <1>2, <1>4, <1>5, <2>1, <2>2 DEF CallsOK
<1>7. ArrayOK
  BY <1>1 DEF ArrayOK
<1> QED
  BY <1>1, <1>5, <1>6, <1>7 DEF WideInv

LEMMA HashChunksKeeps ==
  ASSUME WideInv, HashChunks
  PROVE  WideInv'
<1> DEFINE lo == Lo(top)
           hi == Hi(top)
           cvs == compress_chunks_parallel(top.counter, top.at, top.len)
           listed == top.len \div CHUNK_LEN <= MAX_SIMD_DEGREE(target)
           L == CHUNK_LEN
<1>1. target \in Targets /\ ArgsOK
  BY DEF WideInv
<1>2. /\ stage = "wide" /\ top.len <= degree * L
      /\ Returns(cvs, listed)
  BY DEF HashChunks
<1>3. InRange(top, lo, hi)
  BY <1>2, TopFacts
<1>4. /\ lo \in Nat /\ hi \in Nat /\ lo < hi /\ Covers(lo, hi) /\ L \in Nat \ {0}
      /\ top.counter = First + lo /\ top.at = (First + lo) * L
      /\ top.len = EndOf(hi) - lo * L
  BY <1>1, <1>3, RangeOf, ArgFacts DEF InRange
<1>5. /\ degree \in {1, 4, 8, 16} /\ degree <= WideDegree /\ WideDegree \in {2, 4, 8, 16}
      /\ degree <= MAX_SIMD_DEGREE(target)
      /\ MAX_SIMD_DEGREE(target) \in Int
  BY <1>1, Degrees DEF MAX_SIMD_DEGREE
<1>6. LevelOf(cvs, hi - lo, lo, hi)
  <2>1. cvs = compress_chunks_parallel(First + lo, (First + lo) * L, EndOf(hi) - lo * L)
    BY <1>4
  <2> HIDE DEF cvs, lo, hi
  <2> QED
    BY <1>1, <1>4, <2>1, ChunksOut
<1>7. /\ top.len \in 1..MaxLen /\ ChunkCount(top.len) = hi - lo
      /\ top.len \div L <= hi - lo /\ top.len \div L \in Nat
  <2>1. /\ top.len \in 1..MaxLen /\ ChunkCount(top.len) = hi - lo
        /\ top.len \div L <= hi - lo
    <3> HIDE DEF lo, hi
    <3> QED
      BY <1>1, <1>4, RangeLen
  <2>2. top.len \in Nat
    BY <2>1
  <2> QED
    BY <1>4, <2>1, <2>2, DivisionOf
<1> HIDE DEF lo, hi
<1>8. hi - lo <= degree
  <2> SUFFICES ASSUME degree < hi - lo PROVE FALSE
    BY <1>4, <1>5
  <2> DEFINE len == top.len
  <2>1. len \in Nat /\ len > 0 /\ ChunkCount(len) = hi - lo
    BY <1>7
  <2>2. degree \in Nat
    BY <1>5
  <2> HIDE DEF len
  <2>3. degree * L < len
    BY <2>1, <2>2, CountAgainst
  <2> QED
    BY <1>2, <1>4, <1>5, <2>1, <2>3 DEF len
<1>9. Width(hi - lo, hi - lo)
  <2> DEFINE n == hi - lo
  <2>1. n \in 1..degree
    BY <1>4, <1>5, <1>8
  <2> HIDE DEF n
  <2>2. n \in 1..WideDegree
    BY <1>5, <2>1
  <2>3. n >= WideDegree => n = WideDegree
    BY <1>5, <2>2
  <2> QED
    BY <2>2, <2>3 DEF Width, n
<1>10. listed = TRUE
  BY <1>4, <1>5, <1>7, <1>8
<1> HIDE DEF cvs, listed
<1> QED
  BY <1>2, <1>6, <1>9, <1>10, ReturnOK DEF lo, hi

LEMMA CallLeftKeeps ==
  ASSUME WideInv, CallLeft
  PROVE  WideInv'
<1> DEFINE lo == Lo(top)
           hi == Hi(top)
<1>1. target \in Targets /\ ArgsOK
  BY DEF WideInv
<1>2. /\ stage = "wide" /\ top.step = "entered" /\ top.len > degree * CHUNK_LEN
      /\ Calls("left", LeftOf(top))
  BY DEF CallLeft
<1>3. InRange(top, lo, hi)
  BY <1>2, TopFacts
<1>4. lo \in Nat /\ hi \in Nat /\ degree \in {1, 4, 8, 16}
  BY <1>1, <1>3, RangeOf, Degrees
<1>5. hi - lo > degree
  <2> HIDE DEF lo, hi
  <2> QED
    BY <1>1, <1>2, <1>3, MoreThanDegree
<1>6. hi - lo >= 2
  BY <1>4, <1>5
<1>7. InRange(LeftOf(top), lo, Mid(top))
  <2>1. Mid(top) = lo + Half(hi - lo)
    BY DEF Mid
  <2> HIDE DEF lo, hi
  <2> QED
    BY <1>1, <1>3, <1>6, <2>1, HalfRanges
<1>8. LeftOf(top) \in Activations /\ LeftOf(top).step = "entered"
  BY <1>1, <1>7, ActivationType DEF LeftOf
<1> QED
  BY <1>2, <1>5, <1>7, <1>8, CallKeeps DEF lo, hi

LEMMA CallRightKeeps ==
  ASSUME WideInv, CallRight
  PROVE  WideInv'
<1> DEFINE lo == Lo(top)
           hi == Hi(top)
<1>1. target \in Targets /\ ArgsOK
  BY DEF WideInv
<1>2. stage = "wide" /\ top.step = "right" /\ Calls("right", RightOf(top))
  BY DEF CallRight
<1>3. InRange(top, lo, hi) /\ hi - lo > degree
  BY <1>2, TopFacts DEF CallOK
<1>4. lo \in Nat /\ hi \in Nat /\ degree \in {1, 4, 8, 16}
  BY <1>1, <1>3, RangeOf, Degrees
<1>5. hi - lo >= 2
  BY <1>3, <1>4
<1>6. InRange(RightOf(top), Mid(top), hi)
  <2>1. Mid(top) = lo + Half(hi - lo)
    BY DEF Mid
  <2> HIDE DEF lo, hi
  <2> QED
    BY <1>1, <1>3, <1>5, <2>1, HalfRanges
<1>7. RightOf(top) \in Activations /\ RightOf(top).step = "entered"
  BY <1>1, <1>6, ActivationType DEF RightOf
<1> QED
  BY <1>2, <1>3, <1>6, <1>7, CallKeeps DEF lo, hi

LEMMA JoinHalvesKeeps ==
  ASSUME WideInv, JoinHalves
  PROVE  WideInv'
<1> DEFINE lo == Lo(top)
           hi == Hi(top)
           P == Half(hi - lo)
           slot == RightSlot(LeftLen(top))
           r == top.right_n
           m == top.left_n + r
           slots == top.cvs
           room == 2 * OR_2
<1>1. target \in Targets /\ ArgsOK
  BY DEF WideInv
<1>2. /\ stage = "wide" /\ top.step = "join"
      /\ IF top.left_n = 1
         THEN Returns(SubSeq(slots, 1, 2), TRUE)
         ELSE Returns(compress_parents_parallel(SubSeq(slots, 1, m)), m \div 2 <= OR_2)
  BY DEF JoinHalves
<1>3. /\ InRange(top, lo, hi) /\ hi - lo > degree /\ top \in Activations
      /\ HalfDone(top, 0, top.left_n, lo, Mid(top))
      /\ HalfDone(top, slot, r, Mid(top), hi)
  BY <1>2, TopFacts DEF CallOK
<1>4. /\ lo \in Nat /\ hi \in Nat /\ degree \in {1, 4, 8, 16} /\ hi <= MaxLen
      /\ WideDegree \in {2, 4, 8, 16} /\ WideDegree <= OR_2 /\ OR_2 \in {2, 4, 16}
  <2>1. hi <= Chunks /\ Chunks <= MaxLen /\ Chunks \in Nat /\ MaxLen \in Nat
    BY <1>1, <1>3, RangeOf, ArgFacts, Pow2Type
  <2>2. lo \in Nat /\ hi \in Nat
    BY <1>1, <1>3, RangeOf
  <2>3. /\ degree \in {1, 4, 8, 16} /\ WideDegree \in {2, 4, 8, 16} /\ WideDegree <= OR_2
        /\ OR_2 \in {2, 4, 16}
    BY <1>1, Degrees
  <2> HIDE DEF lo, hi
  <2> QED
    BY <2>1, <2>2, <2>3
<1>5. Mid(top) = lo + P
  BY DEF Mid
<1>6. slots \in [1..room -> Values] /\ room \in Nat
  BY <1>3, <1>4 DEF Activations
<1> HIDE DEF lo, hi, r, slots
<1>7. hi - lo >= 2
  BY <1>3, <1>4
<1>8. P \in Pow2 /\ P \in Nat \ {0} /\ P < hi - lo /\ Halved(lo, P, hi)
  BY <1>1, <1>3, <1>7, HalfRanges
<1>9. Width(top.left_n, P) /\ Level(slots, 0, top.left_n, lo, lo + P)
  <2>1. (lo + P) - lo = P
    BY <1>4, <1>8
  <2> QED
    BY <1>3, <1>5, <2>1 DEF HalfDone, slots
<1>10. Width(r, hi - lo - P) /\ Level(slots, slot, r, lo + P, hi)
  <2>1. hi - (lo + P) = hi - lo - P
    BY <1>4, <1>8
  <2> QED
    BY <1>3, <1>5, <2>1 DEF HalfDone, slots
<1>11. /\ slot \in 1..WideDegree /\ slot \in Pow2 /\ top.left_n = slot
  BY <1>1, <1>3, <1>9, HalfWidths
<1>12. /\ r \in 1..slot /\ slot + r \in 2..(2 * WideDegree)
       /\ slot = 1 => slot + r = 2 /\ Width(2, hi - lo)
       /\ slot # 1 => Width((slot + r + 1) \div 2, hi - lo)
  BY <1>1, <1>3, <1>10, JoinWidth
<1> HIDE DEF P, slot
<1>13. m = slot + r /\ m \in 2..(2 * WideDegree) /\ m <= room
  BY <1>4, <1>11, <1>12
<1>14. LevelOf(SubSeq(slots, 1, m), m, lo, hi)
  <2>1. r <= slot /\ slot + r <= room
    BY <1>4, <1>11, <1>12, <1>13
  <2>2. Level(slots, 0, slot, lo, lo + P)
    BY <1>9, <1>11
  <2> HIDE DEF room, m
  <2>3. LevelOf(SubSeq(slots, 1, slot + r), slot + r, lo, hi)
    BY <1>1, <1>4, <1>6, <1>8, <1>10, <1>11, <2>1, <2>2, HalvesOut
  <2> QED
    BY <1>13, <2>3
<1>15. m \div 2 <= OR_2
  <2> HIDE DEF m
  <2> QED
    BY <1>4, <1>13
<1> HIDE DEF m
<1>16. CASE top.left_n = 1
  <2>1. m = 2 /\ Width(2, hi - lo)
    BY <1>11, <1>12, <1>13, <1>16
  <2>2. LevelOf(SubSeq(slots, 1, 2), 2, lo, hi)
    BY <1>14, <2>1
  <2>3. Returns(SubSeq(slots, 1, 2), TRUE)
    BY <1>2, <1>16
  <2> QED
    BY <1>2, <2>1, <2>2, <2>3, ReturnOK DEF lo, hi
<1>17. CASE top.left_n # 1
  <2> DEFINE h == (m + 1) \div 2
             cvs == compress_parents_parallel(SubSeq(slots, 1, m))
             listed == m \div 2 <= OR_2
  <2>1. LevelOf(cvs, h, lo, hi)
    BY <1>1, <1>4, <1>14, ParentsOut
  <2>2. Width(h, hi - lo)
    BY <1>11, <1>12, <1>13, <1>17
  <2>3. Returns(cvs, listed)
    BY <1>2, <1>17
  <2>4. listed = TRUE
    BY <1>15
  <2> HIDE DEF h, cvs, listed
  <2> QED
    BY <1>2, <2>1, <2>2, <2>3, <2>4, ReturnOK DEF lo, hi
<1> QED
  BY <1>16, <1>17

LEMMA CondenseKeeps ==
  ASSUME WideInv, Condense
  PROVE  WideInv'
<1> DEFINE n == num_cvs
           h == (n + 1) \div 2
           parents == compress_parents_parallel(cv_array)
<1>1. /\ target \in Targets /\ ArgsOK /\ fits = TRUE /\ CallsOK /\ ArrayOK
      /\ calls \in Seq(Activations) /\ (stage = "wide" <=> Len(calls) > 0)
  BY DEF WideInv
<1>2. /\ stage = "condense" /\ OR_2 > 2 /\ n > 2
      /\ cv_array' = parents
      /\ UNCHANGED <<target, args, calls, stage>>
  BY DEF Condense, ToCondense
<1>3. OR_2 \in {2, 4, 16}
  BY <1>1, Degrees
<1>4. n \in 2..OR_2 /\ LevelOf(cv_array, n, 0, Chunks)
  BY <1>1, <1>2 DEF ArrayOK
<1>5. Chunks \in Nat /\ Chunks <= MaxLen
  BY <1>1, ArgFacts
<1> HIDE DEF n
<1>6. LevelOf(parents, h, 0, Chunks)
  BY <1>1, <1>4, <1>5, ParentsOut
<1>7. h \in 2..OR_2 /\ h <= OR_2 \div 2 /\ n \div 2 <= OR_2
  BY <1>2, <1>3, <1>4
<1>8. Len(parents) = h /\ parents \in Seq(Values)
  BY <1>6 DEF LevelOf
<1> HIDE DEF h, parents
<1>9. fits' = TRUE
  <2>1. fits' = (fits /\ num_cvs \div 2 <= OR_2 /\ Len(parents) <= OR_2 \div 2)
    BY DEF Condense, parents
  <2> QED
    BY <1>1, <1>7, <1>8, <2>1 DEF n
<1>10. /\ target' \in Targets /\ ArgsOK' /\ OR_2' = OR_2 /\ Chunks' = Chunks
       /\ Activations' = Activations /\ Values' = Values
  BY <1>1, <1>2, Same
<1>11. CallsOK'
  <2>1. Len(calls) = 0
    BY <1>1, <1>2
  <2> QED
    BY <1>2, <2>1 DEF CallsOK
<1>12. ArrayOK'
  <2>1. num_cvs' = h
    BY <1>2, <1>8 DEF num_cvs
  <2>2. LevelOf(cv_array, num_cvs, 0, Chunks)'
    BY <1>2, <1>6, <1>10, <2>1, Same
  <2> QED
    BY <1>2, <1>7, <1>10, <2>1, <2>2 DEF ArrayOK
<1> QED
  BY <1>1, <1>2, <1>8, <1>9, <1>10, <1>11, <1>12 DEF WideInv

LEMMA ReturnKeeps ==
  ASSUME WideInv, Return
  PROVE  WideInv'
<1>1. /\ target \in Targets /\ ArgsOK /\ fits = TRUE /\ CallsOK /\ ArrayOK
      /\ calls \in Seq(Activations) /\ cv_array \in Seq(Values)
      /\ (stage = "wide" <=> Len(calls) > 0)
  BY DEF WideInv
<1>2. /\ stage = "condense" /\ ~(OR_2 > 2 /\ num_cvs > 2) /\ stage' = "done"
      /\ UNCHANGED <<target, args, calls, cv_array, fits>>
  BY DEF Return, ToCondense
<1>3. OR_2 \in {2, 4, 16} /\ num_cvs \in 2..OR_2 /\ LevelOf(cv_array, num_cvs, 0, Chunks)
  BY <1>1, <1>2, Degrees DEF ArrayOK
<1>4. num_cvs = 2
  BY <1>2, <1>3
<1>5. /\ target' \in Targets /\ ArgsOK' /\ OR_2' = OR_2 /\ Chunks' = Chunks
      /\ Activations' = Activations /\ Values' = Values
  BY <1>1, <1>2, Same
<1>6. CallsOK'
  <2>1. Len(calls) = 0
    BY <1>1, <1>2
  <2> QED
    BY <1>2, <2>1 DEF CallsOK
<1>7. ArrayOK'
  <2>1. num_cvs' = num_cvs
    BY <1>2 DEF num_cvs
  <2>2. LevelOf(cv_array, num_cvs, 0, Chunks)'
    BY <1>2, <1>3, <1>5, <2>1, Same
  <2> QED
    BY <1>2, <1>3, <1>4, <1>5, <2>1, <2>2 DEF ArrayOK
<1> QED
  BY <1>1, <1>2, <1>5, <1>6, <1>7 DEF WideInv

LEMMA WideNextKeeps ==
  ASSUME WideInv, [WideNext]_wideVars
  PROVE  WideInv'
<1>1. CASE HashChunks
  BY <1>1, HashChunksKeeps
<1>2. CASE CallLeft
  BY <1>2, CallLeftKeeps
<1>3. CASE CallRight
  BY <1>3, CallRightKeeps
<1>4. CASE JoinHalves
  BY <1>4, JoinHalvesKeeps
<1>5. CASE Condense
  BY <1>5, CondenseKeeps
<1>6. CASE Return
  BY <1>6, ReturnKeeps
<1>7. CASE UNCHANGED wideVars
  <2>1. /\ UNCHANGED <<target, args>>
        /\ calls' = calls /\ cv_array' = cv_array /\ fits' = fits /\ stage' = stage
    BY <1>7 DEF wideVars
  <2>2. /\ target \in Targets /\ ArgsOK /\ fits = TRUE /\ CallsOK /\ ArrayOK
        /\ calls \in Seq(Activations) /\ cv_array \in Seq(Values)
        /\ stage \in {"wide", "condense", "done"} /\ (stage = "wide" <=> Len(calls) > 0)
    BY DEF WideInv
  <2>3. /\ target' \in Targets /\ ArgsOK' /\ OR_2' = OR_2 /\ Chunks' = Chunks
        /\ Activations' = Activations /\ Values' = Values
    BY <2>1, <2>2, Same
  <2>4. CallsOK'
    <3>1. \A i \in 1..Len(calls) : CallOK(calls[i])'
      BY <2>1, <2>2, Same DEF CallsOK
    <3>2. \A i \in 1..(Len(calls) - 1) : Above(calls[i], calls[i + 1])'
      BY <2>1, <2>2, Same DEF CallsOK
    <3>3. Len(calls) > 0 => InRange(calls[1], 0, Chunks)'
      BY <2>1, <2>2, <2>3, Same DEF CallsOK
    <3> QED
      BY <2>1, <3>1, <3>2, <3>3 DEF CallsOK
  <2>5. ArrayOK'
    <3>1. num_cvs' = num_cvs
      BY <2>1 DEF num_cvs
    <3>2. stage # "wide" => LevelOf(cv_array, num_cvs, 0, Chunks)'
      BY <2>1, <2>2, <2>3, <3>1, Same DEF ArrayOK
    <3> QED
      BY <2>1, <2>2, <2>3, <3>1, <3>2 DEF ArrayOK
  <2> QED
    BY <2>1, <2>2, <2>3, <2>4, <2>5 DEF WideInv
<1> QED
  BY <1>1, <1>2, <1>3, <1>4, <1>5, <1>6, <1>7 DEF WideNext, Returned

\* The inductive invariant of compress_subtree_to_parent_node: every
\* activation is for a node's chunks, and every half that has returned left
\* a level of its chunks in its slots.
THEOREM WideInvariant == WideSpec => []WideInv
<1>1. WideInit => WideInv
  BY WideInitKeeps
<1>2. WideInv /\ [WideNext]_wideVars => WideInv'
  BY WideNextKeeps
<1> QED
  BY <1>1, <1>2, PTL DEF WideSpec
-----------------------------------------------------------------------------
(***************************************************************************)
(* What the runs check of the subtree code, for every chunk length, length *)
(* of input, chunk counter and target.                                     *)
(***************************************************************************)
\* A level's values cover at least a chunk each, and of two or more none
\* covers all.
LEMMA LevelValues ==
  ASSUME ArgsOK, NEW s, NEW k, NEW lo \in Nat, NEW hi \in Nat, LevelOf(s, k, lo, hi)
  PROVE  \A i \in 1..k : /\ s[i].lo < s[i].hi
                         /\ k >= 2 => s[i].hi - s[i].lo < hi - lo
<1>1. PICK b \in [0..k -> Nat] : Bounds(b, k, lo, hi) /\ Listed(s, 0, b, k)
  BY DEF LevelOf, Level
<1>2. k \in Nat \ {0} /\ First \in Nat /\ b[0] = lo /\ b[k] = hi
  BY <1>1, ArgFacts DEF Bounds
<1> SUFFICES ASSUME NEW i \in 1..k
             PROVE  s[i].lo < s[i].hi /\ (k >= 2 => s[i].hi - s[i].lo < hi - lo)
  OBVIOUS
<1>3. s[i] = RefCV(b[i - 1], b[i])
  <2>1. k \in Nat /\ Listed(s, 0, b, k)
    BY <1>1, <1>2
  <2> QED
    BY ONLY <2>1, b \in [0..k -> Nat], i \in 1..k, ListedValues
<1>4. s[i].lo = First + b[i - 1] /\ s[i].hi = First + b[i]
  BY <1>3 DEF RefCV, First
<1> DEFINE x == b[i - 1]
           y == b[i]
<1>5. i \in 0..k /\ i - 1 \in 0..k
  BY <1>2
<1>6. x \in Nat /\ y \in Nat /\ x < y
  BY <1>1, <1>2, <1>5 DEF Bounds
<1>7. /\ i - 1 = 0 => x = lo
      /\ i - 1 # 0 => lo < x
      /\ i = k => y = hi
      /\ i # k => y < hi
      /\ k >= 2 => i - 1 # 0 \/ i # k
  <2>1. \A j \in 0..k : (j = 0 \/ lo < b[j]) /\ (j = k \/ b[j] < hi)
    BY <1>1 DEF Bounds
  <2> QED
    BY <1>2, <1>5, <2>1
<1> HIDE DEF x, y
<1> QED
  BY <1>2, <1>4, <1>6, <1>7 DEF x, y

\* The arguments, the activations and the chaining values are of their
\* types, whatever the target and wherever the subtree starts.
THEOREM WideTypesAlways == WideSpec => []WideTypeOK
<1>1. WideInv => WideTypeOK
  <2> SUFFICES ASSUME WideInv PROVE WideTypeOK
    OBVIOUS
  <2>1. /\ target \in Targets /\ ArgsOK /\ ArrayOK /\ calls \in Seq(Activations)
        /\ fits = TRUE /\ stage \in {"wide", "condense", "done"}
        /\ (stage = "wide" <=> Len(calls) > 0)
    BY DEF WideInv
  <2>2. \A i \in 1..Len(calls) : calls[i] \in Activations
    BY <2>1
  <2>3. \A i \in 1..Len(calls) :
          /\ calls[i].counter \in Nat /\ calls[i].at \in Nat /\ calls[i].len \in 1..MaxLen
          /\ calls[i].step \in {"entered", "left", "right", "join"}
          /\ DOMAIN calls[i].cvs = 1..(2 * OR_2)
          /\ calls[i].left_n \in 0..OR_2 /\ calls[i].right_n \in 0..OR_2
    BY <2>2 DEF Activations
  <2>4. \A i \in 1..num_cvs : cv_array[i].lo < cv_array[i].hi
    <3>1. CASE stage = "wide"
      <4>1. num_cvs = 0
        BY <2>1, <3>1 DEF ArrayOK, num_cvs
      <4> QED
        BY <4>1
    <3>2. CASE stage # "wide"
      <4>1. LevelOf(cv_array, num_cvs, 0, Chunks) /\ Chunks \in Nat /\ 0 \in Nat
        BY <2>1, <3>2, ArgFacts DEF ArrayOK
      <4> HIDE DEF num_cvs
      <4> QED
        BY <2>1, <4>1, LevelValues
    <3> QED
      BY <3>1, <3>2
  <2> QED
    BY <2>1, <2>3, <2>4 DEF WideTypeOK, ArgsOK
<1> QED
  BY <1>1, WideInvariant, PTL

\* No write leaves its buffer: not a half's its part of the level's
\* cv_array, nor the lists of inputs theirs, for all their assertions are
\* compiled out.
THEOREM WritesAlwaysFit == WideSpec => []WritesFit
<1>1. WideInv => WritesFit
  BY DEF WideInv, WritesFit
<1> QED
  BY <1>1, WideInvariant, PTL

\* The root of the subtree is never compressed: at least two chaining values
\* remain, and none covers the whole.
THEOREM RootNeverCompressed == WideSpec => []RootNotCompressed
<1>1. WideInv => RootNotCompressed
  <2> SUFFICES ASSUME WideInv, stage # "wide"
               PROVE  /\ num_cvs >= 2
                      /\ \A i \in 1..num_cvs : cv_array[i].hi - cv_array[i].lo < Chunks
    BY DEF RootNotCompressed, Chunks
  <2>1. /\ ArgsOK /\ Chunks \in Nat /\ 0 \in Nat /\ num_cvs \in 2..OR_2
        /\ LevelOf(cv_array, num_cvs, 0, Chunks)
    BY ArgFacts DEF WideInv, ArrayOK
  <2>2. OR_2 \in Nat /\ num_cvs \in Nat /\ num_cvs >= 2
    BY <2>1, Degrees DEF WideInv
  <2> HIDE DEF num_cvs
  <2>3. \A i \in 1..num_cvs : cv_array[i].hi - cv_array[i].lo < Chunks - 0
    BY <2>1, <2>2, LevelValues
  <2> QED
    BY <2>1, <2>2, <2>3
<1> QED
  BY <1>1, WideInvariant, PTL

\* Of whole chunks, every aligned run that is a power of two is a complete
\* subtree.
LEMMA CompleteIsRef ==
  ASSUME ArgsOK, args.input_len = Chunks * CHUNK_LEN,
         NEW s \in Pow2, NEW lo \in Nat, lo % s = 0, lo + s <= Chunks
  PROVE  RefCV(lo, lo + s) = CompleteCV(args.mode, First + lo, s, (First + lo) * CHUNK_LEN)
<1> DEFINE L == CHUNK_LEN
           N == Chunks
           md == args.mode
           hi == lo + s
           nodes == CompleteNodes(md, First + lo, s, (First + lo) * L)
           Ch(c) == ChunkNode(md, c, c * L, Bytes(c, args.input_len))
           Pa(c, p) == ParentNode(md, c, c + p, Min({c + 2 * p, N}))
<1>1. /\ L \in Nat \ {0} /\ N \in Nat \ {0} /\ First \in Nat /\ s \in Nat \ {0} /\ hi \in Nat
  BY ArgFacts, Pow2Type
<1>2. ASSUME NEW c \in Nat, c < N PROVE Bytes(c, args.input_len) = L
  <2>1. CASE c < N - 1
    BY <2>1 DEF Bytes, Chunks
  <2>2. CASE ~(c < N - 1)
    <3>1. c = N - 1
      BY <1>1, <1>2, <2>2
    <3>2. N * L - c * L = L
      BY <1>1, <3>1
    <3>3. Bytes(c, args.input_len) = args.input_len - c * L
      BY <2>2 DEF Bytes, Chunks
    <3> QED
      BY <3>2, <3>3
  <2> QED
    BY <2>1, <2>2
\* Both sides, node by node.
<1>3. ASSUME NEW c \in Nat, lo <= c, c < hi
      PROVE  /\ InMessage(Ch(c)) = ChunkNode(md, First + c, (First + c) * L, L)
             /\ Ch(c) \in Part(lo, hi)
             /\ InMessage(Ch(c)) \in nodes
  <2>1. c < N /\ c \in 0..(N - 1)
    BY <1>1, <1>3
  <2>2. Ch(c) = ChunkNode(md, c, c * L, L)
    BY <1>2, <2>1
  <2>3. InMessage(Ch(c)) = ChunkNode(md, First + c, (First + c) * L, L)
    <3>1. c + First = First + c /\ c * L + First * L = (First + c) * L
      BY <1>1
    <3> QED
      BY <2>2, <3>1 DEF InMessage, ChunkNode, First
  <2>4. OfPart(Ch(c), lo, hi)
    BY <1>3, <2>1 DEF OfPart
  <2>5. Ch(c) \in Part(lo, hi)
    BY <1>1, <2>4, PartOf
  <2>6. InMessage(Ch(c)) \in nodes
    <3> DEFINE i == c - lo
    <3>1. i \in 0..(s - 1) /\ c = lo + i
      BY <1>1, <1>3
    <3> HIDE DEF i
    <3>2. (First + lo) + i = First + c /\ (First + lo) * L + i * L = (First + c) * L
      BY <1>1, <3>1
    <3>3. ChunkNode(md, (First + lo) + i, (First + lo) * L + i * L, L) \in nodes
      BY <3>1 DEF CompleteNodes
    <3> QED
      BY <2>3, <3>2, <3>3
  <2> QED
    BY <2>3, <2>5, <2>6
<1>4. ASSUME NEW c \in Nat, NEW p \in Pow2, lo <= c, c + 2 * p <= hi
      PROVE  /\ p \in Nat \ {0} /\ 2 * p <= s /\ lo % (2 * p) = 0
             /\ c % (2 * p) = 0 <=> (c - lo) % (2 * p) = 0
             /\ c + p < N /\ c \in 0..(N - 1) /\ Min({c + 2 * p, N}) = c + 2 * p
             /\ InMessage(Pa(c, p)) = ParentNode(md, First + c, First + c + p, First + c + 2 * p)
  <2>1. p \in Nat \ {0}
    BY Pow2Type
  <2>2. 2 * p <= s /\ p < s /\ c + p < N /\ c + 2 * p <= N /\ c \in 0..(N - 1)
    BY <1>1, <1>4, <2>1
  <2>3. s % (2 * p) = 0
    BY <2>2, Pow2Double
  <2> DEFINE d == 2 * p
  <2>4. d \in Nat \ {0} /\ s % d = 0
    BY <2>1, <2>3
  <2> HIDE DEF d
  <2>5. lo % d = 0
    BY <1>1, <2>4, ModTransitive
  <2>6. c % d = 0 => (c - lo) % d = 0
    BY <1>4, <2>4, <2>5, ModDifference
  <2>7. (c - lo) % d = 0 => c % d = 0
    <3> DEFINE i == c - lo
    <3>1. i \in Nat /\ c = lo + i
      BY <1>4
    <3> HIDE DEF i
    <3>2. i % d = 0 => (lo + i) % d = 0
      BY <2>4, <2>5, <3>1, ModSum
    <3> QED
      BY <3>1, <3>2 DEF i
  <2>8. Min({c + 2 * p, N}) = c + 2 * p
    BY <1>1, <2>1, <2>2, MinOfTwo
  <2>9. InMessage(Pa(c, p)) = ParentNode(md, First + c, First + c + p, First + c + 2 * p)
    <3>1. c + First = First + c /\ (c + p) + First = First + c + p
          /\ (c + 2 * p) + First = First + c + 2 * p
      BY <1>1, <2>1
    <3> QED
      BY <2>8, <3>1 DEF InMessage, ParentNode, First
  <2> QED
    BY <2>1, <2>2, <2>5, <2>6, <2>7, <2>8, <2>9 DEF d
<1>5. ASSUME NEW c \in Nat, NEW p \in Pow2, lo <= c, c + 2 * p <= hi, c % (2 * p) = 0
      PROVE  Pa(c, p) \in Part(lo, hi) /\ InMessage(Pa(c, p)) \in nodes
  <2>1. /\ p \in Nat \ {0} /\ (c - lo) % (2 * p) = 0
        /\ c + p < N /\ c \in 0..(N - 1) /\ Min({c + 2 * p, N}) = c + 2 * p
        /\ InMessage(Pa(c, p)) = ParentNode(md, First + c, First + c + p, First + c + 2 * p)
    BY <1>4, <1>5
  <2>2. OfPart(Pa(c, p), lo, hi)
    <3>1. /\ c % (2 * p) = 0 /\ c + p < Chunks
          /\ lo <= c /\ Min({c + 2 * p, Chunks}) <= hi
      BY <1>5, <2>1
    <3> QED
      BY <2>1, <3>1 DEF OfPart
  <2>3. Pa(c, p) \in Part(lo, hi)
    BY <1>1, <2>2, PartOf
  <2> DEFINE i == c - lo
  <2>4. i \in 0..(s - 1) /\ i % (2 * p) = 0 /\ i + 2 * p <= s /\ c = lo + i
    BY <1>1, <1>5, <2>1
  <2> HIDE DEF i
  <2>5. ParentNode(md, (First + lo) + i, (First + lo) + i + p, (First + lo) + i + 2 * p) \in nodes
    <3>1. <<i, p>> \in {ip \in (0..(s - 1)) \X Pow2 :
                          ip[1] % (2 * ip[2]) = 0 /\ ip[1] + 2 * ip[2] <= s}
      BY <2>4
    <3> QED
      BY <3>1 DEF CompleteNodes
  <2>6. (First + lo) + i = First + c
    BY <1>1, <2>4
  <2> QED
    BY <2>1, <2>3, <2>5, <2>6
<1>6. ASSUME NEW x \in Part(lo, hi) PROVE InMessage(x) \in nodes
  <2>1. OfPart(x, lo, hi)
    BY <1>1, <1>6, PartOf
  <2>2. CASE \E c \in 0..(Chunks - 1) : lo <= c /\ c < hi /\ x = Ch(c)
    BY <1>3, <2>2
  <2>3. CASE \E c \in 0..(Chunks - 1), p \in Pow2 :
               /\ c % (2 * p) = 0 /\ c + p < Chunks
               /\ lo <= c /\ Min({c + 2 * p, Chunks}) <= hi
               /\ x = Pa(c, p)
    <3>1. PICK c \in 0..(N - 1), p \in Pow2 :
            /\ c % (2 * p) = 0 /\ c + p < N
            /\ lo <= c /\ Min({c + 2 * p, N}) <= hi
            /\ x = Pa(c, p)
      BY <2>3
    <3>2. c \in Nat /\ p \in Nat \ {0}
      BY Pow2Type
    <3>3. Min({c + 2 * p, N}) = IF c + 2 * p <= N THEN c + 2 * p ELSE N
      BY <1>1, <3>2, MinOfTwo
    <3>4. c + p < hi /\ c \in lo..(lo + s - 1)
      BY <1>1, <3>1, <3>2, <3>3
    <3>5. c + 2 * p <= lo + s
      <4>1. c + 2 * p <= lo + s \/ (c = lo /\ s <= p)
        BY <3>1, <3>4, NodeAt
      <4> QED
        BY <1>1, <3>2, <3>4, <4>1
    <3> HIDE DEF Pa, N, nodes
    <3>6. InMessage(Pa(c, p)) \in nodes
      BY <1>5, <3>1, <3>2, <3>5
    <3> QED
      BY <3>1, <3>6
  <2> HIDE DEF nodes
  <2> QED
    BY <2>1, <2>2, <2>3 DEF OfPart
<1>7. ASSUME NEW y \in nodes PROVE \E x \in Part(lo, hi) : y = InMessage(x)
  <2>1. CASE \E i \in 0..(s - 1) :
               y = ChunkNode(md, (First + lo) + i, (First + lo) * L + i * L, L)
    <3>1. PICK i \in 0..(s - 1) :
            y = ChunkNode(md, (First + lo) + i, (First + lo) * L + i * L, L)
      BY <2>1
    <3> DEFINE c == lo + i
    <3>2. c \in Nat /\ lo <= c /\ c < hi
      BY <1>1
    <3>3. (First + lo) + i = First + c /\ (First + lo) * L + i * L = (First + c) * L
      BY <1>1
    <3> HIDE DEF c
    <3>4. y = InMessage(Ch(c)) /\ Ch(c) \in Part(lo, hi)
      BY <1>3, <3>1, <3>2, <3>3
    <3> QED
      BY <3>4
  <2>2. CASE \E i \in 0..(s - 1), p \in Pow2 :
               /\ i % (2 * p) = 0 /\ i + 2 * p <= s
               /\ y = ParentNode(md, (First + lo) + i, (First + lo) + i + p,
                                 (First + lo) + i + 2 * p)
    <3>1. PICK i \in 0..(s - 1), p \in Pow2 :
            /\ i % (2 * p) = 0 /\ i + 2 * p <= s
            /\ y = ParentNode(md, (First + lo) + i, (First + lo) + i + p,
                              (First + lo) + i + 2 * p)
      BY <2>2
    <3> DEFINE c == lo + i
    <3>2. c \in Nat /\ lo <= c /\ c + 2 * p <= hi /\ c - lo = i /\ p \in Nat
          /\ (First + lo) + i = First + c
      BY <1>1, <3>1, Pow2Type
    <3> HIDE DEF c
    <3>3. c % (2 * p) = 0
      BY <1>4, <3>1, <3>2
    <3>4. Pa(c, p) \in Part(lo, hi)
      BY <1>5, <3>2, <3>3
    <3>5. InMessage(Pa(c, p)) = y
      BY <1>4, <3>1, <3>2
    <3> QED
      BY <3>4, <3>5
  <2> QED
    BY <2>1, <2>2 DEF CompleteNodes
<1>8. {InMessage(x) : x \in Part(lo, hi)} = nodes
  <2> HIDE DEF nodes, hi
  <2> QED
    BY <1>6, <1>7
<1>9. RefCV(lo, hi) = [lo |-> First + lo, hi |-> First + hi, nodes |-> nodes]
  BY <1>8 DEF RefCV, Part, First
<1>10. First + hi = (First + lo) + s
  BY <1>1
<1> QED
  BY <1>9, <1>10 DEF CompleteCV

\* Whatever the degree, the pair is the two children of the root, and for
\* complete subtrees what Blake3Hasher takes from SubtreePair.
THEOREM PairAlwaysReference == WideSpec => []PairIsReference
<1>1. WideInv => PairIsReference
  <2> SUFFICES ASSUME WideInv, stage = "done" PROVE PairIsReference
    BY DEF PairIsReference
  <2>1. ArgsOK /\ cv_array = RefPair
    <3>1. ArgsOK /\ num_cvs = 2 /\ LevelOf(cv_array, num_cvs, 0, Chunks)
      BY DEF WideInv, ArrayOK
    <3>2. LevelOf(cv_array, 2, 0, Chunks)
      BY <3>1
    <3> QED
      BY <3>1, <3>2, PairOut
  <2> DEFINE L == CHUNK_LEN
             n == args.input_len \div L
             h == n \div 2
             mid == Max({p \in Pow2 : p < Chunks})
  <2>2. ASSUME args.input_len % L = 0, n \in Pow2
        PROVE  RefPair = SubtreePair(args.mode, First, First * L, n)
    <3>1. /\ L \in Nat \ {0} /\ args.input_len \in Nat /\ First \in Nat /\ n \in Nat \ {0}
          /\ Chunks \in Nat /\ Chunks >= 2 /\ Chunks <= MaxLen
      BY <2>1, <2>2, ArgFacts, Pow2Type
    <3>2. args.input_len = L * n /\ L * n = n * L
      <4> DEFINE len == args.input_len
      <4>1. len \in Nat /\ len % L = 0
        BY <2>2, <3>1
      <4>2. len = L * n
        <5> HIDE DEF len
        <5>1. len = L * (len \div L)
          BY <3>1, <4>1, ModMultiple
        <5> QED
          BY <5>1 DEF len
      <4> HIDE DEF n
      <4>3. L * n = n * L
        BY <3>1
      <4> QED
        BY <4>2, <4>3
    <3> HIDE DEF n
    <3>3. Chunks = n
      BY <3>1, <3>2, CountOfWhole DEF Chunks
    <3>4. h \in Nat \ {0} /\ n = h * 2 /\ n = 2 * h /\ n - h = h
      <4>1. n % 2 = 0
        BY <2>2, <3>1, <3>3, Pow2Even
      <4> QED
        BY <3>1, <3>3, <4>1
    <3> HIDE DEF h
    <3>5. h \in Pow2
      BY <2>2, <3>4, Pow2Divisor, 2 \in Nat
    <3>6. /\ mid \in Pow2 /\ mid < Chunks /\ Chunks <= 2 * mid
          /\ \A q \in Pow2 : q < Chunks => q <= mid
      BY <3>1, LargestBelow
    <3> HIDE DEF mid
    <3>7. mid = h
      <4>1. mid \in Nat /\ h <= mid
        BY <3>3, <3>4, <3>5, <3>6, Pow2Type
      <4>2. ~(h < mid)
        <5> SUFFICES ASSUME h < mid PROVE FALSE
          OBVIOUS
        <5>1. 2 * h <= mid
          BY <3>5, <3>6, Pow2Double
        <5> QED
          BY <3>1, <3>3, <3>4, <3>6, <4>1, <5>1
      <4> QED
        BY <3>4, <4>1, <4>2
    <3>8. RefCV(0, h) = CompleteCV(args.mode, First, h, First * L)
      <4>1. 0 % h = 0 /\ 0 \in Nat /\ 0 + h = h /\ h <= Chunks /\ First + 0 = First
        BY <3>1, <3>3, <3>4
      <4>2. RefCV(0, 0 + h) = CompleteCV(args.mode, First + 0, h, (First + 0) * L)
        BY <2>1, <3>2, <3>3, <3>5, <4>1, CompleteIsRef
      <4> QED
        BY <4>1, <4>2
    <3>9. RefCV(h, n) = CompleteCV(args.mode, First + h, h, First * L + h * L)
      <4>1. h % h = 0 /\ h + h = n /\ (First + h) * L = First * L + h * L
        BY <3>1, <3>4
      <4>2. RefCV(h, h + h) = CompleteCV(args.mode, First + h, h, (First + h) * L)
        BY <2>1, <3>1, <3>2, <3>3, <3>4, <3>5, <4>1, CompleteIsRef
      <4> QED
        BY <4>1, <4>2
    <3> QED
      BY <3>3, <3>7, <3>8, <3>9 DEF RefPair, SubtreePair, Chunks, mid, h
  <2> HIDE DEF h
  <2> QED
    BY <2>1, <2>2 DEF PairIsReference, First
<1> QED
  BY <1>1, WideInvariant, PTL
-----------------------------------------------------------------------------
(***************************************************************************)
(* The recursion is shallow, and it ends.                                  *)
(***************************************************************************)
\* How often a range of n chunks can be divided.
PowersBelow(n) == {p \in Pow2 : p < n}
Halvings(n) == Cardinality(PowersBelow(n))

\* The activations at once: one more than the divisions of the subtree.
RecursionShallow == Len(calls) <= Halvings(Chunks) + 1

\* A range can be divided a number of times.
LEMMA HalvingsType ==
  ASSUME NEW n
  PROVE  IsFiniteSet(PowersBelow(n)) /\ Halvings(n) \in Nat
<1>1. MaxLen \in Int /\ PowersBelow(n) \in SUBSET (1..MaxLen)
  BY Pow2Type DEF PowersBelow
<1>2. IsFiniteSet(1..MaxLen)
  BY <1>1, FS_Interval, 1 \in Int
<1>3. IsFiniteSet(PowersBelow(n))
  BY <1>1, <1>2, FS_Subset
<1> QED
  BY <1>3, FS_CardinalityType DEF Halvings

\* A half can be divided less often than the whole.
LEMMA HalvingsFall ==
  ASSUME NEW m \in Nat, NEW n \in Nat, NEW P \in Pow2, P < n, m <= P
  PROVE  Halvings(m) + 1 <= Halvings(n)
<1> DEFINE A == PowersBelow(m)
           B == PowersBelow(n)
<1>1. IsFiniteSet(A) /\ IsFiniteSet(B)
  BY HalvingsType
<1>2. P \in Nat /\ P \notin A /\ A \cup {P} \in SUBSET B
  BY Pow2Type DEF PowersBelow
<1>3. Halvings(m) = Cardinality(A) /\ Halvings(n) = Cardinality(B)
  BY DEF Halvings
<1> HIDE DEF A, B
<1>4. Cardinality(A \cup {P}) = Cardinality(A) + 1
  BY <1>1, <1>2, FS_AddElement
<1>5. Cardinality(A \cup {P}) <= Cardinality(B)
  BY <1>1, <1>2, FS_Subset
<1> QED
  BY <1>3, <1>4, <1>5

\* So it is for an activation and the one it waits for.
LEMMA AboveIsSmaller ==
  ASSUME target \in Targets, ArgsOK, NEW call, CallOK(call), NEW next, Above(call, next)
  PROVE  Halvings(Hi(next) - Lo(next)) + 1 <= Halvings(Hi(call) - Lo(call))
<1> DEFINE n == Hi(call) - Lo(call)
           m == Hi(next) - Lo(next)
           P == Half(n)
<1>1. /\ InRange(call, Lo(call), Hi(call)) /\ n > degree /\ degree \in Nat /\ degree >= 1
      /\ Lo(call) \in Nat /\ Hi(call) \in Nat
      /\ m = P \/ m = n - P
  <2>1. degree \in Nat /\ degree >= 1
    BY Degrees
  <2> QED
    BY <2>1, AboveFacts
<1>2. n \in Nat /\ n >= 2
  BY <1>1
<1>3. P \in Pow2 /\ P \in Nat /\ P < n /\ n <= 2 * P
  BY <1>1, <1>2, HalfRanges
<1> HIDE DEF n, m, P
<1>4. m \in Nat /\ m <= P
  BY <1>1, <1>2, <1>3
<1>5. Halvings(m) + 1 <= Halvings(n)
  BY <1>2, <1>3, <1>4, HalvingsFall
<1> QED
  BY <1>5 DEF m, n

\* Each activation has as many divisions less to go as there are below it.
LEMMA ShallowStack ==
  ASSUME WideInv
  PROVE  \A i \in 1..Len(calls) :
           i - 1 + Halvings(Hi(calls[i]) - Lo(calls[i])) <= Halvings(Chunks)
<1> DEFINE H(i) == Halvings(Hi(calls[i]) - Lo(calls[i]))
           Fine(i) == i - 1 + H(i) <= Halvings(Chunks)
           Deep == {i \in 1..Len(calls) : ~Fine(i)}
<1>1. /\ target \in Targets /\ ArgsOK /\ CallsOK /\ calls \in Seq(Activations)
  BY DEF WideInv
<1>2. Len(calls) \in Nat /\ Halvings(Chunks) \in Nat /\ \A i : H(i) \in Nat
  BY <1>1, HalvingsType
<1>3. ASSUME Len(calls) > 0 PROVE Fine(1)
  <2>1. InRange(calls[1], 0, Chunks)
    BY <1>1, <1>3 DEF CallsOK
  <2>2. Lo(calls[1]) = 0 /\ Hi(calls[1]) = Chunks
    BY <1>1, <2>1, RangeOf
  <2>3. Chunks \in Nat /\ Chunks - 0 = Chunks
    BY <1>1, ArgFacts
  <2>4. H(1) = Halvings(Chunks)
    BY <2>2, <2>3
  <2> QED
    BY <1>2, <2>4
<1>4. ASSUME NEW i \in 1..Len(calls), i # 1, Fine(i - 1) PROVE Fine(i)
  <2>1. i - 1 \in 1..Len(calls) /\ i - 1 \in 1..(Len(calls) - 1) /\ (i - 1) + 1 = i
    BY <1>2, <1>4
  <2>2. CallOK(calls[i - 1]) /\ Above(calls[i - 1], calls[i])
    <3>1. Above(calls[i - 1], calls[(i - 1) + 1])
      BY <1>1, <2>1 DEF CallsOK
    <3> QED
      BY <1>1, <2>1, <3>1 DEF CallsOK
  <2>3. H(i) + 1 <= H(i - 1)
    BY <1>1, <2>2, AboveIsSmaller
  <2>4. i - 1 - 1 + H(i - 1) <= Halvings(Chunks)
    BY <1>4
  <2>5. H(i) \in Nat /\ H(i - 1) \in Nat /\ i \in Nat
    BY <1>2, <1>4
  <2> HIDE DEF H
  <2> QED
    BY <1>2, <2>3, <2>4, <2>5
<1>5. Deep = {}
  <2> SUFFICES ASSUME Deep # {} PROVE FALSE
    OBVIOUS
  <2>1. Deep \in SUBSET Nat
    BY <1>2
  <2>2. PICK i \in Deep : \A j \in Deep : i <= j
    <3> HIDE DEF Deep
    <3> QED
      BY <2>1, LeastElement
  <2>3. i \in 1..Len(calls) /\ ~Fine(i) /\ i \in Nat
    BY <1>2, <2>2
  <2> HIDE DEF Fine
  <2>4. i # 1
    BY <1>2, <1>3, <2>3
  <2>5. i - 1 \in 1..Len(calls) /\ ~(i <= i - 1)
    BY <1>2, <2>3, <2>4
  <2>6. Fine(i - 1)
    BY <2>2, <2>5
  <2> QED
    BY <1>4, <2>3, <2>4, <2>6
<1> QED
  BY <1>5

\* The running activation, then, is not deep.
LEMMA ShallowTop ==
  ASSUME WideInv
  PROVE  RecursionShallow
<1>1. Len(calls) \in Nat /\ Halvings(Chunks) \in Nat
  BY HalvingsType DEF WideInv
<1> DEFINE k == Len(calls)
           h == Halvings(Hi(calls[k]) - Lo(calls[k]))
<1>2. h \in Nat /\ (k > 0 => k \in 1..k)
  BY <1>1, HalvingsType
<1>3. k > 0 => k - 1 + h <= Halvings(Chunks)
  BY <1>2, ShallowStack
<1> HIDE DEF k, h
<1>4. k <= Halvings(Chunks) + 1
  BY <1>1, <1>2, <1>3 DEF k
<1> QED
  BY <1>4 DEF k, RecursionShallow

(***************************************************************************)
(* However long the input, there are never more activations at once, each  *)
(* with a cv_array of its own on the C stack, than powers of two below the *)
(* number of chunks, and one: 55 for 2^64 - 1 bytes.                       *)
(***************************************************************************)
THEOREM RecursionIsShallow == WideSpec => []RecursionShallow
BY WideInvariant, ShallowTop, PTL

\* The chunks hashed so far: those before where the running activation is.
HashedTo == CASE top.step = "right" -> Mid(top)
              [] top.step = "join" -> Hi(top)
              [] OTHER -> Lo(top)

\* Until the next chunks are hashed halves are joined, then the right one of a
\* call is hashed, and its left ones.
WidePlace == CASE top.step = "join" -> Chunks + 1 + Len(calls)
               [] top.step = "right" -> Chunks + 1
               [] OTHER -> Hi(top) - Lo(top)

Round == Chunks + Halvings(Chunks) + 3

\* A bound on the steps until compress_subtree_to_parent_node returns.
WideStepsLeft ==
  CASE stage = "wide" -> Round * (Chunks - HashedTo) + WidePlace + OR_2
    [] stage = "condense" -> num_cvs
    [] OTHER -> 0

\* Of each place there are fewer steps than to a round.
LEMMA WideNumbers ==
  ASSUME WideInv
  PROVE  /\ target \in Targets /\ ArgsOK
         /\ Chunks \in Nat /\ Round \in Nat /\ OR_2 \in Nat
         /\ Halvings(Chunks) \in Nat /\ Len(calls) \in Nat
         /\ Len(calls) <= Halvings(Chunks) + 1
<1>1. target \in Targets /\ ArgsOK /\ Len(calls) \in Nat
  BY DEF WideInv
<1>2. Chunks \in Nat /\ OR_2 \in Nat /\ Halvings(Chunks) \in Nat
  BY <1>1, ArgFacts, Degrees, HalvingsType
<1>3. Round \in Nat
  BY <1>2 DEF Round
<1> QED
  BY <1>1, <1>2, <1>3, ShallowTop DEF RecursionShallow

\* Where the running activation is.
PlaceOK ==
  /\ Lo(top) \in Nat /\ Hi(top) \in Nat /\ Lo(top) < Hi(top) /\ Hi(top) <= Chunks
  /\ HashedTo \in Nat /\ HashedTo <= Chunks
  /\ WidePlace \in Nat \ {0} /\ WidePlace < Round
  /\ Round * (Chunks - HashedTo) \in Nat

\* It is within the input, and its place within the round.
LEMMA PlaceOfTop ==
  ASSUME WideInv, stage = "wide"
  PROVE  PlaceOK
<1>1. /\ target \in Targets /\ ArgsOK /\ Chunks \in Nat /\ Round \in Nat
      /\ Halvings(Chunks) \in Nat /\ Len(calls) \in Nat
      /\ Len(calls) <= Halvings(Chunks) + 1
  BY WideNumbers
<1>2. /\ InRange(top, Lo(top), Hi(top)) /\ CallOK(top)
      /\ top.step \in {"entered", "left", "right", "join"}
  BY TopFacts DEF Activations
<1>3. Lo(top) \in Nat /\ Hi(top) \in Nat /\ Lo(top) < Hi(top) /\ Hi(top) <= Chunks
  BY <1>1, <1>2, RangeOf
<1>4. HashedTo \in Nat /\ HashedTo <= Chunks
  <2>1. CASE top.step = "right"
    <3>1. Hi(top) - Lo(top) > degree /\ degree \in Nat /\ degree >= 1
      BY <1>1, <1>2, <2>1, Degrees DEF CallOK
    <3>2. Hi(top) - Lo(top) >= 2
      BY <1>3, <3>1
    <3>3. Half(Hi(top) - Lo(top)) \in Nat /\ Half(Hi(top) - Lo(top)) < Hi(top) - Lo(top)
      BY <1>1, <1>2, <3>2, HalfRanges
    <3>4. Mid(top) \in Nat /\ Mid(top) <= Chunks
      BY <1>1, <1>3, <3>3 DEF Mid
    <3> QED
      BY <2>1, <3>4 DEF HashedTo
  <2>2. CASE top.step # "right"
    BY <1>1, <1>3, <2>2 DEF HashedTo
  <2> QED
    BY <2>1, <2>2
<1>5. WidePlace \in Nat \ {0} /\ WidePlace < Round
  BY <1>1, <1>3 DEF WidePlace, Round
<1>6. Chunks - HashedTo \in Nat
  BY <1>1, <1>4
<1>7. \A x, y \in Nat : x * y \in Nat
  OBVIOUS
<1> QED
  BY <1>1, <1>3, <1>4, <1>5, <1>6, <1>7 DEF PlaceOK

\* A place is reached later that has more chunks behind it, or that comes
\* later in the same round.
LEMMA LaterPlace ==
  ASSUME NEW N \in Nat, NEW R \in Nat, NEW h \in Nat, NEW g \in Nat, h <= N, g <= N,
         NEW p \in Nat, NEW q \in Nat, q < R,
         h < g \/ (h = g /\ q < p)
  PROVE  R * (N - g) + q < R * (N - h) + p
<1> DEFINE a == N - g
           b == N - h
<1>1. a \in Nat /\ b \in Nat /\ (h < g => a + 1 <= b) /\ (h = g => a = b)
  OBVIOUS
<1>2. R * a \in Nat /\ R * b \in Nat
  <2> HIDE DEF a, b
  <2>1. \A x, y \in Nat : x * y \in Nat
    OBVIOUS
  <2> QED
    BY <1>1, <2>1
<1>3. CASE h = g
  <2>1. R * a = R * b
    BY <1>1, <1>3
  <2> HIDE DEF a, b
  <2> QED
    BY <1>2, <1>3, <2>1
<1>4. CASE h < g
  <2> HIDE DEF a, b
  <2>1. R * a + R <= R * b
    <3>1. a + 1 <= b /\ b - (a + 1) \in Nat
      BY <1>1, <1>4
    <3>2. PICK c \in Nat : b = (a + 1) + c
      BY <1>1, <3>1
    <3>3. R * b = R * a + R + R * c /\ R * c \in Nat
      BY <1>1, <3>2
    <3> QED
      BY <1>2, <3>3
  <2> DEFINE u == R * a
             v == R * b
  <2> HIDE DEF u, v
  <2>2. u \in Nat /\ v \in Nat /\ u + R <= v
    BY <1>2, <2>1 DEF u, v
  <2>3. u + q < v + p
    BY <2>2
  <2> QED
    BY <2>3 DEF u, v
<1> QED
  BY <1>3, <1>4

\* The running activation after a step, and its place.
LEMMA PlaceAfter ==
  ASSUME UNCHANGED <<target, args>>, NEW call, top' = call,
         call.step \in {"entered", "left", "right", "join"}
  PROVE  /\ Chunks' = Chunks /\ Round' = Round /\ OR_2' = OR_2
         /\ call.step = "entered" => HashedTo' = Lo(call) /\ WidePlace' = Hi(call) - Lo(call)
         /\ call.step = "right" => HashedTo' = Mid(call) /\ WidePlace' = Chunks + 1
         /\ call.step = "join" => HashedTo' = Hi(call) /\ WidePlace' = Chunks + 1 + Len(calls')
<1>1. First' = First /\ Chunks' = Chunks /\ OR_2' = OR_2
  BY Same
<1>2. Lo(top)' = Lo(call) /\ Hi(top)' = Hi(call) /\ Mid(top)' = Mid(call)
  BY <1>1 DEF Lo, Hi, Mid
<1>3. Round' = Round
  BY <1>1 DEF Round, Halvings, PowersBelow
<1>4. call.step = "entered" => HashedTo' = Lo(call) /\ WidePlace' = Hi(call) - Lo(call)
  BY <1>2 DEF HashedTo, WidePlace
<1>5. call.step = "right" => HashedTo' = Mid(call) /\ WidePlace' = Chunks + 1
  BY <1>1, <1>2 DEF HashedTo, WidePlace
<1>6. call.step = "join" => HashedTo' = Hi(call) /\ WidePlace' = Chunks + 1 + Len(calls')
  BY <1>1, <1>2 DEF HashedTo, WidePlace
<1> QED
  BY <1>1, <1>3, <1>4, <1>5, <1>6

\* A step from one place to a later one lowers the bound.
LEMMA LaterLowers ==
  ASSUME WideInv, PlaceOK', stage = "wide", stage' = "wide", UNCHANGED <<target, args>>,
         HashedTo < HashedTo' \/ (HashedTo = HashedTo' /\ WidePlace' < WidePlace)
  PROVE  WideStepsLeft' < WideStepsLeft
<1>1. /\ Chunks \in Nat /\ Round \in Nat /\ OR_2 \in Nat
      /\ HashedTo \in Nat /\ HashedTo <= Chunks /\ WidePlace \in Nat
      /\ Round * (Chunks - HashedTo) \in Nat
  BY WideNumbers, PlaceOfTop DEF PlaceOK
<1>2. /\ HashedTo' \in Nat /\ HashedTo' <= Chunks' /\ WidePlace' \in Nat /\ WidePlace' < Round'
      /\ Round' * (Chunks' - HashedTo') \in Nat
  BY DEF PlaceOK
<1>3. Chunks' = Chunks /\ Round' = Round /\ OR_2' = OR_2
  BY Same DEF Round, Halvings, PowersBelow
<1>4. Round * (Chunks - HashedTo') + WidePlace' < Round * (Chunks - HashedTo) + WidePlace
  BY <1>1, <1>2, <1>3, LaterPlace
<1>5. /\ WideStepsLeft = Round * (Chunks - HashedTo) + WidePlace + OR_2
      /\ WideStepsLeft' = Round * (Chunks - HashedTo') + WidePlace' + OR_2
  BY <1>3 DEF WideStepsLeft
<1> DEFINE u == Round * (Chunks - HashedTo)
           v == Round * (Chunks - HashedTo')
<1>6. u \in Nat /\ v \in Nat
  BY <1>1, <1>2, <1>3
<1> HIDE DEF u, v
<1>7. v + WidePlace' < u + WidePlace
  BY <1>4 DEF u, v
<1>8. v + WidePlace' + OR_2 < u + WidePlace + OR_2
  <2>1. \A a, b, c, d, e \in Nat : a + b < c + d => a + b + e < c + d + e
    OBVIOUS
  <2>2. WidePlace \in Nat /\ WidePlace' \in Nat /\ OR_2 \in Nat
    BY <1>1, <1>2
  <2> QED
    BY <1>6, <1>7, <2>1, <2>2
<1> QED
  BY <1>5, <1>8 DEF u, v

\* A return leads past the chunks that were hashed, or from joining to what
\* the caller does next.
LEMMA ReturnLowers ==
  ASSUME WideInv, WideInv', stage' = "wide" => PlaceOK',
         stage = "wide", top.step \in {"entered", "join"},
         NEW cvs, NEW listed, Returns(cvs, listed)
  PROVE  WideStepsLeft' < WideStepsLeft
<1> DEFINE n == Len(calls)
           m == n - 1
           call == calls[m]
           r == Received(call, cvs)
<1>1. /\ target \in Targets /\ ArgsOK /\ Chunks \in Nat /\ Round \in Nat /\ OR_2 \in Nat
      /\ n \in Nat
  BY WideNumbers
<1>2. UNCHANGED <<target, args>>
  BY DEF Returns
<1>3. /\ Lo(top) \in Nat /\ Hi(top) \in Nat /\ Lo(top) < Hi(top)
      /\ WidePlace \in Nat \ {0} /\ Round * (Chunks - HashedTo) \in Nat
  BY PlaceOfTop DEF PlaceOK
<1>4. CASE n = 1
  <2>1. stage' = "condense"
    BY <1>4 DEF Returns
  <2>2. num_cvs' \in 2..OR_2
    BY <1>2, <2>1, Same DEF WideInv, ArrayOK
  <2>3. WideStepsLeft' = num_cvs' /\ WideStepsLeft = Round * (Chunks - HashedTo) + WidePlace + OR_2
    BY <2>1 DEF WideStepsLeft
  <2> DEFINE u == Round * (Chunks - HashedTo)
             w == num_cvs'
  <2>4. u \in Nat /\ w \in 2..OR_2
    BY <1>3, <2>2
  <2> HIDE DEF u, w
  <2>5. w < u + WidePlace + OR_2
    BY <1>1, <1>3, <2>4
  <2> QED
    BY <2>3, <2>5 DEF u, w
<1>5. CASE n # 1
  <2>1. /\ calls' = [i \in 1..m |-> IF i = m THEN r ELSE calls[i]] /\ stage' = "wide"
    BY <1>5 DEF Returns, Received
  <2>2. n \in Nat \ {0} /\ call \in Activations /\ CallOK(call) /\ Above(call, top)
    BY <1>5, TopFacts
  <2>3. m \in Nat \ {0} /\ Len(calls') = m /\ top' = r
    <3>1. m \in Nat \ {0}
      BY <1>5, <2>2
    <3> HIDE DEF m, r
    <3>2. Len(calls') = m /\ calls'[m] = r
      BY <2>1, <3>1
    <3> QED
      BY <3>1, <3>2 DEF top
  <2>4. /\ call.step = "left" => r.step = "right"
        /\ call.step = "right" => r.step = "join"
        /\ call.step \in {"left", "right"}
        /\ r.counter = call.counter /\ r.at = call.at /\ r.len = call.len
    <3>1. call.step \in {"left", "right"}
      BY <2>2 DEF Above
    <3> HIDE DEF call
    <3>2. call.step = "left" => r = [call EXCEPT !.cvs = r.cvs, !.left_n = Len(cvs), !.step = "right"]
      BY <2>2 DEF Received, Activations
    <3>3. call.step = "right" => r = [call EXCEPT !.cvs = r.cvs, !.right_n = Len(cvs), !.step = "join"]
      BY <2>2 DEF Received, Activations
    <3> HIDE DEF r
    <3>4. CASE call.step = "left"
      BY <2>2, <3>2, <3>4 DEF Activations
    <3>5. CASE call.step = "right"
      BY <2>2, <3>3, <3>5 DEF Activations
    <3> QED
      BY <3>1, <3>4, <3>5
  <2> HIDE DEF call, r, m
  <2>5. Lo(r) = Lo(call) /\ Hi(r) = Hi(call) /\ Mid(r) = Mid(call)
    BY <2>4, SameArguments
  <2>6. /\ call.step = "left" => Hi(top) = Mid(call)
        /\ call.step = "right" => Hi(top) = Hi(call)
    BY <1>1, <2>2, AboveFacts
  <2>7. /\ HashedTo' = Hi(top)
        /\ WidePlace' = Chunks + 1 \/ WidePlace' = Chunks + 1 + m
    <3>1. CASE call.step = "left"
      <4>1. r.step = "right"
        BY <2>4, <3>1
      <4> QED
        BY <1>2, <2>3, <2>5, <2>6, <3>1, <4>1, PlaceAfter
    <3>2. CASE call.step = "right"
      <4>1. r.step = "join"
        BY <2>4, <3>2
      <4> QED
        BY <1>2, <2>3, <2>5, <2>6, <3>2, <4>1, PlaceAfter
    <3> QED
      BY <2>4, <3>1, <3>2
  <2>8. HashedTo < HashedTo' \/ (HashedTo = HashedTo' /\ WidePlace' < WidePlace)
    <3>1. CASE top.step = "entered"
      <4>1. HashedTo = Lo(top)
        BY <3>1 DEF HashedTo
      <4> QED
        BY <1>3, <2>7, <4>1
    <3>2. CASE top.step = "join"
      <4>1. HashedTo = Hi(top) /\ WidePlace = Chunks + 1 + n
        BY <3>2 DEF HashedTo, WidePlace
      <4>2. n = m + 1
        BY <1>1 DEF m
      <4> QED
        BY <1>1, <2>3, <2>7, <4>1, <4>2
    <3> QED
      BY <3>1, <3>2
  <2> QED
    BY <1>2, <2>1, <2>8, LaterLowers
<1> QED
  BY <1>4, <1>5

\* A call leads to fewer chunks at the same place.
LEMMA CallLowers ==
  ASSUME WideInv, stage' = "wide" => PlaceOK', CallLeft \/ CallRight
  PROVE  WideStepsLeft' < WideStepsLeft
<1>1. stage = "wide" /\ UNCHANGED <<target, args, stage>>
  BY DEF CallLeft, CallRight, Calls
<1>2. /\ target \in Targets /\ ArgsOK /\ Chunks \in Nat
      /\ InRange(top, Lo(top), Hi(top))
      /\ Lo(top) \in Nat /\ Hi(top) \in Nat /\ Lo(top) < Hi(top) /\ Hi(top) <= Chunks
  BY <1>1, WideNumbers, TopFacts, PlaceOfTop DEF PlaceOK
<1>3. Hi(top) - Lo(top) > degree
  <2>1. CASE CallLeft
    <3>1. top.len > degree * CHUNK_LEN
      BY <2>1 DEF CallLeft
    <3> QED
      BY <1>2, <3>1, MoreThanDegree
  <2>2. CASE CallRight
    <3>1. top.step = "right" /\ CallOK(top)
      BY <1>1, <2>2, TopFacts DEF CallRight
    <3> QED
      BY <3>1 DEF CallOK
  <2> QED
    BY <2>1, <2>2
<1>4. Hi(top) - Lo(top) >= 2
  <2>1. degree \in {1, 4, 8, 16}
    BY <1>2, Degrees
  <2> QED
    BY <1>2, <1>3, <2>1
<1> DEFINE P == Half(Hi(top) - Lo(top))
<1>5. /\ P \in Nat \ {0} /\ P < Hi(top) - Lo(top)
      /\ InRange(LeftOf(top), Lo(top), Lo(top) + P)
      /\ InRange(RightOf(top), Lo(top) + P, Hi(top))
  BY <1>2, <1>4, HalfRanges
<1>6. Mid(top) = Lo(top) + P
  BY DEF Mid
<1>7. /\ Lo(LeftOf(top)) = Lo(top) /\ Hi(LeftOf(top)) = Lo(top) + P
      /\ Lo(RightOf(top)) = Lo(top) + P /\ Hi(RightOf(top)) = Hi(top)
  BY <1>2, <1>5, RangeOf
<1> HIDE DEF P
<1>8. ASSUME NEW step, NEW half, Calls(step, half) PROVE top' = half
  <2>1. calls \in Seq(Activations) /\ calls' = Append([calls EXCEPT ![Len(calls)].step = step], half)
    BY <1>8 DEF WideInv, Calls
  <2> DEFINE waiting == [calls EXCEPT ![Len(calls)].step = step]
  <2>2. Len(calls) \in Nat /\ calls' = Append(waiting, half)
        /\ waiting = [i \in 1..Len(calls) |-> waiting[i]]
    BY <2>1
  <2> HIDE DEF waiting
  <2>3. Len(waiting) = Len(calls)
    BY <2>2
  <2>4. Len(calls') = Len(calls) + 1 /\ calls'[Len(calls) + 1] = half
    BY <2>2, <2>3
  <2> QED
    BY <2>4 DEF top
<1>9. CASE CallLeft
  <2>1. top.step = "entered" /\ top' = LeftOf(top) /\ LeftOf(top).step = "entered"
    BY <1>8, <1>9 DEF CallLeft, LeftOf, Activation
  <2>2. HashedTo = Lo(top) /\ WidePlace = Hi(top) - Lo(top)
    BY <2>1 DEF HashedTo, WidePlace
  <2>3. HashedTo' = Lo(top) /\ WidePlace' = (Lo(top) + P) - Lo(top)
    BY <1>1, <1>7, <2>1, PlaceAfter
  <2>4. HashedTo = HashedTo' /\ WidePlace' < WidePlace
    BY <1>2, <1>5, <2>2, <2>3
  <2> QED
    BY <1>1, <2>4, LaterLowers
<1>10. CASE CallRight
  <2>1. top.step = "right" /\ top' = RightOf(top) /\ RightOf(top).step = "entered"
    BY <1>8, <1>10 DEF CallRight, RightOf, Activation
  <2>2. HashedTo = Lo(top) + P /\ WidePlace = Chunks + 1
    BY <1>6, <2>1 DEF HashedTo, WidePlace
  <2>3. HashedTo' = Lo(top) + P /\ WidePlace' = Hi(top) - (Lo(top) + P)
    BY <1>1, <1>7, <2>1, PlaceAfter
  <2>4. HashedTo = HashedTo' /\ WidePlace' < WidePlace
    BY <1>2, <1>5, <2>2, <2>3
  <2> QED
    BY <1>1, <2>4, LaterLowers
<1> QED
  BY <1>9, <1>10

\* A pass of the condensing loop leaves fewer chaining values.
LEMMA CondenseLowers ==
  ASSUME WideInv, WideInv', Condense \/ Return
  PROVE  WideStepsLeft' < WideStepsLeft
<1>1. stage = "condense" /\ num_cvs \in 2..OR_2 /\ OR_2 \in Nat
  BY WideNumbers DEF Condense, Return, WideInv, ArrayOK
<1>2. WideStepsLeft = num_cvs
  BY <1>1 DEF WideStepsLeft
<1>3. CASE Condense
  <2>1. num_cvs > 2 /\ cv_array' = compress_parents_parallel(cv_array) /\ stage' = "condense"
    BY <1>1, <1>3 DEF Condense, ToCondense
  <2>2. num_cvs' = (num_cvs + 1) \div 2
    <3>1. (num_cvs + 1) \div 2 \in Nat
      BY <1>1
    <3> QED
      BY <2>1, <3>1 DEF compress_parents_parallel, num_cvs
  <2>3. WideStepsLeft' = num_cvs'
    BY <2>1 DEF WideStepsLeft
  <2> QED
    BY <1>1, <1>2, <2>1, <2>2, <2>3
<1>4. CASE Return
  <2>1. stage' = "done"
    BY <1>4 DEF Return
  <2>2. WideStepsLeft' = 0
    BY <2>1 DEF WideStepsLeft
  <2> QED
    BY <1>1, <1>2, <2>2
<1> QED
  BY <1>3, <1>4

\* The bound is a number.
LEMMA WideStepsType ==
  ASSUME WideInv
  PROVE  WideStepsLeft \in Nat
<1>1. CASE stage = "wide"
  <2>1. WideStepsLeft = Round * (Chunks - HashedTo) + WidePlace + OR_2
    BY <1>1 DEF WideStepsLeft
  <2>2. Round * (Chunks - HashedTo) \in Nat /\ WidePlace \in Nat /\ OR_2 \in Nat
    BY <1>1, WideNumbers, PlaceOfTop DEF PlaceOK
  <2> DEFINE u == Round * (Chunks - HashedTo)
  <2> HIDE DEF u
  <2>3. u + WidePlace + OR_2 \in Nat
    BY <2>2 DEF u
  <2> QED
    BY <2>1, <2>3 DEF u
<1>2. CASE stage # "wide"
  <2>1. num_cvs \in Nat
    BY DEF WideInv, num_cvs
  <2> QED
    BY <1>2, <2>1 DEF WideStepsLeft
<1> QED
  BY <1>1, <1>2

\* A step lowers the bound.
WideProgress == WideStepsLeft' < WideStepsLeft

(***************************************************************************)
(* Every step of compress_subtree_to_parent_node brings a number nearer to *)
(* 0 that is at most quadratic in the chunks of its input: the recursion   *)
(* and the condensing loop come to an end for every input.                 *)
(***************************************************************************)
THEOREM SubtreeCallsAreBounded ==
  WideSpec => [](WideStepsLeft \in Nat) /\ [][WideProgress]_wideVars
<1>1. ASSUME WideInv, WideInv', stage' = "wide" => PlaceOK', WideNext,
             ~UNCHANGED wideVars
      PROVE  WideProgress
  <2>1. CASE HashChunks
    <3>1. stage = "wide" /\ top.step = "entered"
      BY <2>1 DEF HashChunks
    <3>2. PICK cvs, listed : Returns(cvs, listed)
      BY <2>1 DEF HashChunks
    <3> QED
      BY <1>1, <3>1, <3>2, ReturnLowers DEF WideProgress
  <2>2. CASE CallLeft \/ CallRight
    BY <1>1, <2>2, CallLowers DEF WideProgress
  <2>3. CASE JoinHalves
    <3>1. stage = "wide" /\ top.step = "join"
      BY <2>3 DEF JoinHalves
    <3>2. PICK cvs, listed : Returns(cvs, listed)
      BY <2>3 DEF JoinHalves
    <3> QED
      BY <1>1, <3>1, <3>2, ReturnLowers DEF WideProgress
  <2>4. CASE Condense \/ Return
    BY <1>1, <2>4, CondenseLowers DEF WideProgress
  <2> QED
    BY <1>1, <2>1, <2>2, <2>3, <2>4 DEF WideNext, Returned
<1> DEFINE Place == stage = "wide" => PlaceOK
<1>2. ASSUME WideInv, WideInv', Place', [WideNext]_wideVars PROVE [WideProgress]_wideVars
  BY <1>1, <1>2
<1>3. WideInv => WideStepsLeft \in Nat
  BY WideStepsType
<1>4. WideInv => Place
  BY PlaceOfTop
<1> QED
  BY <1>2, <1>3, <1>4, WideInvariant, PTL DEF WideSpec
=============================================================================
