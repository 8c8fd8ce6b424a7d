------------------------- MODULE CpuDispatchProofs --------------------------
(***************************************************************************)
(* Proofs about CpuDispatch, for any number of threads, every processor    *)
(* and every set of kernels compiled in.                                   *)
(***************************************************************************)
EXTENDS CpuDispatch, TLAPS

\* What each thread's local holds at each point of get_cpu_features.
Detected(t) ==
  CASE pc[t] = "idle"  -> {}
    [] pc[t] = "leaf1" -> UNDEFINED
    [] pc[t] = "leaf7" -> LeafOne \cap cpu.bits
    [] OTHER           -> Usable

Locals ==
  \A t \in Threads :
    /\ features[t] = Detected(t)
    /\ pc[t] = "leaf7" => Saved("avx")

\* Every answer is the one for all that is usable.
Answers ==
  \A t \in Threads :
    /\ degree[t] \in {NoDegree, blake3_simd_degree(Usable)}
    /\ \A f \in Functions : kernel[t][f] \in {NoKernel, Chosen(Usable)[f]}

IInv == TypeOK /\ PublishedWhole /\ Locals /\ Answers
-----------------------------------------------------------------------------
(***************************************************************************)
(* Detection: the leaves asked add up to what is usable.                   *)
(***************************************************************************)

\* Feature names are not the mark of an undetected variable.
LEMMA UsableTypes ==
  /\ Usable \in SUBSET AllFeatures /\ LeafOne \cap cpu.bits \in SUBSET AllFeatures
  /\ Usable # UNDEFINED
BY DEF Usable, AllFeatures, LeafOne, UNDEFINED

\* What is found after a leaf.
LEMMA Finds ==
  /\ (UNDEFINED \ UNDEFINED) \cup (LeafOne \cap cpu.bits) = LeafOne \cap cpu.bits
  /\ ~Saved("avx") => LeafOne \cap cpu.bits = Usable
  /\ Saved("avx") =>
       ((LeafOne \cap cpu.bits) \ UNDEFINED) \cup (LeafSeven \cap cpu.bits) = Usable
<1>1. ~Saved("avx") => LeafOne \cap cpu.bits = Usable
  BY DEF Saved, Usable
<1>2. ASSUME Saved("avx")
      PROVE  ((LeafOne \cap cpu.bits) \ UNDEFINED) \cup (LeafSeven \cap cpu.bits) = Usable
  <2>1. (LeafOne \cap cpu.bits) \ UNDEFINED = LeafOne \cap cpu.bits
    BY DEF LeafOne, UNDEFINED
  <2>2. LeafSeven \cap cpu.bits =
          {f \in cpu.bits \cap {"AVX", "AVX2", "AVX512VL", "AVX512F"} :
             /\ "OSXSAVE" \in cpu.bits /\ "avx" \in cpu.os
             /\ f # "AVX" => cpu.leaf7
             /\ f \in {"AVX512VL", "AVX512F"} => "avx512" \in cpu.os}
    BY <1>2 DEF LeafSeven, Saved
  <2> QED
    BY <2>1, <2>2 DEF Usable
<1> QED
  BY <1>1, <1>2
-----------------------------------------------------------------------------
(***************************************************************************)
(* The choice of a kernel.                                                 *)
(***************************************************************************)

\* A nonempty set of at most four positions has a least one.
LEMMA LeastPosition ==
  ASSUME NEW S \in SUBSET (1..4), S # {}
  PROVE  Min(S) \in S
<1>1. PICK least \in S : \A y \in S : least <= y
  <2>1. CASE 1 \in S
    BY <2>1
  <2>2. CASE 1 \notin S /\ 2 \in S
    BY <2>2
  <2>3. CASE 1 \notin S /\ 2 \notin S /\ 3 \in S
    BY <2>3
  <2>4. CASE 1 \notin S /\ 2 \notin S /\ 3 \notin S
    <3>1. PICK least \in S : TRUE
      OBVIOUS
    <3>2. \A y \in S : y = 4
      BY <2>4
    <3>3. least \in S /\ \A y \in S : least <= y
      BY <3>1, <3>2
    <3> QED
      BY <3>3
  <2> QED
    BY <2>1, <2>2, <2>3, <2>4
<1> QED
  BY <1>1 DEF Min

\* The kernel taken is in the list, and what it needs was found.
LEMMA FirstFits ==
  ASSUME NEW order, DOMAIN order \subseteq 1..4, NEW found
  PROVE  \/ FirstOf(order, found) = "portable"
         \/ \E i \in DOMAIN order :
              FirstOf(order, found) = order[i].name /\ order[i].needs \subseteq found
<1> DEFINE fit == {i \in DOMAIN order : /\ order[i].name \in build.kernels
                                        /\ order[i].needs \subseteq found}
<1>1. CASE fit = {}
  BY <1>1 DEF FirstOf
<1>2. CASE fit # {}
  <2>1. Min(fit) \in fit
    BY <1>2, LeastPosition
  <2>2. FirstOf(order, found) = order[Min(fit)].name
    BY <1>2 DEF FirstOf
  <2> QED
    BY <2>1, <2>2
<1> QED
  BY <1>1, <1>2

\* Every function runs a kernel whose registers were found; but for
\* blake3_hash_many, AVX512VL is enough for the AVX-512 ones.
LEMMA ChosenFits ==
  ASSUME NEW found, NEW f \in Functions
  PROVE  /\ Chosen(found)[f] \in DOMAIN Lanes
         /\ \/ Registers[Chosen(found)[f]] \subseteq found
            \/ /\ f # "blake3_hash_many" /\ Chosen(found)[f] = "avx512"
               /\ "AVX512VL" \in found /\ "AVX512F" \notin found
<1> DEFINE fits(k) == k \in {"avx512", "avx2", "sse41", "sse2", "portable"}
                       /\ Registers[k] \subseteq found
           good(k) == fits(k) \/ (k = "avx512" /\ "AVX512VL" \in found /\ "AVX512F" \notin found)
<1>1. fits("portable")
  BY DEF Registers
<1>2. fits(blake3_hash_many(found))
  <2> DEFINE order == <<Kernel("avx512", {"AVX512F", "AVX512VL"}), Kernel("avx2", {"AVX2"}),
                        Kernel("sse41", {"SSE41"}), Kernel("sse2", {"SSE2"})>>
  <2>1. DOMAIN order = 1..4
    OBVIOUS
  <2>2. \A i \in DOMAIN order : order[i].needs \subseteq found => fits(order[i].name)
    BY <2>1 DEF Kernel, Registers
  <2>3. blake3_hash_many(found) = FirstOf(order, found)
    BY DEF blake3_hash_many
  <2> HIDE DEF order, fits
  <2> QED
    BY <1>1, <2>1, <2>2, <2>3, FirstFits
<1>3. "AVX512VL" \in found => good("avx512")
  BY DEF Registers
<1>4. good(blake3_compress_in_place(found))
  <2> DEFINE order == <<Kernel("avx512", {"AVX512VL"}), Kernel("sse41", {"SSE41"}),
                        Kernel("sse2", {"SSE2"})>>
  <2>1. DOMAIN order = 1..3
    OBVIOUS
  <2>2. \A i \in DOMAIN order : order[i].needs \subseteq found => good(order[i].name)
    BY <1>3, <2>1 DEF Kernel, Registers
  <2>3. blake3_compress_in_place(found) = FirstOf(order, found)
    BY DEF blake3_compress_in_place
  <2>4. DOMAIN order \subseteq 1..4
    BY <2>1
  <2>5. good("portable")
    BY <1>1
  <2> HIDE DEF order, good
  <2> QED
    BY <2>2, <2>3, <2>4, <2>5, FirstFits
<1>5. good(blake3_compress_xof(found))
  BY <1>4 DEF blake3_compress_xof
<1>6. good(blake3_xof_many(found))
  <2> HIDE DEF good
  <2> QED
    BY <1>3, <1>5 DEF blake3_xof_many
<1>7. good(Chosen(found)[f]) /\ (f = "blake3_hash_many" => fits(Chosen(found)[f]))
  <2>1. fits(blake3_hash_many(found)) => good(blake3_hash_many(found))
    OBVIOUS
  <2> HIDE DEF good, fits
  <2> QED
    BY <1>2, <1>4, <1>5, <1>6, <2>1 DEF Chosen, Functions
<1> QED
  BY <1>7 DEF Lanes

\* The degree is the number of lanes of the kernel of blake3_hash_many.
LEMMA DegreeIsLanes ==
  ASSUME NEW found
  PROVE  /\ blake3_simd_degree(found) = Lanes[blake3_hash_many(found)]
         /\ blake3_simd_degree(found) \in {1, 4, 8, 16}
<1>1. blake3_simd_degree(found) = Lanes[blake3_hash_many(found)]
  BY DEF blake3_simd_degree, blake3_hash_many
<1>2. "blake3_hash_many" \in Functions
  BY DEF Functions
<1>3. blake3_hash_many(found) \in DOMAIN Lanes
  BY <1>2, ChosenFits DEF Chosen
<1>4. \A k \in DOMAIN Lanes : Lanes[k] \in {1, 4, 8, 16}
  BY DEF Lanes
<1> QED
  BY <1>1, <1>3, <1>4
-----------------------------------------------------------------------------
(***************************************************************************)
(* Every step keeps the invariant.                                         *)
(***************************************************************************)

\* What the process runs on decides what is usable, saved and chosen.
LEMMA Fixed ==
  ASSUME UNCHANGED <<cpu, build>>
  PROVE  /\ Usable' = Usable /\ Saved("avx")' = Saved("avx")
         /\ (LeafOne \cap cpu.bits)' = LeafOne \cap cpu.bits
         /\ blake3_simd_degree(Usable)' = blake3_simd_degree(Usable)
         /\ Chosen(Usable)' = Chosen(Usable)
<1>1. Usable' = Usable /\ Saved("avx")' = Saved("avx") /\ (LeafOne \cap cpu.bits)' = LeafOne \cap cpu.bits
  BY DEF Usable, Saved, LeafOne
<1>2. \A order, found : FirstOf(order, found)' = FirstOf(order, found)
  BY DEF FirstOf
<1>3. blake3_simd_degree(Usable)' = blake3_simd_degree(Usable)
  BY <1>1, <1>2 DEF blake3_simd_degree
<1>4. Chosen(Usable)' = Chosen(Usable)
  <2>1. blake3_hash_many(Usable)' = blake3_hash_many(Usable)
    BY <1>1, <1>2 DEF blake3_hash_many
  <2>2. blake3_compress_in_place(Usable)' = blake3_compress_in_place(Usable)
    BY <1>1, <1>2 DEF blake3_compress_in_place
  <2>3. blake3_compress_xof(Usable)' = blake3_compress_xof(Usable)
    BY <2>2 DEF blake3_compress_xof
  <2>4. blake3_xof_many(Usable)' = blake3_xof_many(Usable)
    BY <1>1, <2>3 DEF blake3_xof_many
  <2> QED
    BY <2>1, <2>2, <2>3, <2>4 DEF Chosen
<1> QED
  BY <1>1, <1>3, <1>4

\* A step of one thread that leaves the answers alone keeps the invariant
\* when the thread's local and the shared variable are as they should be.
LEMMA LocalStep ==
  ASSUME IInv, NEW t \in Threads, NEW point \in {"leaf1", "leaf7", "store", "dispatch"},
         NEW found, UNCHANGED <<cpu, build, degree, kernel>>,
         pc' = [pc EXCEPT ![t] = point], features' = [features EXCEPT ![t] = found],
         found = CASE point = "leaf1" -> UNDEFINED
                   [] point = "leaf7" -> LeafOne \cap cpu.bits
                   [] OTHER           -> Usable,
         point = "leaf7" => Saved("avx"),
         g_cpu_features' \in {UNDEFINED, Usable}
  PROVE  IInv'
<1>1. /\ Usable' = Usable /\ Saved("avx")' = Saved("avx")
      /\ (LeafOne \cap cpu.bits)' = LeafOne \cap cpu.bits
      /\ blake3_simd_degree(Usable)' = blake3_simd_degree(Usable)
      /\ Chosen(Usable)' = Chosen(Usable)
  BY Fixed
<1>2. found \in (SUBSET AllFeatures) \cup {UNDEFINED}
  BY UsableTypes
<1>3. TypeOK'
  BY <1>2, UsableTypes DEF IInv, TypeOK
<1>4. PublishedWhole'
  BY <1>1 DEF PublishedWhole
<1>5. Locals'
  <2> SUFFICES ASSUME NEW u \in Threads
               PROVE  features'[u] = Detected(u)' /\ (pc'[u] = "leaf7" => Saved("avx"))
    BY <1>1 DEF Locals
  <2>1. CASE u = t
    <3>1. pc'[u] = point /\ features'[u] = found
      BY <2>1 DEF IInv, TypeOK
    <3> QED
      BY <1>1, <3>1 DEF Detected
  <2>2. CASE u # t
    <3>1. pc'[u] = pc[u] /\ features'[u] = features[u]
      BY <2>2 DEF IInv, TypeOK
    <3> QED
      BY <1>1, <3>1 DEF IInv, Locals, Detected
  <2> QED
    BY <2>1, <2>2
<1>6. Answers'
  BY <1>1 DEF IInv, Answers
<1> QED
  BY <1>3, <1>4, <1>5, <1>6 DEF IInv

\* A thread answers from its local, which is what is usable.
LEMMA AnswerKeeps ==
  ASSUME IInv, NEW t \in Threads, Answer(t)
  PROVE  IInv'
<1>1. /\ Usable' = Usable /\ Saved("avx")' = Saved("avx")
      /\ (LeafOne \cap cpu.bits)' = LeafOne \cap cpu.bits
      /\ blake3_simd_degree(Usable)' = blake3_simd_degree(Usable)
      /\ Chosen(Usable)' = Chosen(Usable)
  BY Fixed DEF Answer
<1>2. features[t] = Usable
  BY DEF Answer, IInv, Locals, Detected
<1>3. /\ pc' = [pc EXCEPT ![t] = "idle"] /\ features' = [features EXCEPT ![t] = {}]
      /\ UNCHANGED <<cpu, build, g_cpu_features>>
  BY DEF Answer
<1>4. blake3_simd_degree(Usable) \in {1, 4, 8, 16}
  BY DegreeIsLanes
<1>5. \A f \in Functions : Chosen(Usable)[f] \in DOMAIN Lanes
  BY ChosenFits
<1>6. \A u \in Threads : degree'[u] \in {degree[u], blake3_simd_degree(Usable)}
  BY <1>2 DEF Answer, IInv, TypeOK
<1>7. \A u \in Threads, f \in Functions : kernel'[u][f] \in {kernel[u][f], Chosen(Usable)[f]}
  BY <1>2 DEF Answer, IInv, TypeOK
<1>8. TypeOK'
  <2>1. degree' \in [Threads -> {NoDegree, 1, 4, 8, 16}]
    BY <1>2, <1>4 DEF Answer, IInv, TypeOK
  <2>2. kernel' \in [Threads -> [Functions -> DOMAIN Lanes \cup {NoKernel}]]
    <3>1. CASE UNCHANGED kernel
      BY <3>1 DEF IInv, TypeOK
    <3>2. CASE \E f \in Functions : kernel' = [kernel EXCEPT ![t][f] = Chosen(Usable)[f]]
      <4>1. PICK f \in Functions : kernel' = [kernel EXCEPT ![t][f] = Chosen(Usable)[f]]
        BY <3>2
      <4>2. kernel \in [Threads -> [Functions -> DOMAIN Lanes \cup {NoKernel}]]
        BY DEF IInv, TypeOK
      <4> DEFINE answer == Chosen(Usable)[f]
      <4>3. answer \in DOMAIN Lanes \cup {NoKernel}
        BY <1>5
      <4>4. kernel' = [kernel EXCEPT ![t] = [kernel[t] EXCEPT ![f] = answer]]
        BY <4>1
      <4> HIDE DEF answer
      <4> QED
        BY <4>2, <4>3, <4>4
    <3> QED
      BY <1>2, <3>1, <3>2 DEF Answer
  <2> QED
    BY <1>3, <2>1, <2>2 DEF IInv, TypeOK
<1>9. PublishedWhole'
  BY <1>1, <1>3 DEF IInv, PublishedWhole
<1>10. Locals'
  <2> SUFFICES ASSUME NEW u \in Threads
               PROVE  features'[u] = Detected(u)' /\ (pc'[u] = "leaf7" => Saved("avx"))
    BY <1>1 DEF Locals
  <2>1. CASE u = t
    BY <1>3, <2>1 DEF IInv, TypeOK, Detected
  <2>2. CASE u # t
    <3>1. pc'[u] = pc[u] /\ features'[u] = features[u]
      BY <1>3, <2>2 DEF IInv, TypeOK
    <3> QED
      BY <1>1, <3>1 DEF IInv, Locals, Detected
  <2> QED
    BY <2>1, <2>2
<1>11. Answers'
  BY <1>1, <1>6, <1>7 DEF IInv, Answers
<1> QED
  BY <1>8, <1>9, <1>10, <1>11 DEF IInv

(***************************************************************************)
(* The invariant is inductive: a thread changes no local but its own, and  *)
(* whatever it stores, late or not, is the same value.                     *)
(***************************************************************************)
THEOREM Invariant == Spec => []IInv
<1>1. Init => IInv
  <2> SUFFICES ASSUME Init PROVE IInv
    OBVIOUS
  <2>1. TypeOK
    BY DEF Init, TypeOK
  <2>2. Locals
    BY DEF Init, Locals, Detected
  <2> QED
    BY <2>1, <2>2 DEF Init, IInv, PublishedWhole, Answers
<1>2. IInv /\ [Next]_vars => IInv'
  <2> SUFFICES ASSUME IInv, [Next]_vars PROVE IInv'
    OBVIOUS
  <2>1. ASSUME NEW t \in Threads, Load(t) PROVE IInv'
    <3>1. CASE g_cpu_features = UNDEFINED
      BY <2>1, <3>1, LocalStep DEF Load
    <3>2. CASE g_cpu_features # UNDEFINED
      <4>1. g_cpu_features = Usable
        BY <3>2 DEF IInv, PublishedWhole
      <4> QED
        BY <2>1, <3>2, <4>1, LocalStep DEF Load
    <3> QED
      BY <3>1, <3>2
  <2>2. ASSUME NEW t \in Threads, DetectLeafOne(t) PROVE IInv'
    <3>1. features[t] = UNDEFINED /\ g_cpu_features \in {UNDEFINED, Usable}
      BY <2>2 DEF DetectLeafOne, IInv, Locals, Detected, PublishedWhole
    <3>2. features' = [features EXCEPT ![t] = LeafOne \cap cpu.bits]
      BY <2>2, <3>1, Finds DEF DetectLeafOne, Found
    <3>3. CASE Saved("avx")
      BY <2>2, <3>1, <3>2, <3>3, LocalStep DEF DetectLeafOne, Found
    <3>4. CASE ~Saved("avx")
      <4>1. features' = [features EXCEPT ![t] = Usable]
        BY <3>2, <3>4, Finds
      <4> QED
        BY <2>2, <3>1, <3>4, <4>1, LocalStep DEF DetectLeafOne, Found
    <3> QED
      BY <3>3, <3>4
  <2>3. ASSUME NEW t \in Threads, DetectLeafSeven(t) PROVE IInv'
    <3>1. /\ features[t] = LeafOne \cap cpu.bits /\ Saved("avx")
          /\ g_cpu_features \in {UNDEFINED, Usable}
      BY <2>3 DEF DetectLeafSeven, IInv, Locals, Detected, PublishedWhole
    <3>2. features' = [features EXCEPT ![t] = Usable]
      BY <2>3, <3>1, Finds DEF DetectLeafSeven, Found
    <3> QED
      BY <2>3, <3>1, <3>2, LocalStep DEF DetectLeafSeven, Found
  <2>4. ASSUME NEW t \in Threads, Store(t) PROVE IInv'
    <3>1. features[t] = Usable
      BY <2>4 DEF Store, IInv, Locals, Detected
    <3>2. features' = [features EXCEPT ![t] = Usable]
      BY <2>4, <3>1 DEF Store, IInv, TypeOK
    <3> QED
      BY <2>4, <3>1, <3>2, LocalStep DEF Store
  <2>5. ASSUME NEW t \in Threads, Answer(t) PROVE IInv'
    BY <2>5, AnswerKeeps
  <2>6. CASE UNCHANGED vars
    <3>1. UNCHANGED <<cpu, build, g_cpu_features, features, pc, degree, kernel>>
      BY <2>6 DEF vars
    <3>2. /\ Usable' = Usable /\ Saved("avx")' = Saved("avx")
          /\ (LeafOne \cap cpu.bits)' = LeafOne \cap cpu.bits
          /\ blake3_simd_degree(Usable)' = blake3_simd_degree(Usable)
          /\ Chosen(Usable)' = Chosen(Usable)
      BY <3>1, Fixed
    <3>3. TypeOK' /\ PublishedWhole'
      BY <3>1, <3>2 DEF IInv, TypeOK, PublishedWhole
    <3>4. Locals' /\ Answers'
      BY <3>1, <3>2 DEF IInv, Locals, Detected, Answers
    <3> QED
      BY <3>3, <3>4 DEF IInv
  <2> QED
    BY <2>1, <2>2, <2>3, <2>4, <2>5, <2>6 DEF Next, Step
<1> QED
  BY <1>1, <1>2, PTL DEF Spec
-----------------------------------------------------------------------------
\* The shared variable, the locals and the answers keep their types.
THEOREM TypeCorrect == Spec => []TypeOK
<1>1. IInv => TypeOK
  BY DEF IInv
<1> QED
  BY <1>1, Invariant, PTL

\* No reader of g_cpu_features ever sees part of what the processor has.
THEOREM AlwaysPublishedWhole == Spec => []PublishedWhole
<1>1. IInv => PublishedWhole
  BY DEF IInv
<1> QED
  BY <1>1, Invariant, PTL

(***************************************************************************)
(* All answers of blake3_simd_degree agree, among threads and with the     *)
(* kernel of blake3_hash_many.                                             *)
(***************************************************************************)
THEOREM DegreeAlwaysAgrees == Spec => []DegreeAgrees
<1>1. IInv => DegreeAgrees
  <2> SUFFICES ASSUME IInv, NEW t \in Threads, NEW u \in Threads, degree[t] # NoDegree
               PROVE  /\ degree[u] \in {NoDegree, degree[t]}
                      /\ kernel[u].blake3_hash_many # NoKernel =>
                           Lanes[kernel[u].blake3_hash_many] = degree[t]
    BY DEF DegreeAgrees
  <2>1. degree[t] = blake3_simd_degree(Usable) /\ degree[u] \in {NoDegree, degree[t]}
    BY DEF IInv, Answers
  <2>2. /\ "blake3_hash_many" \in Functions
        /\ Chosen(Usable).blake3_hash_many = blake3_hash_many(Usable)
    BY DEF Functions, Chosen
  <2>3. kernel[u].blake3_hash_many \in {NoKernel, blake3_hash_many(Usable)}
    BY <2>2 DEF IInv, Answers
  <2> QED
    BY <2>1, <2>3, DegreeIsLanes
<1> QED
  BY <1>1, Invariant, PTL

(***************************************************************************)
(* No kernel runs whose registers the processor lacks or the operating     *)
(* system does not save, but the AVX-512 kernels that AVX512VL is trusted  *)
(* for on a processor that reports it without AVX512F.                     *)
(***************************************************************************)
THEOREM KernelsAlwaysUsable == Spec => []KernelsUsable
<1>1. IInv => KernelsUsable
  <2> SUFFICES ASSUME IInv, NEW t \in Threads, NEW f \in Functions, kernel[t][f] # NoKernel
               PROVE  \/ Registers[kernel[t][f]] \subseteq Usable
                      \/ TrustsVL(f, kernel[t][f])
    BY DEF KernelsUsable
  <2>1. kernel[t][f] = Chosen(Usable)[f]
    BY DEF IInv, Answers
  <2>2. "AVX512VL" \in Usable /\ "AVX512F" \notin Usable => "AVX512F" \notin cpu.bits
    BY DEF Usable, LeafOne
  <2> QED
    BY <2>1, <2>2, ChosenFits DEF TrustsVL
<1> QED
  BY <1>1, Invariant, PTL
=============================================================================
