---------------------------- MODULE CpuDispatch -----------------------------
(***************************************************************************)
(* blake3_dispatch.c on x86: the features of the processor are detected    *)
(* by the first calls and kept in g_cpu_features, which every compression  *)
(* of every thread reads without a lock.                                   *)
(*                                                                         *)
(* Several threads may detect at once: they ask the processor in several   *)
(* instructions and publish what they found in one store.                  *)
(***************************************************************************)
EXTENDS Naturals, FiniteSetsExt

CONSTANTS
  Threads,
  Processors,     \* records: bits (of cpuid), os (the register states xgetbv
                  \* reports: a subset of {"avx", "avx512"}), leaf7 (BOOLEAN)
  Builds          \* records: kernels (compiled in), amd64 (BOOLEAN), xof_many
                  \* (BOOLEAN: blake3_xof_many_avx512 is compiled in)

VARIABLES
  cpu, build,         \* what the process runs on; they never change
  g_cpu_features,
  features,           \* each thread's local of that name
  pc,                 \* where each thread is in get_cpu_features
  degree,             \* the last answer of blake3_simd_degree to each thread
  kernel              \* the last kernel each thread ran, by function

vars == <<cpu, build, g_cpu_features, features, pc, degree, kernel>>

UNDEFINED == {"UNDEFINED"}
NoDegree == 0
NoKernel == "none"
-----------------------------------------------------------------------------
(***************************************************************************)
(* What is asked of leaf 1 of cpuid, and of xgetbv and leaf 7.  (SSE2 is   *)
(* not asked for on amd64, where every processor has it.)                  *)
(***************************************************************************)
LeafOne == {"SSE2", "SSSE3", "SSE41"}

Saved_Unasked(state) == "OSXSAVE" \in cpu.bits
Saved(state) == "OSXSAVE" \in cpu.bits /\ state \in cpu.os

LeafSeven ==
  {"AVX"} \cup IF ~cpu.leaf7 THEN {}
               ELSE {"AVX2"} \cup IF Saved("avx512") THEN {"AVX512VL", "AVX512F"} ELSE {}

(***************************************************************************)
(* The dispatching functions take the first kernel that is compiled in and *)
(* whose features were found.                                              *)
(***************************************************************************)
Kernel(name, needs) == [name |-> name, needs |-> needs]

FirstOf(order, found) ==
  LET fit == {i \in DOMAIN order : /\ order[i].name \in build.kernels
                                   /\ order[i].needs \subseteq found}
  IN  IF fit = {} THEN "portable" ELSE order[Min(fit)].name

blake3_hash_many(found) ==
  FirstOf(<<Kernel("avx512", {"AVX512F", "AVX512VL"}), Kernel("avx2", {"AVX2"}),
            Kernel("sse41", {"SSE41"}), Kernel("sse2", {"SSE2"})>>, found)

blake3_compress_in_place(found) ==
  FirstOf(<<Kernel("avx512", {"AVX512VL"}), Kernel("sse41", {"SSE41"}),
            Kernel("sse2", {"SSE2"})>>, found)

blake3_compress_xof(found) == blake3_compress_in_place(found)

blake3_xof_many(found) ==
  IF build.xof_many /\ "AVX512VL" \in found THEN "avx512" ELSE blake3_compress_xof(found)

Lanes == [avx512 |-> 16, avx2 |-> 8, sse41 |-> 4, sse2 |-> 4, portable |-> 1]

blake3_simd_degree_AnyAVX512(found) ==
  Lanes[FirstOf(<<Kernel("avx512", {"AVX512VL"}), Kernel("avx2", {"AVX2"}),
                  Kernel("sse41", {"SSE41"}), Kernel("sse2", {"SSE2"})>>, found)]
blake3_simd_degree(found) ==
  Lanes[FirstOf(<<Kernel("avx512", {"AVX512F", "AVX512VL"}), Kernel("avx2", {"AVX2"}),
                  Kernel("sse41", {"SSE41"}), Kernel("sse2", {"SSE2"})>>, found)]

Functions == {"blake3_hash_many", "blake3_compress_in_place", "blake3_compress_xof",
              "blake3_xof_many"}

Chosen(found) ==
  [blake3_hash_many |-> blake3_hash_many(found),
   blake3_compress_in_place |-> blake3_compress_in_place(found),
   blake3_compress_xof |-> blake3_compress_xof(found),
   blake3_xof_many |-> blake3_xof_many(found)]
-----------------------------------------------------------------------------
Init ==
  /\ cpu \in Processors
  /\ build \in Builds
  /\ build.amd64 => "SSE2" \in cpu.bits
  /\ g_cpu_features = UNDEFINED
  /\ features = [t \in Threads |-> {}]
  /\ pc = [t \in Threads |-> "idle"]
  /\ degree = [t \in Threads |-> NoDegree]
  /\ kernel = [t \in Threads |-> [f \in Functions |-> NoKernel]]

\* A dispatching function is called; get_cpu_features loads the variable.
Load(t) ==
  /\ pc[t] = "idle"
  /\ features' = [features EXCEPT ![t] = g_cpu_features]
  /\ pc' = [pc EXCEPT ![t] = IF g_cpu_features = UNDEFINED THEN "leaf1" ELSE "dispatch"]
  /\ UNCHANGED <<cpu, build, g_cpu_features, degree, kernel>>

\* features |= ... : to the local of the thread, never to the variable.
Found_Shared(t, more) ==
  /\ features' = [features EXCEPT ![t] = (@ \ UNDEFINED) \cup (more \cap cpu.bits)]
  /\ g_cpu_features' = features'[t]
Found_NoReset(t, more) ==
  /\ features' = [features EXCEPT ![t] = @ \cup (more \cap cpu.bits)]
  /\ UNCHANGED g_cpu_features
Found(t, more) ==
  /\ features' = [features EXCEPT ![t] = (@ \ UNDEFINED) \cup (more \cap cpu.bits)]
  /\ UNCHANGED g_cpu_features

DetectLeafOne(t) ==
  /\ pc[t] = "leaf1"
  /\ Found(t, LeafOne)
  /\ pc' = [pc EXCEPT ![t] = IF Saved("avx") THEN "leaf7" ELSE "store"]
  /\ UNCHANGED <<cpu, build, degree, kernel>>

DetectLeafSeven(t) ==
  /\ pc[t] = "leaf7"
  /\ Found(t, LeafSeven)
  /\ pc' = [pc EXCEPT ![t] = "store"]
  /\ UNCHANGED <<cpu, build, degree, kernel>>

Store(t) ==
  /\ pc[t] = "store"
  /\ g_cpu_features' = features[t]
  /\ pc' = [pc EXCEPT ![t] = "dispatch"]
  /\ UNCHANGED <<cpu, build, features, degree, kernel>>

\* The function that was called goes on with the features it was given.
Answer(t) ==
  /\ pc[t] = "dispatch"
  /\ \/ /\ degree' = [degree EXCEPT ![t] = blake3_simd_degree(features[t])]
        /\ UNCHANGED kernel
     \/ /\ \E f \in Functions : kernel' = [kernel EXCEPT ![t][f] = Chosen(features[t])[f]]
        /\ UNCHANGED degree
  /\ features' = [features EXCEPT ![t] = {}]
  /\ pc' = [pc EXCEPT ![t] = "idle"]
  /\ UNCHANGED <<cpu, build, g_cpu_features>>

Step(t) ==
  \/ Load(t)
  \/ DetectLeafOne(t) \/ DetectLeafSeven(t) \/ Store(t)
  \/ Answer(t)

Next == \E t \in Threads : Step(t)

Spec == Init /\ [][Next]_vars
-----------------------------------------------------------------------------
\* What the program may use: reported by the processor, and saved by the OS.
Usable ==
  (LeafOne \cap cpu.bits) \cup {f \in cpu.bits \cap {"AVX", "AVX2", "AVX512VL", "AVX512F"} :
    /\ "OSXSAVE" \in cpu.bits /\ "avx" \in cpu.os
    /\ f # "AVX" => cpu.leaf7
    /\ f \in {"AVX512VL", "AVX512F"} => "avx512" \in cpu.os}

\* The types of the shared variable and of the threads' locals and answers.
AllFeatures == {"SSE2", "SSSE3", "SSE41", "AVX", "AVX2", "AVX512VL", "AVX512F"}
TypeOK ==
  /\ cpu \in Processors /\ build \in Builds
  /\ g_cpu_features \in (SUBSET AllFeatures) \cup {UNDEFINED}
  /\ features \in [Threads -> (SUBSET AllFeatures) \cup {UNDEFINED}]
  /\ pc \in [Threads -> {"idle", "leaf1", "leaf7", "store", "dispatch"}]
  /\ degree \in [Threads -> {NoDegree, 1, 4, 8, 16}]
  /\ kernel \in [Threads -> [Functions -> DOMAIN Lanes \cup {NoKernel}]]

(***************************************************************************)
(* A reader of g_cpu_features sees UNDEFINED or all that the processor     *)
(* has: no thread publishes what another has still to complete, and a late *)
(* store changes nothing.                                                  *)
(***************************************************************************)
PublishedWhole == g_cpu_features \in {UNDEFINED, Usable}

(***************************************************************************)
(* blake3_compress_subtree_wide asks for the degree twice and lays out its *)
(* buffers by it: no two answers of a process differ, those of threads     *)
(* that raced to detect included, and the degree is the number of lanes of *)
(* the kernel that blake3_hash_many runs.                                  *)
(***************************************************************************)
DegreeAgrees ==
  \A t, u \in Threads :
    degree[t] # NoDegree =>
      /\ degree[u] \in {NoDegree, degree[t]}
      /\ LET many == kernel[u].blake3_hash_many
         IN  many # NoKernel => Lanes[many] = degree[t]

\* What the instructions of a kernel take.  AVX512VL is AVX-512 for narrower
\* registers, and nothing without AVX512F, which has those of 512 bits.
Registers ==
  [avx512 |-> {"AVX512F", "AVX512VL"}, avx2 |-> {"AVX2"}, sse41 |-> {"SSE41"},
   sse2 |-> {"SSE2"}, portable |-> {}]

\* blake3_hash_many asks for both, the other functions for AVX512VL alone
\* (blake3_dispatch.c, lines 176, 205 and 239 against 258).
TrustsVL(f, k) ==
  /\ f # "blake3_hash_many" /\ k = "avx512"
  /\ "AVX512VL" \in Usable /\ "AVX512F" \notin cpu.bits

(***************************************************************************)
(* No thread runs a kernel whose registers the processor lacks or the      *)
(* operating system does not save, with one exception: where AVX512VL is   *)
(* reported without the AVX512F it is an extension of, as a hypervisor may *)
(* do, all functions but blake3_hash_many run their AVX-512 kernels.       *)
(***************************************************************************)
KernelsUsable ==
  \A t \in Threads, f \in Functions :
    LET k == kernel[t][f]
    IN  k # NoKernel => Registers[k] \subseteq Usable \/ TrustsVL(f, k)
=============================================================================
