--------------------------- MODULE MCCpuDispatch ----------------------------
(***************************************************************************)
(* CpuDispatch for the x86 builds of build.zig (amd64 with all kernels, on *)
(* Windows without xof_many, and the Android x86 build without any), on    *)
(* processors and operating systems of several generations.                *)
(***************************************************************************)
EXTENDS CpuDispatch

Sse == {"SSE2", "SSSE3", "SSE41"}
Avx == Sse \cup {"OSXSAVE", "AVX", "AVX2"}
Avx512 == Avx \cup {"AVX512F", "AVX512VL"}
Cpu(bits, os, leaf7) == [bits |-> bits, os |-> os, leaf7 |-> leaf7]

MCProcessors ==
  { Cpu({}, {}, FALSE), Cpu({"SSE2"}, {}, FALSE), Cpu(Sse, {}, FALSE),
    Cpu(Sse \cup {"OSXSAVE", "AVX"}, {"avx"}, FALSE),
    Cpu(Avx, {"avx"}, TRUE),
    Cpu(Avx, {}, TRUE),                          \* AVX state not enabled
    Cpu(Avx512 \ {"OSXSAVE"}, {}, TRUE),         \* no xgetbv
    Cpu(Avx512, {"avx"}, TRUE),                  \* AVX-512 state not enabled
    Cpu(Avx512, {"avx", "avx512"}, TRUE),
    Cpu(Avx512 \ {"AVX512VL"}, {"avx", "avx512"}, TRUE),
    Cpu(Avx512 \ {"AVX512F"}, {"avx", "avx512"}, TRUE) }   \* masked by a hypervisor

Kernels == {"avx512", "avx2", "sse41", "sse2"}
MCBuilds ==
  { [kernels |-> Kernels, amd64 |-> TRUE, xof_many |-> TRUE],
    [kernels |-> Kernels, amd64 |-> TRUE, xof_many |-> FALSE],
    [kernels |-> {}, amd64 |-> FALSE, xof_many |-> FALSE] }
=============================================================================
