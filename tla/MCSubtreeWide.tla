--------------------------- MODULE MCSubtreeWide ----------------------------
(***************************************************************************)
(* SubtreeWide for what the builds make (build.zig and androidMain's       *)
(* CMakeLists.txt): x86_64 on processors of three generations, 32-bit x86  *)
(* without SIMD kernels, aarch64 and arm; arm also with NEON switched on,  *)
(* as CMakeLists.txt has it, and a big-endian aarch64.                     *)
(***************************************************************************)
EXTENDS SubtreeWide

Target(arch, neon, lanes) ==
  [arch |-> arch, big_endian |-> FALSE, neon |-> neon, lanes |-> lanes]

MCTargets ==
  {Target("x86_64", "unset", n) : n \in {4, 8, 16}}
    \cup {Target("i386", "unset", 1), Target("aarch64", "1", 1),
          Target("aarch64", "unset", 1), Target("arm", "unset", 1),
          Target("arm", "1", 1)}
    \cup {[Target("aarch64", "unset", 1) EXCEPT !.big_endian = TRUE]}
=============================================================================
