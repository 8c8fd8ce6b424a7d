---------------------------- MODULE MCFfmStream ----------------------------
(* Instances of FfmStream for TLC. *)
EXTENDS FfmStream, TLC

MCOffsets == (-1)..IntMax
MCLengths == (-1)..(ArrayLen + 1)

\* Threads are alike.
AnyThread == Permutations(Threads)
=============================================================================
