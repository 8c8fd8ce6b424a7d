---------------------------- MODULE MCJniStream ----------------------------
(* Instances of JniStream for TLC. *)
EXTENDS JniStream, TLC

MCOffsets == (-1)..(ArrayLen + 1)
MCLengths == (-1)..(ArrayLen + 1)
AllOffsets == (-1)..IntMax

\* Threads are alike.
AnyThread == Permutations(Threads)
=============================================================================
