--------------------------- MODULE MCBlake3Hasher ---------------------------
(***************************************************************************)
(* Blake3Hasher on messages of up to MaxLen bytes in chunks of CHUNK_LEN.  *)
(* With MaxLen = CHUNK_LEN * 2^MAX_DEPTH - 1 the bound on the message is   *)
(* to these chunks what 2^64 - 1 bytes is to chunks of 1024 bytes and a    *)
(* depth of 54.                                                            *)
(***************************************************************************)
EXTENDS Blake3Hasher

\* Blake3Tree's divisor-based definition is the usual set of powers of two.
ASSUME Pow2IsPowersOfTwo ==
  /\ Pow2 = {p \in {2^k : k \in 0..30} : p <= MaxLen}
  /\ MaxLen = CHUNK_LEN * 2^MAX_DEPTH - 1
=============================================================================
