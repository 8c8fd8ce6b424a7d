----------------------------- MODULE Blake3Hash -----------------------------
(***************************************************************************)
(* What a BLAKE3 hasher promises its caller: whatever the lengths of the   *)
(* updates a message is fed in, finalize answers with the tree of the      *)
(* whole message under the hasher's mode, and leaves the hasher ready for  *)
(* more input.  Every call is one atomic step here.                        *)
(***************************************************************************)
EXTENDS Blake3Tree

CONSTANTS
  NoOutput    \* no answer is in the caller's output buffer

VARIABLES
  mode,       \* the mode of the hasher
  len,        \* bytes of the current message accepted so far
  result      \* the answer of the last call, if it was a finalize

vars == <<mode, len, result>>

Init ==
  /\ mode \in Modes
  /\ len = 0
  /\ result = NoOutput

\* blake3_hasher_init, blake3_hasher_init_keyed, ... on the same memory.
Start(m) ==
  /\ mode' = m
  /\ len' = 0
  /\ result' = NoOutput

Update(n) ==
  /\ len + n <= MaxLen
  /\ len' = len + n
  /\ result' = NoOutput
  /\ UNCHANGED mode

\* finalize is called: the caller's buffer holds no answer until it returns.
BeginFinalize ==
  /\ result' = NoOutput
  /\ UNCHANGED <<mode, len>>

Finalize ==
  /\ result' = RefOutput(mode, len)
  /\ UNCHANGED <<mode, len>>

\* reset starts a new message in the same mode.
Reset ==
  /\ len' = 0
  /\ result' = NoOutput
  /\ UNCHANGED mode

Next ==
  \/ \E m \in Modes : Start(m)
  \/ \E n \in 1..MaxLen : Update(n)
  \/ BeginFinalize
  \/ Finalize
  \/ Reset

Spec == Init /\ [][Next]_vars
=============================================================================
