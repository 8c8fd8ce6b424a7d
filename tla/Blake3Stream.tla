---------------------------- MODULE Blake3Stream ----------------------------
(***************************************************************************)
(* What a Blake3Stream promises its callers, whichever library it is from: *)
(* between its constructor and close it answers for the bytes it was given *)
(* since the constructor or the last reset, and a call after close throws. *)
(* Which message it is shows in its mode and its length.  To callers that  *)
(* do not take turns nothing is promised.                                  *)
(***************************************************************************)
EXTENDS Integers

CONSTANTS
  Modes,      \* plain and keyed hashing
  MaxLen,     \* bound on a message's length
  NoOutput    \* no answer is in the caller's array

VARIABLES
  turns,      \* callers take turns
  lossy,      \* the virtual machine may deny native code an array
  open,       \* the stream is constructed and not closed
  mode,       \* its mode
  len,        \* bytes of the current message
  answer,     \* the answer of the last call, if it was to give one
  reply       \* how the last call ended: what it threw, or what it did and
              \* the bytes it was asked to do it with

settings == <<turns, lossy>>
vars == <<turns, lossy, open, mode, len, answer, reply>>

Init ==
  /\ {turns, lossy} \subseteq BOOLEAN
  /\ open = FALSE
  /\ mode \in Modes /\ len = 0
  /\ answer = NoOutput /\ reply = <<"none", 0>>

New(m) ==
  /\ ~open /\ open' = TRUE
  /\ mode' = m /\ len' = 0
  /\ answer' = NoOutput /\ reply' = <<"new", 0>>

Update(n) ==
  /\ open
  /\ len' = len + n
  /\ answer' = NoOutput /\ reply' = <<"update", n>>
  /\ UNCHANGED <<open, mode>>

\* A call begins: there is no answer before it has ended.
Begin == answer' = NoOutput /\ UNCHANGED <<open, mode, len, reply>>

Finalize(n) ==
  /\ open
  /\ answer' = <<mode, len>> /\ reply' = <<"finalize", n>>
  /\ UNCHANGED <<open, mode, len>>

Reset ==
  /\ open
  /\ len' = 0
  /\ answer' = NoOutput /\ reply' = <<"reset", 0>>
  /\ UNCHANGED <<open, mode>>

Close ==
  /\ open' = FALSE
  /\ answer' = NoOutput /\ reply' = <<"close", 0>>
  /\ UNCHANGED <<mode, len>>

\* A call for no bytes, or one denied its array, does nothing.
Nothing(n) ==
  /\ n <= 0 \/ lossy
  /\ answer' = NoOutput /\ reply' \in {"update", "finalize"} \X {n}
  /\ UNCHANGED <<open, mode, len>>

Throw ==
  /\ \E why \in {"bounds", "argument", "memory"} \cup (IF open THEN {} ELSE {"closed"}) :
       reply' = <<why, 0>>
  /\ answer' = NoOutput
  /\ UNCHANGED <<open, mode, len>>

\* A hash at one go, which no stream takes part in.
OneShot(m, n) ==
  /\ \/ answer' = <<m, n>>
     \/ lossy /\ answer' \in {<<m, 0>>, NoOutput}
  /\ reply' = <<"hash", n>>
  /\ UNCHANGED <<open, mode, len>>

Promised ==
  \/ \E m \in Modes : New(m) \/ \E n \in 0..MaxLen : OneShot(m, n)
  \/ \E n \in 1..MaxLen : Update(n) \/ Finalize(n)
  \/ \E n \in (-1)..MaxLen : Nothing(n)
  \/ Begin \/ Reset \/ Close \/ Throw

Next == UNCHANGED settings /\ (turns => Promised)

Spec == Init /\ [][Next]_vars
=============================================================================
