---------------------------- MODULE StreamCalls ----------------------------
(***************************************************************************)
(* The calls of a Blake3Stream object, which JniStream and FfmStream have  *)
(* in common: threads that run them, and the checks of the arguments.      *)
(*                                                                         *)
(* What callers run at the same time is fixed for a behaviour: those that  *)
(* take turns share finalize, which leaves the hasher as it is, and run    *)
(* every other call alone, handing the object over with some lock, as all  *)
(* do with a new object; others share every operation.  Then nothing       *)
(* orders a thread's reads of the object's fields behind another's writes: *)
(* it may read any value that a field has had since its own last write.    *)
(*                                                                         *)
(* Native code that goes where it must not may do anything; the model      *)
(* stops there.                                                            *)
(***************************************************************************)
EXTENDS Integers, FiniteSetsExt

CONSTANTS
  Threads,
  TakeTurns,      \* whether callers take turns: a set of Booleans
  Modes,          \* "plain" and "keyed"
  KeySizes, KEY_LEN,
  ArrayLen,       \* elements in the caller's arrays
  Offsets, Lengths,
  IntMax,         \* the largest Int (2^31 - 1 in the code)
  MaxLen,         \* bound on the bytes of a message and of all updates under way
  NoOutput

ASSUME CallsAssumption ==
  /\ TakeTurns \subseteq BOOLEAN
  /\ Offsets \subseteq Int /\ Lengths \subseteq Int
  /\ ArrayLen \in Nat /\ MaxLen \in Nat
  /\ {"plain", "keyed"} \subseteq Modes

VARIABLES
  turns,          \* callers take turns
  mode, len,      \* the hasher: its mode, and the length of its message
  pc, call,       \* per thread: where its call is, and its arguments
  own,            \* per thread: what its call has in memory of its own
  answer, reply,  \* what the last call that ended answered, and how it ended
  undefined       \* native code went where it must not

Ops == {"update", "finalize", "reset", "close"}
NoCall == [op |-> "none", offset |-> 0, length |-> 0]
Answers == Modes \X Nat

CallsInit ==
  /\ turns \in TakeTurns
  /\ mode \in Modes /\ len = 0
  /\ pc = [t \in Threads |-> "idle"]
  /\ call = [t \in Threads |-> NoCall]
  /\ own = [t \in Threads |-> <<>>]
  /\ answer = NoOutput /\ reply = <<"none", 0>>
  /\ undefined = FALSE

Idle(t) == pc[t] = "idle"
Inside(u) == pc[u] = "inside"
Goes(t, from, to) == pc[t] = from /\ pc' = [pc EXCEPT ![t] = to]
Stays == UNCHANGED <<call, own, answer, reply, undefined>>

\* Thread t's call is over.
Ends(t, from, how, n, ans) ==
  /\ Goes(t, from, "idle")
  /\ call' = [call EXCEPT ![t] = NoCall]
  /\ own' = [own EXCEPT ![t] = <<>>]
  /\ reply' = <<how, n>>
  /\ answer' = ans
  /\ UNCHANGED undefined

Throws(t, from, why) == Ends(t, from, why, 0, NoOutput)

\* Operations callers run at the same time as others of these.
Shared == IF turns THEN {"finalize"} ELSE Ops

\* Callers let t run this operation of the stream now.
Allowed(t, op) ==
  \A u \in Threads \ {t} :
    call[u].op \in {"none", "hash"} \/ {op, call[u].op} \subseteq Shared

\* The values threads may read once t has written this one, and before.
Written(t, value, before) ==
  [u \in Threads |-> IF u = t \/ turns THEN {value} ELSE before[u] \cup {value}]

\* A native call of t meets one of another thread, and one changes the hasher.
Clashes(t) == \E u \in Threads : Inside(u) /\ {call[t].op, call[u].op} # {"finalize"}

\* The call's bytes are elements of the caller's array.
InArray(t) == call[t].offset >= 0 /\ call[t].offset + call[t].length <= ArrayLen

KeyFits(m, keySize) == m = "keyed" => keySize = KEY_LEN

AsInt(n) == ((n + IntMax + 1) % (2 * IntMax + 2)) - IntMax - 1

\* if (length <= 0) return
NoBytes(op, length) == op \in {"update", "finalize"} /\ length <= 0

\* offset >= 0 && offset + length <= input.size
InBounds(offset, length) == offset >= 0 /\ AsInt(offset + length) <= ArrayLen

\* The bytes of the updates under way.
Awaited == MapThenSumSet(LAMBDA u : call[u].length, {u \in Threads : call[u].op = "update"})

\* A call begins: it returns or throws for its arguments, or goes on.
Begins(t, op, offset, length, to) ==
  /\ Idle(t) /\ Allowed(t, op)
  /\ IF NoBytes(op, length) THEN Ends(t, "idle", op, length, NoOutput)
     ELSE IF op \in {"update", "finalize"} /\ ~InBounds(offset, length)
     THEN Throws(t, "idle", "bounds")
     ELSE /\ op = "update" => len + length + Awaited <= MaxLen    \* bound of the model
          /\ Goes(t, "idle", to)
          /\ call' = [call EXCEPT ![t] = [op |-> op, offset |-> offset, length |-> length]]
          /\ answer' = NoOutput
          /\ UNCHANGED <<own, reply, undefined>>

\* What native code has made of the hasher when it leaves it.
LenAfter_Kept(t) == IF call[t].op = "update" THEN len + call[t].length ELSE len
LenAfter(t) ==
  CASE call[t].op = "update"   -> len + call[t].length
    [] call[t].op = "reset"    -> 0
    [] OTHER                   -> len

CallsTypeOK ==
  /\ turns \in BOOLEAN
  /\ mode \in Modes /\ len \in Nat
  /\ \A t \in Threads :
       /\ call[t].op \in Ops \cup {"none", "hash"}
       /\ own[t] \in {<<>>} \cup Answers
  /\ answer \in {NoOutput} \cup Answers
=============================================================================
