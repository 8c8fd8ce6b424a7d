----------------------------- MODULE JniStream -----------------------------
(***************************************************************************)
(* Blake3Stream of the Kotlin Multiplatform library (jniMain) and the      *)
(* native side it calls (Blake3Kmp.c): a blake3_hasher from malloc, whose  *)
(* address the object keeps in hasherPtr until close frees it.             *)
(*                                                                         *)
(* A call is a step per read or write of hasherPtr, which is an ordinary   *)
(* field, and per call of the Java Native Interface; native code is inside *)
(* the hasher from one step to the next.                                   *)
(***************************************************************************)
EXTENDS StreamCalls

CONSTANT CriticalFails  \* whether GetPrimitiveArrayCritical may give NULL: a
                        \* set of Booleans
ASSUME CriticalAssumption == CriticalFails \subseteq BOOLEAN

VARIABLES
  lossy,          \* it may
  hasherPtr,      \* the field: the hasher's address, or 0
  readable,       \* per thread: the values a read of hasherPtr may give
  heap            \* the memory behind the address: "none", "live", "freed"

streamVars == <<hasherPtr, readable, heap, mode, len>>
vars == <<turns, lossy, hasherPtr, readable, heap, mode, len, pc, call, own, answer, reply, undefined>>

Address == 1
Opened(t) == Address \in readable[t]
Shut(t) == 0 \in readable[t]
-----------------------------------------------------------------------------
Init ==
  /\ CallsInit
  /\ lossy \in CriticalFails
  /\ hasherPtr = 0
  /\ readable = [t \in Threads |-> {0}]
  /\ heap = "none"

(***************************************************************************)
(* The constructors, which no other thread sees the object of: a key of    *)
(* another size is refused, and so is the address 0 of a failed malloc.    *)
(***************************************************************************)
New(t, m, keySize) ==
  /\ Idle(t) /\ Allowed(t, "new")
  /\ hasherPtr = 0
  /\ \/ /\ KeyFits(m, keySize)
        /\ hasherPtr' = Address
        /\ readable' = [u \in Threads |-> {Address}]
        /\ heap' = "live"
        /\ mode' = m /\ len' = 0
        /\ Ends(t, "idle", "new", 0, NoOutput)
     \/ /\ Throws(t, "idle", "memory")
        /\ KeyFits(m, keySize)
        /\ UNCHANGED streamVars
     \/ /\ Throws(t, "idle", "argument")
        /\ ~KeyFits(m, keySize)
        /\ UNCHANGED streamVars

\* A call of an object that was constructed: its arguments are checked.
Call(t, op, offset, length) ==
  /\ heap # "none"
  /\ Begins(t, op, offset, length, IF op = "close" THEN "close" ELSE "check")
  /\ UNCHANGED streamVars

\* check(hasherPtr != 0L) { "Blake3Stream has been closed" }
Check(t) ==
  /\ \/ /\ Shut(t)
        /\ Throws(t, "check", "closed")
     \/ /\ Opened(t)
        /\ Goes(t, "check", "pass")
        /\ Stays
  /\ UNCHANGED streamVars

\* The field is read again and passed on; for 0 native code returns at once.
Pass(t) ==
  /\ \/ /\ Shut(t)
        /\ Ends(t, "pass", call[t].op, call[t].length, NoOutput)
     \/ /\ Opened(t)
        /\ Goes(t, "pass", IF call[t].op = "reset" THEN "enter" ELSE "array")
        /\ Stays
  /\ UNCHANGED streamVars

\* GetPrimitiveArrayCritical; without the array the call returns.
GetArray(t) ==
  /\ \/ /\ Goes(t, "array", "enter")
        /\ Stays
     \/ /\ lossy
        /\ Ends(t, "array", call[t].op, call[t].length, NoOutput)
  /\ UNCHANGED streamVars

\* Native code enters the hasher and the array.
Enter(t) ==
  /\ Goes(t, "enter", "inside")
  /\ undefined' = (heap # "live" \/ Clashes(t) \/ ~InArray(t))
  /\ UNCHANGED <<streamVars, call, own, answer, reply>>

\* It leaves the hasher, and the array is released.
Leave(t) ==
  /\ Ends(t, "inside", call[t].op, call[t].length,
          IF call[t].op = "finalize" THEN <<mode, len>> ELSE NoOutput)
  /\ len' = LenAfter(t)
  /\ UNCHANGED <<hasherPtr, readable, heap, mode>>

\* close: if (hasherPtr != 0L)
CheckClose(t) ==
  /\ \/ /\ Shut(t)
        /\ Ends(t, "close", "close", 0, NoOutput)
     \/ /\ Opened(t)
        /\ Goes(t, "close", "free")
        /\ Stays
  /\ UNCHANGED streamVars

\* freeHasher is given the field, read again, and frees it unless it is 0.
Freed_Never(value) == heap
Freed(value) == IF value = 0 THEN heap ELSE "freed"

Free(t) ==
  \E value \in readable[t] :
    /\ Goes(t, "free", "forget")
    /\ heap' = Freed(value)
    /\ undefined' = (value # 0 /\ (heap # "live" \/ \E u \in Threads : Inside(u)))
    /\ UNCHANGED <<hasherPtr, readable, mode, len, call, own, answer, reply>>

\* hasherPtr = 0L
Forgotten_Kept == Address
Forgotten == 0

Forget(t) ==
  /\ hasherPtr' = Forgotten
  /\ readable' = Written(t, Forgotten, readable)
  /\ Ends(t, "forget", "close", 0, NoOutput)
  /\ UNCHANGED <<heap, mode, len>>
-----------------------------------------------------------------------------
\* Blake3.hash and keyedHash: their arguments are checked, and the native
\* function initialises a hasher of its own.
StartsHash(t, m, size) ==
  /\ Goes(t, "idle", "hash")
  /\ call' = [call EXCEPT ![t] = [op |-> "hash", offset |-> 0, length |-> size]]
  /\ own' = [own EXCEPT ![t] = <<m, 0>>]
  /\ answer' = NoOutput
  /\ UNCHANGED <<reply, undefined>>

Hash(t, size, outLen) ==
  /\ IF outLen > 0 THEN StartsHash(t, "plain", size) ELSE Throws(t, "idle", "argument")
  /\ UNCHANGED streamVars

KeyedHash(t, keySize, size, outLen) ==
  /\ IF keySize = KEY_LEN /\ outLen > 0 THEN StartsHash(t, "keyed", size)
     ELSE Throws(t, "idle", "argument")
  /\ UNCHANGED streamVars

\* The input, if there is any, goes into it; without its array nothing does.
HashInput(t) ==
  /\ Goes(t, "hash", "output")
  /\ \/ own' = [own EXCEPT ![t] = <<own[t][1], call[t].length>>]
     \/ call[t].length = 0 /\ UNCHANGED own
     \/ lossy /\ UNCHANGED own
  /\ UNCHANGED <<streamVars, call, answer, reply, undefined>>

HashOutput(t) ==
  /\ \/ Ends(t, "output", "hash", call[t].length, own[t])
     \/ lossy /\ Ends(t, "output", "hash", call[t].length, NoOutput)
  /\ UNCHANGED streamVars
-----------------------------------------------------------------------------
Next ==
  /\ ~undefined
  /\ UNCHANGED <<turns, lossy>>
  /\ \E t \in Threads :
       \/ \E m \in Modes, keySize \in KeySizes : New(t, m, keySize)
       \/ \E size \in 0..ArrayLen, outLen \in 0..1 :
            \/ Hash(t, size, outLen)
            \/ \E keySize \in KeySizes : KeyedHash(t, keySize, size, outLen)
       \/ \E op \in {"update", "finalize"}, offset \in Offsets, length \in Lengths :
            Call(t, op, offset, length)
       \/ \E op \in {"reset", "close"} : Call(t, op, 0, 0)
       \/ Check(t) \/ Pass(t) \/ GetArray(t) \/ Enter(t) \/ Leave(t)
       \/ CheckClose(t) \/ Free(t) \/ Forget(t)
       \/ HashInput(t) \/ HashOutput(t)

Spec == Init /\ [][Next]_vars
-----------------------------------------------------------------------------
\* The types.
TypeOK ==
  /\ CallsTypeOK
  /\ lossy \in BOOLEAN
  /\ hasherPtr \in {0, Address}
  /\ readable \in [Threads -> SUBSET {0, Address}]
  /\ heap \in {"none", "live", "freed"}
  /\ pc \in [Threads -> {"idle", "check", "pass", "array", "enter", "inside", "close",
                         "free", "forget", "hash", "output"}]

(***************************************************************************)
(* Where callers take turns, whatever calls come after a close, a second   *)
(* close among them: nothing is freed twice, and native code is in no      *)
(* hasher that is freed or that another thread is changing, and in no      *)
(* element that the caller's array does not have.                          *)
(***************************************************************************)
AlwaysDefined == TypeOK /\ (turns => ~undefined)

\* No hasher is lost, whoever calls what at once: a stream that lets go of
\* its address has freed it.
FreedWhenClosed == hasherPtr = 0 => heap # "live"

(***************************************************************************)
(* Native code is given no element that the caller's array does not have:  *)
(* it has the bounds from Kotlin, whose check is to refuse such calls      *)
(* ("Index out of bounds"), and checks nothing itself.                     *)
(***************************************************************************)
RangeInArray ==
  \A t \in Threads : pc[t] \in {"check", "pass", "array", "enter", "inside"} => InArray(t)

(***************************************************************************)
(* The stream keeps its promise to callers that take turns: no call is     *)
(* half done, a call for bytes takes them all or throws, an answer is for  *)
(* all bytes that were taken, and no call but close passes in silence when *)
(* the stream is closed.                                                   *)
(***************************************************************************)
Promise == INSTANCE Blake3Stream WITH open <- hasherPtr # 0
ImplementsStream == Promise!Spec
=============================================================================
