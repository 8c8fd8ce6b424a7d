----------------------------- MODULE FfmHandles -----------------------------
(***************************************************************************)
(* The lazily initialised values of FfmBlake3.kt, by which the FFM library *)
(* reaches native code: lookup, hasherSize and the method handles, of      *)
(* which one stands for all.  Kotlin's lazy runs an initialiser under a    *)
(* lock, keeps the value it returns, and runs it again for the next reader *)
(* when it throws.  hasherSize and a handle initialise lookup from within, *)
(* and lookup runs the loader, so locks are nested.                        *)
(*                                                                         *)
(* A stream's constructor runs the loader itself first, without a lock; a  *)
(* one-shot hash does not.  Both then read hasherSize and a handle.        *)
(***************************************************************************)
EXTENDS NativeLoader

VARIABLES
  stage,          \* per thread: the value it is after, "size" or "handle"
  lock,           \* per lazy value: the thread that initialises it
  lookup,         \* lookup is initialised
  size,           \* hasherSize, or 0 while it is not initialised
  handle          \* the handle: "none" while it is not initialised, "found",
                  \* or "null" if what is kept is that there is none

ffmVars == <<stage, lock, lookup, size, handle>>
vars == <<machine, loaded, library, failed, pc, outcome, stage, lock, lookup, size, handle>>

(***************************************************************************)
(* sizeof(blake3_hasher) as the builds of the FFM library, all for 64-bit  *)
(* machines, lay it out: a field starts at a multiple of its alignment,    *)
(* and a struct ends at one of its widest.                                 *)
(***************************************************************************)
OUT_LEN == 32
BLOCK_LEN == 64
MAX_DEPTH == 54

Aligned(n, alignment) == ((n + alignment - 1) \div alignment) * alignment
Field(n, elementSize) == [bytes |-> n * elementSize, alignment |-> elementSize]

\* The fields so far, and one more behind them.
a ++ b ==
  [bytes |-> Aligned(a.bytes, b.alignment) + b.bytes,
   alignment |-> IF a.alignment < b.alignment THEN b.alignment ELSE a.alignment]
Struct(fields) == [fields EXCEPT !.bytes = Aligned(@, fields.alignment)]

blake3_chunk_state ==
  Struct(Field(8, 4) ++ Field(1, 8) ++ Field(BLOCK_LEN, 1)
           ++ Field(1, 1) ++ Field(1, 1) ++ Field(1, 1))

\* One more slot of the stack than there is room for.
blake3_hasher_Deeper ==
  Struct(Field(8, 4) ++ blake3_chunk_state ++ Field(1, 1) ++ Field((MAX_DEPTH + 2) * OUT_LEN, 1))
blake3_hasher ==
  Struct(Field(8, 4) ++ blake3_chunk_state ++ Field(1, 1) ++ Field((MAX_DEPTH + 1) * OUT_LEN, 1))

blake3_hasher_sizeof == blake3_hasher.bytes
AssumedSize == 1912

Nobody == "nobody"
Lazies == {"size", "handle", "lookup"}

Init ==
  /\ LoaderInit
  /\ stage = [t \in Threads |-> "none"]
  /\ lock = [l \in Lazies |-> Nobody]
  /\ lookup = FALSE /\ size = 0 /\ handle = "none"

Take(l, t) == lock[l] = Nobody /\ lock' = [lock EXCEPT ![l] = t]

\* Thread t is done with these locks.
Give_Keep(S, t) == lock' = [l \in Lazies |-> IF l \in S \ {"lookup"} THEN Nobody ELSE lock[l]]
Give(S, t) == lock' = [l \in Lazies |-> IF l \in S THEN Nobody ELSE lock[l]]

Ends(t, from, how) ==
  /\ Transition(t, from, "idle")
  /\ outcome' = [outcome EXCEPT ![t] = how]
  /\ stage' = [stage EXCEPT ![t] = "none"]

\* Blake3Stream(): its init block runs the loader.
NewStream(t) ==
  /\ Transition(t, "idle", "flag")
  /\ UNCHANGED <<loaderVars, outcome, ffmVars>>

\* Blake3.hash or keyedHash.
OneShot(t) ==
  /\ Transition(t, "idle", "read")
  /\ stage' = [stage EXCEPT ![t] = "size"]
  /\ UNCHANGED <<loaderVars, lock, lookup, size, handle, outcome>>

Load(t) == LoaderStep(t) /\ UNCHANGED <<outcome, ffmVars>>

\* The constructor goes on behind its loader, or rethrows.
Constructor(t) ==
  /\ stage[t] = "none"
  /\ \/ /\ Transition(t, "returned", "read")
        /\ stage' = [stage EXCEPT ![t] = "size"]
        /\ UNCHANGED outcome
     \/ Ends(t, "thrown", "reason")
  /\ UNCHANGED <<loaderVars, lock, lookup, size, handle>>

\* The value sought is read: it is there, or the thread initialises it.
Initialised(l) == IF l = "size" THEN size # 0 ELSE handle # "none"

ReadReady(t) ==
  /\ stage[t] \in {"size", "handle"} /\ Initialised(stage[t])
  /\ IF stage[t] = "size"
     THEN /\ stage' = [stage EXCEPT ![t] = "handle"]
          /\ UNCHANGED <<pc, outcome>>
          /\ pc[t] = "read"
     ELSE Ends(t, "read", IF handle = "found" THEN "done" ELSE "unlinked")
  /\ UNCHANGED <<loaderVars, lock, lookup, size, handle>>

Enter(t) ==
  /\ stage[t] \in {"size", "handle"} /\ ~Initialised(stage[t])
  /\ Transition(t, "read", "lookup")
  /\ Take(stage[t], t)
  /\ UNCHANGED <<loaderVars, stage, lookup, size, handle, outcome>>

\* Within it lookup is read, which runs the loader the first time.
ReadLookup(t) ==
  /\ IF lookup
     THEN Transition(t, "lookup", "find") /\ UNCHANGED lock
     ELSE Transition(t, "lookup", "flag") /\ Take("lookup", t)
  /\ UNCHANGED <<loaderVars, stage, lookup, size, handle, outcome>>

LookupReady(t) ==
  /\ stage[t] # "none"
  /\ Transition(t, "returned", "find")
  /\ lookup' = TRUE
  /\ Give({"lookup"}, t)
  /\ UNCHANGED <<loaderVars, stage, size, handle, outcome>>

\* The loader threw: hasherSize assumes a size, a handle's reader gets it.
LookupThrows(t) ==
  /\ \/ /\ stage[t] = "size"
        /\ Transition(t, "thrown", "read")
        /\ size' = AssumedSize
        /\ UNCHANGED <<stage, outcome>>
     \/ /\ stage[t] = "handle"
        /\ Ends(t, "thrown", "reason")
        /\ UNCHANGED size
  /\ Give({"lookup", stage[t]}, t)
  /\ UNCHANGED <<loaderVars, lookup, handle>>

\* The symbol is found when the library is there.  Asking it may throw even
\* so, of which hasherSize thinks as of a symbol that is missing.
FindSize(t) ==
  /\ stage[t] = "size"
  /\ Transition(t, "find", "read")
  /\ \/ library /\ size' = blake3_hasher_sizeof
     \/ size' = AssumedSize
  /\ Give({"size"}, t)
  /\ UNCHANGED <<loaderVars, stage, lookup, handle, outcome>>

\* What is kept of a symbol that is not found: orElseGet { throw ... } keeps
\* nothing, orElse(null), as for blake3_hasher_sizeof, would keep that.
Unfound_Null == "null"
Unfound == "none"

FindHandle(t) ==
  /\ stage[t] = "handle"
  /\ \/ /\ library
        /\ Transition(t, "find", "read")
        /\ handle' = "found"
        /\ UNCHANGED <<stage, outcome>>
     \/ /\ ~library
        /\ Ends(t, "find", "unlinked")
        /\ handle' = Unfound
  /\ Give({"handle"}, t)
  /\ UNCHANGED <<loaderVars, lookup, size>>

Step(t) ==
  \/ Load(t)
  \/ Constructor(t)
  \/ ReadReady(t)
  \/ Enter(t)
  \/ ReadLookup(t)
  \/ LookupReady(t)
  \/ LookupThrows(t)
  \/ FindSize(t)
  \/ FindHandle(t)

Next == \E t \in Threads : NewStream(t) \/ OneShot(t) \/ Step(t)

\* A thread that can go on does, and one that waits for a lock that becomes
\* free again and again gets it.
Fairness == \A t \in Threads : SF_vars(Step(t))

Spec == Init /\ [][Next]_vars /\ Fairness
-----------------------------------------------------------------------------
(***************************************************************************)
(* Once native code can be called, the segments it is given hold all of    *)
(* its blake3_hasher, although their size may have been assumed for good   *)
(* by a thread that came while another was still loading the library.      *)
(***************************************************************************)
SegmentHoldsHasher == handle = "found" => size >= blake3_hasher_sizeof
=============================================================================
