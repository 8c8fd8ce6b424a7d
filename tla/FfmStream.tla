----------------------------- MODULE FfmStream -----------------------------
(***************************************************************************)
(* Blake3Stream of the FFM library: the hasher is a segment of a shared    *)
(* arena, and both are fields that close forgets.  A downcall acquires the *)
(* arena for as long as it runs and throws when it is closed; the arena    *)
(* throws when it is closed within a downcall, which close swallows.       *)
(***************************************************************************)
EXTENDS StreamCalls

VARIABLES
  field,          \* the fields: [arena, hasherSegment], each there or null
  readable,       \* per field and thread: the values a read may give
  arena,          \* the arena: "none" yet, "open", "closed"
  denied          \* it threw when it was to be closed

streamVars == <<field, readable, arena, denied, mode, len>>
vars == <<turns, field, readable, arena, denied, mode, len, pc, call, own, answer, reply, undefined>>

There == "there"
Null == "null"
Fields == {"arena", "hasherSegment"}

\* MemorySegment.copy checks the range without overflow.
Copies(offset, length) == offset >= 0 /\ length <= ArrayLen - offset

\* t forgets what field f holds.
Forgets(t, f) ==
  /\ field' = [field EXCEPT ![f] = Null]
  /\ readable' = [readable EXCEPT ![f] = Written(t, Null, readable[f])]
  /\ UNCHANGED <<arena, denied, mode, len>>
-----------------------------------------------------------------------------
Init ==
  /\ CallsInit
  /\ field = [f \in Fields |-> Null]
  /\ readable = [f \in Fields |-> [t \in Threads |-> {Null}]]
  /\ arena = "none" /\ denied = FALSE

\* The constructors; callers hand the new object over.  One that throws
\* leaves an arena of its own behind, which no object has.
New(t, m, keySize) ==
  /\ Idle(t) /\ Allowed(t, "new")
  /\ field["arena"] = Null
  /\ \/ /\ KeyFits(m, keySize)
        /\ field' = [f \in Fields |-> There]
        /\ readable' = [f \in Fields |-> [u \in Threads |-> {There}]]
        /\ arena' = "open" /\ denied' = FALSE
        /\ mode' = m /\ len' = 0
        /\ Ends(t, "idle", "new", 0, NoOutput)
     \/ /\ KeyFits(m, keySize)
        /\ Throws(t, "idle", "memory")
        /\ UNCHANGED streamVars
     \/ /\ ~KeyFits(m, keySize)
        /\ Throws(t, "idle", "argument")
        /\ UNCHANGED streamVars

Call(t, op, offset, length) ==
  /\ arena # "none"
  /\ Begins(t, op, offset, length, IF op = "close" THEN "close" ELSE "segment")
  /\ UNCHANGED streamVars

\* hasherSegment ?: error("Blake3Stream is closed")
ReadSegment(t) ==
  /\ \/ /\ Null \in readable["hasherSegment"][t]
        /\ Throws(t, "segment", "closed")
     \/ /\ There \in readable["hasherSegment"][t]
        /\ Goes(t, "segment", IF call[t].op = "update" THEN "copy" ELSE "enter")
        /\ Stays
  /\ UNCHANGED streamVars

\* update copies its input into a temporary segment.
CopyInput(t) ==
  /\ \/ /\ Copies(call[t].offset, call[t].length)
        /\ Goes(t, "copy", "enter")
        /\ Stays
     \/ /\ ~Copies(call[t].offset, call[t].length)
        /\ Throws(t, "copy", "bounds")
     \/ Throws(t, "copy", "memory")
  /\ UNCHANGED streamVars

\* A downcall acquires the arena; before it finalize allocates its result.
Enter(t) ==
  /\ \/ /\ call[t].op = "finalize"
        /\ Throws(t, "enter", "memory")
     \/ /\ arena = "open"
        /\ Goes(t, "enter", "inside")
        /\ undefined' = Clashes(t)
        /\ UNCHANGED <<call, own, answer, reply>>
     \/ /\ arena = "closed"
        /\ Throws(t, "enter", "closed")
  /\ UNCHANGED streamVars

\* Native code is done, and the arena released.
Leave(t) ==
  /\ len' = LenAfter(t)
  /\ IF call[t].op = "finalize"
     THEN /\ Goes(t, "inside", "result")
          /\ own' = [own EXCEPT ![t] = <<mode, len>>]
          /\ UNCHANGED <<call, answer, reply, undefined>>
     ELSE Ends(t, "inside", call[t].op, call[t].length, NoOutput)
  /\ UNCHANGED <<field, readable, arena, denied, mode>>

\* finalize copies the answer into the caller's array.
CopyResult_Unchecked(t) ==
  /\ Ends(t, "result", "finalize", call[t].length, own[t])
  /\ UNCHANGED streamVars
CopyResult(t) ==
  /\ \/ /\ Copies(call[t].offset, call[t].length)
        /\ Ends(t, "result", "finalize", call[t].length, own[t])
     \/ /\ ~Copies(call[t].offset, call[t].length)
        /\ Throws(t, "result", "bounds")
  /\ UNCHANGED streamVars

\* close: currentArena is null, or is kept while both fields are forgotten.
ReadArena(t) ==
  /\ \/ /\ Null \in readable["arena"][t]
        /\ Ends(t, "close", "close", 0, NoOutput)
     \/ /\ There \in readable["arena"][t]
        /\ Goes(t, "close", "forgetSegment")
        /\ Stays
  /\ UNCHANGED streamVars

ForgetSegment(t) ==
  /\ Goes(t, "forgetSegment", "forgetArena")
  /\ Forgets(t, "hasherSegment")
  /\ Stays

ForgetArena(t) ==
  /\ Goes(t, "forgetArena", "closeArena")
  /\ Forgets(t, "arena")
  /\ Stays

\* Arena.close of a shared arena throws when it is acquired or closed.
MayClose_Anyway == TRUE
MayClose == \A u \in Threads : ~Inside(u)

\* What is closed is the arena read at first, although the field is null.
Closed_Field == IF field["arena"] = There THEN "closed" ELSE arena
Closed == "closed"

CloseArena(t) ==
  /\ IF MayClose THEN arena' = Closed /\ UNCHANGED denied
     ELSE denied' = TRUE /\ UNCHANGED arena
  /\ Ends(t, "closeArena", "close", 0, NoOutput)
  /\ UNCHANGED <<field, readable, mode, len>>

\* Blake3.hash and keyedHash, in memory of their own.
OneShot(t, m, keySize, size, outLen) ==
  /\ IF size > 0 /\ outLen > 0 /\ KeyFits(m, keySize)
     THEN Ends(t, "idle", "hash", size, <<m, size>>)
     ELSE Throws(t, "idle", "argument")
  /\ UNCHANGED streamVars
-----------------------------------------------------------------------------
Next ==
  /\ ~undefined
  /\ UNCHANGED turns
  /\ \E t \in Threads :
       \/ \E m \in Modes, keySize \in KeySizes :
            \/ New(t, m, keySize)
            \/ \E size \in 0..ArrayLen, outLen \in 0..1 : OneShot(t, m, keySize, size, outLen)
       \/ \E op \in {"update", "finalize"}, offset \in Offsets, length \in Lengths :
            Call(t, op, offset, length)
       \/ \E op \in {"reset", "close"} : Call(t, op, 0, 0)
       \/ ReadSegment(t) \/ CopyInput(t) \/ Enter(t) \/ Leave(t) \/ CopyResult(t)
       \/ ReadArena(t) \/ ForgetSegment(t) \/ ForgetArena(t) \/ CloseArena(t)

Spec == Init /\ [][Next]_vars
-----------------------------------------------------------------------------
\* The types of the fields, the arena and the threads' calls.
TypeOK ==
  /\ CallsTypeOK
  /\ field \in [Fields -> {There, Null}]
  /\ readable \in [Fields -> [Threads -> SUBSET {There, Null}]]
  /\ arena \in {"none", "open", "closed"}
  /\ denied \in BOOLEAN
  /\ pc \in [Threads -> {"idle", "segment", "copy", "enter", "inside", "result", "close",
                         "forgetSegment", "forgetArena", "closeArena"}]

(***************************************************************************)
(* Whatever threads do at once, a hasher that native code is in is not     *)
(* freed under it: a close that comes too early is denied.  And no call of *)
(* callers that take turns changes it there.  (With the types.)            *)
(***************************************************************************)
OpenWhileInside ==
  /\ TypeOK
  /\ (\E t \in Threads : Inside(t)) => arena = "open"
  /\ turns => ~undefined

(***************************************************************************)
(* Once the arena is forgotten and no close is under way the memory is     *)
(* released, unless the arena refused to close; and with callers that take *)
(* turns it never does.                                                    *)
(***************************************************************************)
Closing(t) == pc[t] \in {"forgetSegment", "forgetArena", "closeArena"}
Released ==
  /\ field["arena"] = Null /\ arena = "open" /\ (\A t \in Threads : ~Closing(t)) => denied
  /\ turns => ~denied

(***************************************************************************)
(* Two checks guard the caller's array: the sum, which may wrap, when the  *)
(* call begins, and MemorySegment.copy, for finalize after native code has *)
(* run.  Together they do what a check of the range would.  Of an array    *)
(* that does not have it nothing is hashed by update and no answer given   *)
(* by finalize; and a range that the array has is not refused half-way.    *)
(***************************************************************************)
Answered(t, how) == pc[t] # "idle" /\ pc'[t] = "idle" /\ reply'[1] = how
RangeInArray ==
  [][\A t \in Threads :
       /\ call[t].op = "update" /\ pc'[t] = "inside" => InArray(t)
       /\ call[t].op \in {"update", "finalize"} /\ Answered(t, call[t].op) => InArray(t)
       /\ Answered(t, "bounds") => ~InArray(t)]_vars

\* The stream keeps its promise; the virtual machine denies no arrays here.
Promise == INSTANCE Blake3Stream WITH open <- arena = "open", lossy <- FALSE
ImplementsStream == Promise!Spec
=============================================================================
