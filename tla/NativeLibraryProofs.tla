------------------------- MODULE NativeLibraryProofs -------------------------
(***************************************************************************)
(* Proofs about NativeLibrary, for any set of threads, every variant of    *)
(* the loader and every machine.                                           *)
(*                                                                         *)
(* The invariant has a part for the loader, which is the same whoever runs *)
(* it, and one for each of the two kinds of threads around it.             *)
(***************************************************************************)
EXTENDS NativeLibrary, TLAPS

Places == {"idle", "flag", "returned", "thrown", "read", "lookup", "find"} \cup Loading

LoaderTypes ==
  /\ loaded \in BOOLEAN /\ library \in BOOLEAN /\ failed \in BOOLEAN
  /\ pc \in [Threads -> Places]

\* Whoever is behind the flag has set it, and who has an exception failed.
Flagged ==
  /\ library \/ failed => loaded
  /\ \A t \in Threads : pc[t] \in Loading \cup {"returned", "thrown"} => loaded
  /\ \A t \in Threads : pc[t] = "thrown" => failed

LoaderInv == LoaderTypes /\ OneAttempt /\ Flagged

\* What native code that ran says of the library.
Outcomes ==
  /\ outcome \in [Threads -> {"none", "done", "unlinked", "reason"}]
  /\ \A t \in Threads : outcome[t] = "done" => library

\* Once the flag is set there is the library, or someone who loads it or is
\* about to tell why not, or who was told.
Explained ==
  \/ library
  \/ \E u \in Threads : pc[u] \in Loading \cup {"thrown"}
  \/ told

JniInv ==
  /\ told \in BOOLEAN
  /\ \A t \in Threads : outcome[t] = "unlinked" => loaded
  /\ loaded => Explained

\* A thread is after a handle, and has one kept, when hasherSize is known.
FfmInv ==
  /\ stage \in [Threads -> {"none", "size", "handle"}]
  /\ size \in {0, AssumedSize, blake3_hasher_sizeof}
  /\ \A t \in Threads : stage[t] = "handle" => size # 0
  /\ handle \in {"none", "found"}
  /\ handle = "found" => size # 0 /\ library

IInv ==
  /\ LoaderInv
  /\ Outcomes
  /\ machine.variant # "ffm" => JniInv
  /\ FfmInv
-----------------------------------------------------------------------------
(***************************************************************************)
(* The loader.                                                             *)
(***************************************************************************)
\* A step of the loader passes the flag, goes on, ends with the library, or
\* ends with an exception.
LEMMA LoaderKinds ==
  ASSUME NEW t \in Threads, LoaderStep(t)
  PROVE  \/ GetAndSet(t)
         \/ \E from, to \in Loading : Transition(t, from, to) /\ UNCHANGED loaderVars
         \/ \E from \in Loading : Loads(t, from)
         \/ \E from \in Loading : Throws(t, from)
<1>1. CASE GetAndSet(t)
  BY <1>1
<1>2. CASE LoadLibrary(t)
  BY <1>2 DEF LoadLibrary, Loading
<1>3. CASE CheckOs(t)
  BY <1>3 DEF CheckOs, Loading
<1>4. CASE FindResource(t)
  BY <1>4 DEF FindResource, Loading
<1>5. CASE Extract(t)
  BY <1>5 DEF Extract, Loading
<1>6. CASE SystemLoad(t)
  BY <1>6 DEF SystemLoad, Loading
<1> QED
  BY <1>1, <1>2, <1>3, <1>4, <1>5, <1>6 DEF LoaderStep

\* The loader of JniCalls is this one.
LEMMA SameLoader ==
  ASSUME NEW t \in Threads, Jni!LoaderStep(t)
  PROVE  LoaderStep(t)
BY DEF Jni!LoaderStep, Jni!GetAndSet, Jni!LoadLibrary, Jni!CheckOs, Jni!FindResource,
       Jni!Extract, Jni!SystemLoad, Jni!Transition, Jni!Throws, Jni!Loads, Jni!FirstStep,
       Jni!loaderVars,
       LoaderStep, GetAndSet, LoadLibrary, CheckOs, FindResource, Extract, SystemLoad,
       Transition, Throws, Loads, FirstStep, loaderVars

\* The loader's part of the invariant, and that the flag and the library stay.
\* Its callers are told nothing by it, so that there is always an explanation.
LEMMA LoaderKeeps ==
  ASSUME LoaderInv, NEW t \in Threads, LoaderStep(t)
  PROVE  /\ LoaderInv'
         /\ UNCHANGED machine
         /\ loaded => loaded'
         /\ library => library'
         /\ (loaded => Explained) /\ UNCHANGED told => (loaded' => Explained')
<1> USE DEF LoaderInv
<1>1. CASE GetAndSet(t)
  <2> DEFINE next == IF loaded THEN "returned" ELSE FirstStep
  <2>1. FirstStep \in Loading
    BY DEF FirstStep, Loading
  <2>2. /\ pc[t] = "flag" /\ loaded'
        /\ UNCHANGED <<machine, library, failed>>
        /\ pc' = [pc EXCEPT ![t] = next]
        /\ \A u \in Threads : pc'[u] = IF u = t THEN next ELSE pc[u]
    BY <1>1 DEF GetAndSet, Transition, LoaderTypes
  <2>3. LoaderTypes'
    <3>1. next \in Places
      BY <2>1 DEF Places
    <3> HIDE DEF next
    <3> QED
      BY <1>1, <2>2, <3>1 DEF GetAndSet, LoaderTypes
  <2>4. Flagged'
    <3>1. next # "thrown"
      BY <2>1 DEF Loading
    <3> HIDE DEF next
    <3> QED
      BY <2>2, <3>1 DEF Flagged
  <2>5. CASE loaded
    <3>1. next = "returned"
      BY <2>5
    <3>2. OneAttempt'
      BY <2>2, <3>1 DEF OneAttempt, Loading
    <3>3. Explained /\ UNCHANGED told => Explained'
      BY <2>2, <2>5 DEF Explained, Loading
    <3> QED
      BY <2>2, <2>3, <2>4, <2>5, <3>2, <3>3
  <2>6. CASE ~loaded
    <3>1. ~library /\ ~failed /\ \A u \in Threads : pc[u] \notin Loading
      BY <2>6 DEF Flagged
    <3>2. OneAttempt'
      BY <2>2, <3>1 DEF OneAttempt
    <3>3. next \in Loading
      BY <2>1, <2>6
    <3> HIDE DEF next
    <3>4. Explained'
      BY <2>2, <3>3 DEF Explained
    <3> QED
      BY <2>2, <2>3, <2>4, <2>6, <3>2, <3>4
  <2> QED
    BY <2>5, <2>6 DEF LoaderTypes
<1>2. ASSUME NEW from \in Loading, NEW to \in Loading,
             Transition(t, from, to), UNCHANGED loaderVars
      PROVE  LoaderInv' /\ Explained' /\ UNCHANGED <<machine, loaded, library>>
  <2>1. /\ pc[t] \in Loading
        /\ UNCHANGED <<machine, loaded, library, failed>>
        /\ pc' = [pc EXCEPT ![t] = to]
        /\ \A u \in Threads : pc'[u] = IF u = t THEN to ELSE pc[u]
    BY <1>2 DEF Transition, LoaderTypes, loaderVars
  <2>2. LoaderTypes'
    BY <2>1 DEF LoaderTypes, Places
  <2>3. Flagged'
    BY <2>1 DEF Flagged, Loading
  <2>4. OneAttempt'
    BY <2>1 DEF OneAttempt
  <2>5. Explained'
    BY <2>1 DEF Explained
  <2> QED
    BY <2>1, <2>2, <2>3, <2>4, <2>5
<1>3. ASSUME NEW from \in Loading, Loads(t, from)
      PROVE  LoaderInv' /\ Explained' /\ UNCHANGED <<machine, loaded>> /\ library'
  <2>1. /\ pc[t] \in Loading /\ library'
        /\ UNCHANGED <<machine, loaded, failed>>
        /\ pc' = [pc EXCEPT ![t] = "returned"]
        /\ \A u \in Threads : pc'[u] = IF u = t THEN "returned" ELSE pc[u]
    BY <1>3 DEF Loads, Transition, LoaderTypes
  <2>2. LoaderTypes'
    BY <1>3, <2>1 DEF Loads, LoaderTypes, Places
  <2>3. Flagged'
    BY <2>1 DEF Flagged
  <2>4. OneAttempt'
    BY <2>1 DEF OneAttempt, Loading
  <2> QED
    BY <2>1, <2>2, <2>3, <2>4 DEF Explained
<1>4. ASSUME NEW from \in Loading, Throws(t, from)
      PROVE  LoaderInv' /\ Explained' /\ UNCHANGED <<machine, loaded, library>>
  <2>1. /\ pc[t] \in Loading /\ failed'
        /\ UNCHANGED <<machine, loaded, library>>
        /\ pc' = [pc EXCEPT ![t] = "thrown"]
        /\ \A u \in Threads : pc'[u] = IF u = t THEN "thrown" ELSE pc[u]
    BY <1>4 DEF Throws, Transition, LoaderTypes
  <2>2. LoaderTypes'
    BY <1>4, <2>1 DEF Throws, LoaderTypes, Places
  <2>3. Flagged'
    BY <2>1 DEF Flagged
  <2>4. OneAttempt'
    BY <2>1 DEF OneAttempt, Loading
  <2> QED
    BY <2>1, <2>2, <2>3, <2>4 DEF Explained
<1> QED
  BY <1>1, <1>2, <1>3, <1>4, LoaderKinds

\* No call ends within the loader.
LEMMA LoaderNotIdle ==
  ASSUME pc \in [Threads -> Places], NEW t \in Threads, LoaderStep(t),
         NEW u \in Threads, pc[u] # "idle"
  PROVE  pc'[u] # "idle"
<1>1. \A to \in Loading \cup {"returned", "thrown"} : to # "idle"
  BY DEF Loading
<1>2. \E from, to : Transition(t, from, to) /\ to \in Loading \cup {"returned", "thrown"}
  BY LoaderKinds DEF GetAndSet, FirstStep, Loads, Throws, Loading
<1> QED
  BY <1>1, <1>2 DEF Transition

\* A thread that is not in the loader may go anywhere but into it.
LEMMA MoveKeeps ==
  ASSUME LoaderInv, NEW t \in Threads, NEW from \in Places \ Loading,
         NEW to \in {"idle", "flag", "read", "lookup", "find"},
         Transition(t, from, to), UNCHANGED loaderVars
  PROVE  /\ LoaderInv'
         /\ UNCHANGED <<machine, loaded, library>>
         /\ pc[t] = from
         /\ \A u \in Threads : pc'[u] = IF u = t THEN to ELSE pc[u]
<1>1. /\ pc[t] = from
      /\ UNCHANGED <<machine, loaded, library, failed>>
      /\ pc' = [pc EXCEPT ![t] = to]
      /\ \A u \in Threads : pc'[u] = IF u = t THEN to ELSE pc[u]
  BY DEF LoaderInv, LoaderTypes, Transition, loaderVars
<1>2. to \in Places /\ to \notin Loading /\ to \notin {"returned", "thrown"}
  BY DEF Places, Loading
<1>3. LoaderTypes'
  BY <1>1, <1>2 DEF LoaderInv, LoaderTypes
<1>4. OneAttempt' /\ Flagged'
  BY <1>1, <1>2 DEF LoaderInv, OneAttempt, Flagged
<1> QED
  BY <1>1, <1>3, <1>4 DEF LoaderInv
-----------------------------------------------------------------------------
(***************************************************************************)
(* The threads of JniCalls.                                                *)
(***************************************************************************)
\* They keep it, as long as their own part held.
LEMMA JniKeeps ==
  ASSUME LoaderInv, Outcomes, JniInv, Jni!Next
  PROVE  LoaderInv' /\ Outcomes' /\ JniInv' /\ UNCHANGED machine /\ (library => library')
<1>1. ASSUME NEW t \in Threads, Jni!Call(t)
      PROVE  LoaderInv' /\ Outcomes' /\ JniInv' /\ UNCHANGED machine /\ (library => library')
  <2>1. Transition(t, "idle", "flag") /\ UNCHANGED <<loaderVars, outcome, told>>
    BY <1>1 DEF Jni!Call, Jni!Transition, Transition, Jni!loaderVars, loaderVars
  <2>2. "idle" \in Places \ Loading
    BY DEF Places, Loading
  <2>3. /\ LoaderInv' /\ UNCHANGED <<machine, loaded, library, outcome, told>>
        /\ pc[t] = "idle"
        /\ \A u \in Threads : pc'[u] = IF u = t THEN "flag" ELSE pc[u]
    BY <2>1, <2>2, MoveKeeps
  <2>4. Outcomes'
    BY <2>3 DEF Outcomes
  <2>5. JniInv'
    BY <2>3 DEF JniInv, Explained, Loading
  <2> QED
    BY <2>3, <2>4, <2>5
<1>2. ASSUME NEW t \in Threads, Jni!Load(t)
      PROVE  LoaderInv' /\ Outcomes' /\ JniInv' /\ UNCHANGED machine /\ (library => library')
  <2>1. LoaderStep(t) /\ UNCHANGED <<outcome, told>>
    BY <1>2, SameLoader DEF Jni!Load
  <2>2. /\ LoaderInv' /\ UNCHANGED machine
        /\ loaded => loaded'
        /\ library => library'
        /\ loaded' => Explained'
    BY <2>1, LoaderKeeps DEF JniInv
  <2>3. Outcomes'
    BY <2>1, <2>2 DEF Outcomes
  <2>4. JniInv'
    BY <2>1, <2>2 DEF JniInv
  <2> QED
    BY <2>2, <2>3, <2>4
<1>3. ASSUME NEW t \in Threads, Jni!NativeCall(t)
      PROVE  LoaderInv' /\ Outcomes' /\ JniInv' /\ UNCHANGED machine /\ (library => library')
  <2>1. /\ Transition(t, "returned", "idle") /\ UNCHANGED <<loaderVars, told>>
        /\ outcome' = [outcome EXCEPT ![t] = IF library THEN "done" ELSE "unlinked"]
    BY <1>3 DEF Jni!NativeCall, Jni!Transition, Transition, Jni!loaderVars, loaderVars
  <2>2. "returned" \in Places \ Loading
    BY DEF Places, Loading
  <2>3. /\ LoaderInv' /\ UNCHANGED <<machine, loaded, library, told>>
        /\ pc[t] = "returned"
        /\ \A u \in Threads : pc'[u] = IF u = t THEN "idle" ELSE pc[u]
    BY <2>1, <2>2, MoveKeeps
  <2>4. loaded
    BY <2>3 DEF LoaderInv, Flagged
  <2>5. Outcomes'
    BY <2>1, <2>3 DEF Outcomes
  <2>6. JniInv'
    BY <2>3, <2>4 DEF JniInv, Explained, Loading
  <2> QED
    BY <2>3, <2>5, <2>6
<1>4. ASSUME NEW t \in Threads, Jni!Rethrow(t)
      PROVE  LoaderInv' /\ Outcomes' /\ JniInv' /\ UNCHANGED machine /\ (library => library')
  <2>1. /\ Transition(t, "thrown", "idle") /\ UNCHANGED loaderVars /\ told'= TRUE
        /\ outcome' = [outcome EXCEPT ![t] = "reason"]
    BY <1>4 DEF Jni!Rethrow, Jni!Transition, Transition, Jni!loaderVars, loaderVars
  <2>2. "thrown" \in Places \ Loading
    BY DEF Places, Loading
  <2>3. LoaderInv' /\ UNCHANGED <<machine, loaded, library>>
    BY <2>1, <2>2, MoveKeeps
  <2>4. Outcomes'
    BY <2>1, <2>3 DEF Outcomes
  <2>5. JniInv'
    BY <2>1, <2>3 DEF JniInv, Outcomes, Explained
  <2> QED
    BY <2>3, <2>4, <2>5
<1> QED
  BY <1>1, <1>2, <1>3, <1>4 DEF Jni!Next, Jni!Step
-----------------------------------------------------------------------------
(***************************************************************************)
(* The threads of FfmHandles.                                              *)
(***************************************************************************)
\* What one more field makes of a layout.
LEMMA OneMoreField ==
  ASSUME NEW a \in Nat, NEW b \in Nat, NEW k \in Nat, NEW l \in Nat \ {0}
  PROVE  [bytes |-> a, alignment |-> l] ++ [bytes |-> b, alignment |-> k]
           = [bytes |-> Aligned(a, k) + b, alignment |-> IF l < k THEN k ELSE l]
BY DEF ++

\* The size that FfmBlake3.kt assumes is what the layout gives.
LEMMA HasherSize == blake3_hasher_sizeof = AssumedSize /\ AssumedSize = 1912
<1> DEFINE R(n, k) == [bytes |-> n, alignment |-> k]
<1>1. /\ Field(8, 4) = R(32, 4) /\ Field(1, 8) = R(8, 8) /\ Field(BLOCK_LEN, 1) = R(64, 1)
      /\ Field(1, 1) = R(1, 1) /\ Field((MAX_DEPTH + 1) * OUT_LEN, 1) = R(1760, 1)
  BY DEF Field, BLOCK_LEN, MAX_DEPTH, OUT_LEN
<1>2. \A n \in Nat : Aligned(n, 1) = n
  BY DEF Aligned
<1>3. blake3_chunk_state = R(112, 8)
  <2>1. R(32, 4) ++ R(8, 8) = R(40, 8)
    BY OneMoreField DEF Aligned
  <2>2. R(40, 8) ++ R(64, 1) = R(104, 8)
    BY <1>2, OneMoreField
  <2>3. R(104, 8) ++ R(1, 1) = R(105, 8)
    BY <1>2, OneMoreField
  <2>4. R(105, 8) ++ R(1, 1) = R(106, 8)
    BY <1>2, OneMoreField
  <2>5. R(106, 8) ++ R(1, 1) = R(107, 8)
    BY <1>2, OneMoreField
  <2>6. Struct(R(107, 8)) = R(112, 8)
    BY DEF Struct, Aligned
  <2> HIDE DEF R
  <2> QED
    BY <1>1, <2>1, <2>2, <2>3, <2>4, <2>5, <2>6 DEF blake3_chunk_state
<1>4. blake3_hasher = R(1912, 8)
  <2>1. R(32, 4) ++ R(112, 8) = R(144, 8)
    BY OneMoreField DEF Aligned
  <2>2. R(144, 8) ++ R(1, 1) = R(145, 8)
    BY <1>2, OneMoreField
  <2>3. R(145, 8) ++ R(1760, 1) = R(1905, 8)
    BY <1>2, OneMoreField
  <2>4. Struct(R(1905, 8)) = R(1912, 8)
    BY DEF Struct, Aligned
  <2> HIDE DEF R
  <2> QED
    BY <1>1, <1>3, <2>1, <2>2, <2>3, <2>4 DEF blake3_hasher
<1> QED
  BY <1>4 DEF blake3_hasher_sizeof, AssumedSize
-----------------------------------------------------------------------------
FfmRest == Outcomes /\ FfmInv

\* A step of one of the FFM library's threads keeps the loader's part and
\* its own: a call ends, or goes on with or without a new value.
LEMMA FfmKeeps ==
  ASSUME LoaderInv, FfmRest, NEW t \in Threads, NewStream(t) \/ OneShot(t) \/ Step(t)
  PROVE  LoaderInv' /\ FfmRest' /\ UNCHANGED machine
<1> DEFINE Goal == LoaderInv' /\ FfmRest' /\ UNCHANGED machine
<1> HIDE DEF Goal
<1> SUFFICES Goal
  BY DEF Goal
<1>0. /\ "idle" \in Places \ Loading /\ "returned" \in Places \ Loading
      /\ "thrown" \in Places \ Loading /\ "read" \in Places \ Loading
      /\ "lookup" \in Places \ Loading /\ "find" \in Places \ Loading
  BY DEF Places, Loading
<1>1. ASSUME NewStream(t)
      PROVE  Goal
  <2>1. /\ Transition(t, "idle", "flag") /\ UNCHANGED loaderVars
        /\ UNCHANGED <<outcome, stage, size, handle>>
    BY <1>1 DEF NewStream, ffmVars
  <2>2. LoaderInv' /\ UNCHANGED <<machine, loaded, library>>
    BY <1>0, <2>1, MoveKeeps
  <2> QED
    BY <2>1, <2>2 DEF Goal, FfmRest, Outcomes, FfmInv
<1>2. ASSUME OneShot(t)
      PROVE  Goal
  <2>1. /\ Transition(t, "idle", "read") /\ UNCHANGED loaderVars
        /\ UNCHANGED <<outcome, size, handle>>
        /\ stage' = [stage EXCEPT ![t] = "size"]
    BY <1>2 DEF OneShot
  <2>2. LoaderInv' /\ UNCHANGED <<machine, loaded, library>>
    BY <1>0, <2>1, MoveKeeps
  <2> QED
    BY <2>1, <2>2 DEF Goal, FfmRest, Outcomes, FfmInv
<1>3. ASSUME Load(t)
      PROVE  Goal
  <2>1. LoaderStep(t) /\ UNCHANGED <<outcome, stage, size, handle>>
    BY <1>3 DEF Load, ffmVars
  <2>2. LoaderInv' /\ UNCHANGED machine /\ (library => library')
    BY <2>1, LoaderKeeps
  <2> QED
    BY <2>1, <2>2 DEF Goal, FfmRest, Outcomes, FfmInv
\* A call that ends, with native code having run only if there is a handle.
<1>4. ASSUME NEW from \in Places \ Loading, NEW how \in {"done", "unlinked", "reason"},
             how = "done" => handle = "found",
             Ends(t, from, how), UNCHANGED loaderVars, UNCHANGED <<size, handle>>
      PROVE  Goal
  <2>1. /\ Transition(t, from, "idle")
        /\ outcome' = [outcome EXCEPT ![t] = how]
        /\ stage' = [stage EXCEPT ![t] = "none"]
    BY <1>4 DEF Ends
  <2>2. LoaderInv' /\ UNCHANGED <<machine, loaded, library>>
    BY <1>4, <2>1, MoveKeeps
  <2>3. Outcomes'
    BY <1>4, <2>1, <2>2 DEF FfmRest, Outcomes, FfmInv
  <2>4. FfmInv'
    BY <1>4, <2>1, <2>2 DEF FfmRest, FfmInv
  <2> QED
    BY <2>2, <2>3, <2>4 DEF Goal, FfmRest
<1>5. ASSUME Constructor(t)
      PROVE  Goal
  <2>1. CASE Ends(t, "thrown", "reason")
    BY <1>0, <1>4, <1>5, <2>1 DEF Constructor
  <2>2. CASE /\ Transition(t, "returned", "read")
             /\ stage' = [stage EXCEPT ![t] = "size"]
             /\ UNCHANGED outcome
    <3>1. UNCHANGED loaderVars /\ UNCHANGED <<size, handle>>
      BY <1>5 DEF Constructor
    <3>2. LoaderInv' /\ UNCHANGED <<machine, loaded, library>>
      BY <1>0, <2>2, <3>1, MoveKeeps
    <3> QED
      BY <2>2, <3>1, <3>2 DEF Goal, FfmRest, Outcomes, FfmInv
  <2> QED
    BY <1>5, <2>1, <2>2 DEF Constructor
<1>6. ASSUME ReadReady(t)
      PROVE  Goal
  <2>1. /\ UNCHANGED loaderVars /\ UNCHANGED <<size, handle>>
        /\ stage[t] \in {"size", "handle"} /\ Initialised(stage[t])
    BY <1>6 DEF ReadReady
  <2>2. CASE stage[t] = "size"
    <3>1. size # 0 /\ stage' = [stage EXCEPT ![t] = "handle"] /\ UNCHANGED <<pc, outcome>>
      BY <1>6, <2>1, <2>2 DEF ReadReady, Initialised
    <3>2. LoaderInv' /\ UNCHANGED <<machine, loaded, library>>
      BY <2>1, <3>1 DEF loaderVars, LoaderInv, LoaderTypes, OneAttempt, Flagged
    <3> QED
      BY <2>1, <3>1, <3>2 DEF Goal, FfmRest, Outcomes, FfmInv
  <2>3. CASE stage[t] = "handle"
    <3>1. handle = "found" /\ Ends(t, "read", "done")
      BY <1>6, <2>1, <2>3 DEF ReadReady, Initialised, FfmRest, FfmInv
    <3> QED
      BY <1>0, <1>4, <2>1, <3>1
  <2> QED
    BY <2>1, <2>2, <2>3
<1>7. ASSUME NEW from \in Places \ Loading, NEW to \in {"flag", "read", "lookup", "find"},
             Transition(t, from, to), UNCHANGED loaderVars, UNCHANGED <<outcome, stage>>,
             UNCHANGED handle \/ (handle' = "found" /\ library /\ stage[t] = "handle"),
             UNCHANGED size \/ size' \in {AssumedSize, blake3_hasher_sizeof}
      PROVE  Goal
  <2>1. LoaderInv' /\ UNCHANGED <<machine, loaded, library>>
    BY <1>7, MoveKeeps
  <2>2. AssumedSize # 0 /\ blake3_hasher_sizeof # 0
    BY HasherSize
  <2>3. size # 0 => size' # 0
    BY <1>7, <2>2
  <2>4. FfmInv'
    BY <1>7, <2>1, <2>3 DEF FfmRest, FfmInv
  <2>5. Outcomes'
    BY <1>7, <2>1 DEF FfmRest, Outcomes
  <2> QED
    BY <2>1, <2>4, <2>5 DEF Goal, FfmRest
<1>8. ASSUME Enter(t)
      PROVE  Goal
  BY <1>0, <1>7, <1>8 DEF Enter
<1>9. ASSUME ReadLookup(t)
      PROVE  Goal
  BY <1>0, <1>7, <1>9 DEF ReadLookup
<1>10. ASSUME LookupReady(t)
       PROVE  Goal
  BY <1>0, <1>7, <1>10 DEF LookupReady
<1>11. ASSUME LookupThrows(t)
       PROVE  Goal
  <2>1. CASE Ends(t, "thrown", "reason") /\ UNCHANGED size
    BY <1>0, <1>4, <1>11, <2>1 DEF LookupThrows
  <2>2. CASE Transition(t, "thrown", "read") /\ size' = AssumedSize /\ UNCHANGED <<stage, outcome>>
    BY <1>0, <1>7, <1>11, <2>2 DEF LookupThrows
  <2> QED
    BY <1>11, <2>1, <2>2 DEF LookupThrows
<1>12. ASSUME FindSize(t)
       PROVE  Goal
  BY <1>0, <1>7, <1>12 DEF FindSize
<1>13. ASSUME FindHandle(t)
       PROVE  Goal
  <2>1. CASE ~library /\ Ends(t, "find", "unlinked") /\ handle' = Unfound
    <3>1. UNCHANGED handle
      BY <2>1 DEF FfmRest, FfmInv, Unfound
    <3> QED
      BY <1>0, <1>4, <1>13, <2>1, <3>1 DEF FindHandle
  <2>2. CASE library /\ Transition(t, "find", "read") /\ handle' = "found" /\ UNCHANGED <<stage, outcome>>
    BY <1>0, <1>7, <1>13, <2>2 DEF FindHandle
  <2> QED
    BY <1>13, <2>1, <2>2 DEF FindHandle
<1> QED
  BY <1>1, <1>2, <1>3, <1>5, <1>6, <1>8, <1>9, <1>10, <1>11, <1>12, <1>13 DEF Step
-----------------------------------------------------------------------------
(***************************************************************************)
(* The composition.                                                        *)
(***************************************************************************)
\* At first nothing is known and no one has asked.
LEMMA InitIInv == EitherInit => IInv
<1> SUFFICES ASSUME EitherInit
             PROVE  IInv
  OBVIOUS
<1>1. /\ \A t \in Threads : pc[t] = "idle" /\ outcome[t] = "none" /\ stage[t] = "none"
      /\ ~loaded /\ ~library /\ ~failed /\ handle = "none" /\ size = 0 /\ told = FALSE
      /\ pc = [t \in Threads |-> "idle"] /\ outcome = [t \in Threads |-> "none"]
      /\ stage = [t \in Threads |-> "none"]
      /\ loaded \in BOOLEAN /\ library \in BOOLEAN /\ failed \in BOOLEAN
  BY DEF EitherInit, Init, LoaderInit, Jni!Init
<1>2. LoaderTypes
  BY <1>1 DEF LoaderTypes, Places
<1>3. OneAttempt /\ Flagged
  BY <1>1 DEF OneAttempt, Flagged, Loading
<1>4. Outcomes /\ JniInv /\ FfmInv
  BY <1>1 DEF Outcomes, JniInv, FfmInv
<1> QED
  BY <1>2, <1>3, <1>4 DEF IInv, LoaderInv

\* Each kind of step keeps the loader's part and its own, and leaves the
\* other alone.
LEMMA NextIInv ==
  ASSUME IInv, [EitherNext]_allVars
  PROVE  IInv'
<1>1. CASE UNCHANGED allVars
  BY <1>1 DEF allVars, vars, IInv, LoaderInv, LoaderTypes, OneAttempt, Flagged, Outcomes,
              JniInv, Explained, FfmInv
<1>2. CASE Ffm /\ \E t \in FfmThreads : NewStream(t) \/ OneShot(t) \/ Step(t)
  <2>1. LoaderInv' /\ FfmRest' /\ UNCHANGED machine
    BY <1>2, FfmKeeps, FfmThreadsAssumption DEF IInv, FfmRest
  <2> QED
    BY <1>2, <2>1 DEF IInv, FfmRest, Ffm
<1>3. CASE NotFfm /\ Jni!Next
  <2>1. LoaderInv' /\ Outcomes' /\ JniInv' /\ UNCHANGED machine /\ (library => library')
    BY <1>3, JniKeeps DEF IInv, NotFfm
  <2>2. UNCHANGED <<stage, size, handle>>
    BY <1>3 DEF NotFfm, ffmVars
  <2>3. FfmInv'
    BY <2>1, <2>2 DEF IInv, FfmInv
  <2> QED
    BY <2>1, <2>3 DEF IInv
<1> QED
  BY <1>1, <1>2, <1>3 DEF EitherNext

LEMMA AlwaysIInv == EitherSpec => []IInv
BY InitIInv, NextIInv, PTL DEF EitherSpec

(***************************************************************************)
(* However many threads make their first calls at once, one of them looks  *)
(* for the library, once (loadNativeLibrary).                              *)
(***************************************************************************)
THEOREM AlwaysOneAttempt == EitherSpec => []OneAttempt
BY AlwaysIInv, PTL DEF IInv, LoaderInv

(***************************************************************************)
(* A JNI call that finds no library comes while another is loading it, or  *)
(* after the reason was, or is being, reported (loadNativeLibrary).        *)
(***************************************************************************)
THEOREM MissingAlwaysExplained == EitherSpec => []MissingIsExplained
<1>1. IInv => MissingIsExplained
  <2>1. Jni!MissingIsExplained <=>
          ((\E t \in Threads : pc[t] = "returned" \/ outcome[t] = "unlinked") => Explained)
    BY DEF Jni!MissingIsExplained, Jni!Loading, Loading, Explained
  <2> QED
    BY <2>1 DEF IInv, LoaderInv, Flagged, JniInv, MissingIsExplained
<1> QED
  BY <1>1, AlwaysIInv, PTL

\* A call of the JNI library's threads ends in NativeCall, which finds what is
\* there, or in Rethrow, whose exception is of the only attempt there is.
LEMMA JniEnds ==
  ASSUME IInv, Jni!Next, NEW u \in Threads, pc[u] # "idle", pc'[u] = "idle"
  PROVE  outcome'[u] = "done" <=> library
<1>0. pc \in [Threads -> Places] /\ outcome \in [Threads -> {"none", "done", "unlinked", "reason"}]
  BY DEF IInv, LoaderInv, LoaderTypes, Outcomes
<1>1. ASSUME NEW t \in Threads, Jni!Call(t)
      PROVE  FALSE
  BY <1>0, <1>1 DEF Jni!Call, Jni!Transition
<1>2. ASSUME NEW t \in Threads, Jni!Load(t)
      PROVE  FALSE
  BY <1>0, <1>2, SameLoader, LoaderNotIdle DEF Jni!Load
<1>3. ASSUME NEW t \in Threads, Jni!NativeCall(t)
      PROVE  outcome'[u] = "done" <=> library
  BY <1>0, <1>3 DEF Jni!NativeCall, Jni!Transition
<1>4. ASSUME NEW t \in Threads, Jni!Rethrow(t)
      PROVE  outcome'[u] = "done" <=> library
  <2>1. u = t /\ pc[t] = "thrown" /\ outcome'[u] = "reason"
    BY <1>0, <1>4 DEF Jni!Rethrow, Jni!Transition
  <2> QED
    BY <2>1 DEF IInv, LoaderInv, Flagged, OneAttempt
<1> QED
  BY <1>1, <1>2, <1>3, <1>4 DEF Jni!Next, Jni!Step

\* A call of the FFM library's threads ends with a handle that was found, with
\* a look for one that finds no library, or with the loader's exception.
LEMMA FfmEnds ==
  ASSUME IInv, NEW t \in Threads, NewStream(t) \/ OneShot(t) \/ Step(t),
         NEW u \in Threads, pc[u] # "idle", pc'[u] = "idle"
  PROVE  outcome'[u] = "done" <=> library
<1>0. pc \in [Threads -> Places] /\ outcome \in [Threads -> {"none", "done", "unlinked", "reason"}]
  BY DEF IInv, LoaderInv, LoaderTypes, Outcomes
<1>1. ASSUME NEW from, NEW to, Transition(t, from, to), to # "idle"
      PROVE  FALSE
  BY <1>0, <1>1 DEF Transition
<1>2. ASSUME NEW from, NEW how, Ends(t, from, how)
      PROVE  pc[t] = from /\ outcome'[u] = how
  BY <1>0, <1>2 DEF Ends, Transition
<1>3. pc[t] = "thrown" => ~library
  BY DEF IInv, LoaderInv, Flagged, OneAttempt
<1>4. CASE NewStream(t) \/ OneShot(t) \/ Enter(t) \/ LookupReady(t) \/ FindSize(t)
  BY <1>1, <1>4 DEF NewStream, OneShot, Enter, LookupReady, FindSize
<1>5. CASE Load(t)
  BY <1>0, <1>5, LoaderNotIdle DEF Load
<1>6. CASE Constructor(t)
  BY <1>1, <1>2, <1>3, <1>6 DEF Constructor
<1>7. CASE ReadReady(t)
  <2>1. CASE stage[t] = "size"
    BY <1>7, <2>1 DEF ReadReady
  <2>2. CASE stage[t] # "size"
    <3>1. handle = "found" /\ Ends(t, "read", "done")
      BY <1>7, <2>2 DEF ReadReady, Initialised, IInv, FfmInv
    <3> QED
      BY <1>2, <3>1 DEF IInv, FfmInv
  <2> QED
    BY <2>1, <2>2
<1>8. CASE ReadLookup(t)
  BY <1>1, <1>8 DEF ReadLookup
<1>9. CASE LookupThrows(t)
  BY <1>1, <1>2, <1>3, <1>9 DEF LookupThrows
<1>10. CASE FindHandle(t)
  BY <1>1, <1>2, <1>10 DEF FindHandle
<1> QED
  BY <1>4, <1>5, <1>6, <1>7, <1>8, <1>9, <1>10 DEF Step

(***************************************************************************)
(* Through JNI or FFM, with any number of threads, every call that ends    *)
(* with the library in the process has run native code, and no other has:  *)
(* nothing done too early, or failed, is kept (loadNativeLibrary,          *)
(* findSymbol, lookup, hasherSize).                                        *)
(***************************************************************************)
THEOREM NativeCodeAlwaysOnceLoaded == EitherSpec => NativeCodeOnceLoaded
<1> DEFINE Right == \A t \in Threads : pc[t] # "idle" /\ pc'[t] = "idle" =>
                      (outcome'[t] = "done" <=> library)
<1>1. IInv /\ [EitherNext]_allVars => [Right]_allVars
  BY JniEnds, FfmEnds, FfmThreadsAssumption DEF EitherNext, Ffm, NotFfm
<1> QED
  BY <1>1, AlwaysIInv, PTL DEF EitherSpec, NativeCodeOnceLoaded

(***************************************************************************)
(* The segments that are handed to native code hold a blake3_hasher,       *)
(* whether its size was asked for or assumed (hasherSize).                 *)
(***************************************************************************)
THEOREM SegmentAlwaysHoldsHasher == EitherSpec => []SegmentHoldsHasher
<1>1. IInv => SegmentHoldsHasher
  BY HasherSize DEF IInv, FfmInv, SegmentHoldsHasher
<1> QED
  BY <1>1, AlwaysIInv, PTL
-----------------------------------------------------------------------------
\* The loader's part and the JNI threads' make up an invariant of JniCalls
\* by itself.
JniAlone == LoaderInv /\ Outcomes /\ JniInv

(***************************************************************************)
(* What holds of the JNI library's threads does not depend on the FFM      *)
(* library being modelled beside them (loadNativeLibrary, NativeCall).     *)
(***************************************************************************)
THEOREM JniCallsAlone == Jni!Spec => [](OneAttempt /\ Jni!MissingIsExplained)
<1>1. Jni!Init => JniAlone
  <2> SUFFICES ASSUME Jni!Init
               PROVE  JniAlone
    OBVIOUS
  <2>1. /\ \A t \in Threads : pc[t] = "idle" /\ outcome[t] = "none"
        /\ ~loaded /\ ~library /\ ~failed /\ told = FALSE
        /\ pc = [t \in Threads |-> "idle"] /\ outcome = [t \in Threads |-> "none"]
        /\ loaded \in BOOLEAN /\ library \in BOOLEAN /\ failed \in BOOLEAN
    BY DEF Jni!Init, Jni!LoaderInit
  <2>2. LoaderTypes
    BY <2>1 DEF LoaderTypes, Places
  <2>3. OneAttempt /\ Flagged
    BY <2>1 DEF OneAttempt, Flagged, Loading
  <2>4. Outcomes /\ JniInv
    BY <2>1 DEF Outcomes, JniInv
  <2> QED
    BY <2>2, <2>3, <2>4 DEF JniAlone, LoaderInv
<1>2. JniAlone /\ [Jni!Next]_Jni!vars => JniAlone'
  <2> SUFFICES ASSUME JniAlone, [Jni!Next]_Jni!vars
               PROVE  JniAlone'
    OBVIOUS
  <2>1. CASE Jni!Next
    BY <2>1, JniKeeps DEF JniAlone
  <2>2. CASE UNCHANGED Jni!vars
    BY <2>2 DEF Jni!vars, JniAlone, LoaderInv, LoaderTypes, OneAttempt, Flagged, Outcomes,
                JniInv, Explained
  <2> QED
    BY <2>1, <2>2
<1>3. JniAlone => OneAttempt /\ Jni!MissingIsExplained
  BY DEF JniAlone, LoaderInv, Flagged, JniInv, Explained, Jni!MissingIsExplained,
         Jni!Loading, Loading
<1> QED
  BY <1>1, <1>2, <1>3, PTL DEF Jni!Spec
=============================================================================
